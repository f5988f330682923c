--------------------------- MODULE RegistryProofs ---------------------------
(***************************************************************************)
(* Proofs about three contracts that share no state: the identity contract, *)
(* the queue factory and the escrow contract, for every set of identities,  *)
(* queues, slugs, hashes, versions and amounts, every configuration and     *)
(* every width of the integers.                                             *)
(***************************************************************************)
EXTENDS Escrow, Identity, Factory, DataLemmas

-----------------------------------------------------------------------------
(* Identity: type correctness and the bounded list of queues               *)

\* Binding a queue that is not in the list leaves a list without repetitions.
LEMMA BindOne ==
    ASSUME NEW S, NEW s \in Seq(S), NEW e \in S, IsInjective(s), ~Contains(s, e)
    PROVE  /\ Append(s, e) \in Seq(S)
           /\ Len(Append(s, e)) = Len(s) + 1
           /\ IsInjective(Append(s, e))
           /\ \A x : Contains(Append(s, e), x) <=> Contains(s, x) \/ x = e
<1> DEFINE n == Len(s) + 1
           t == Append(s, e)
<1>1. /\ t \in Seq(S) /\ Len(t) = n /\ t[n] = e /\ DOMAIN t = 1..n
      /\ DOMAIN s = 1..Len(s) /\ Len(s) \in Nat
  OBVIOUS
<1>2. \A i \in 1..Len(s) : t[i] = s[i] /\ i \in 1..n /\ i # n
  OBVIOUS
<1>3. \A i \in 1..n : i = n \/ i \in 1..Len(s)
  BY <1>1
<1>4. n \in 1..n
  BY <1>1
<1> HIDE DEF t, n
<1>5. \A i \in 1..Len(s) : s[i] # e
  BY DEF Contains
<1>6. IsInjective(t)
  <2> SUFFICES ASSUME NEW i \in 1..n, NEW j \in 1..n, t[i] = t[j] PROVE i = j
    BY <1>1 DEF IsInjective
  <2>1. CASE i \in 1..Len(s) /\ j \in 1..Len(s)
    BY <1>1, <1>2, <2>1 DEF IsInjective
  <2>2. CASE i = n /\ j \in 1..Len(s)
    BY <1>1, <1>2, <1>5, <2>2
  <2>3. CASE i \in 1..Len(s) /\ j = n
    BY <1>1, <1>2, <1>5, <2>3
  <2>. QED BY <1>3, <2>1, <2>2, <2>3
<1>7. ASSUME NEW x PROVE Contains(t, x) <=> Contains(s, x) \/ x = e
  BY <1>1, <1>2, <1>3, <1>4 DEF Contains
<1>8. t \in Seq(S) /\ Len(t) = Len(s) + 1
  BY <1>1 DEF n
<1>. QED
  BY <1>6, <1>7, <1>8 DEF t

\* The loop that takes an element out keeps the others, and nothing is left twice.
LEMMA TakeOut ==
    ASSUME NEW S, NEW s \in Seq(S), NEW e
    PROVE  /\ Kept(s, S \ {e}) \in Seq(S)
           /\ Len(Kept(s, S \ {e})) <= Len(s)
           /\ IsInjective(s) => IsInjective(Kept(s, S \ {e}))
           /\ \A x \in S : Contains(Kept(s, S \ {e}), x) <=> Contains(s, x) /\ x # e
<1>1. ASSUME NEW x \in S PROVE Contains(Kept(s, S \ {e}), x) <=> Contains(s, x) /\ x # e
  <2> DEFINE K == S \ {e}
  <2> HIDE DEF K
  <2>1. (\E j \in 1..Len(Kept(s, K)) : Kept(s, K)[j] = x)
            <=> x \in K /\ \E i \in 1..Len(s) : s[i] = x
    BY ONLY s \in Seq(S), KeptElements
  <2> USE DEF K
  <2>. QED BY <2>1 DEF Contains
<1>2. /\ Kept(s, S \ {e}) \in Seq(S)
      /\ Len(Kept(s, S \ {e})) <= Len(s)
      /\ IsInjective(s) => IsInjective(Kept(s, S \ {e}))
  BY KeptSize
<1>. QED BY <1>1, <1>2

\* The empty contract is well typed.
LEMMA IdentityInitTypeOK == IdentityInit => IdentityTypeOK
<1> SUFFICES ASSUME IdentityInit PROVE IdentityTypeOK
  OBVIOUS
<1>1. /\ <<>> \in Seq(BindQueues) /\ IsInjective(<<>>) /\ Len(<<>>) = 0
      /\ 0 <= MaxQueues /\ 0 \in 0..LastTime
  BY IdentityAssumption DEF IsInjective
<1>. QED
  BY <1>1 DEF IdentityInit, IdentityTypeOK, IdentityRecord, Statuses

\* A record that replaces one of identity i keeps the type if it has it itself.
LEMMA RecordReplaced ==
    ASSUME IdentityTypeOK, NEW i \in Members, NEW r \in IdentityRecord,
           IsInjective(r.queues), Len(r.queues) <= MaxQueues,
           record' = [record EXCEPT ![i] = r]
    PROVE  /\ record' \in [Members -> IdentityRecord]
           /\ \A j \in Members : /\ IsInjective(record'[j].queues)
                                 /\ Len(record'[j].queues) <= MaxQueues
           /\ record'[i] = r
           /\ \A j \in Members \ {i} : record'[j] = record[j]
<1>1. record \in [Members -> IdentityRecord]
  BY DEF IdentityTypeOK
<1>2. record'[i] = r /\ \A j \in Members \ {i} : record'[j] = record[j]
  BY <1>1
<1>. QED BY <1>1, <1>2 DEF IdentityTypeOK

\* What bind() makes of a record.
LEMMA BindEffect ==
    ASSUME IdentityTypeOK, NEW i \in Members, NEW q \in BindQueues, Bind(i, q)
    PROVE  /\ record[i].status # "Revoked"
           /\ record' \in [Members -> IdentityRecord]
           /\ \A j \in Members : /\ IsInjective(record'[j].queues)
                                 /\ Len(record'[j].queues) <= MaxQueues
           /\ \A j \in Members \ {i} : record'[j] = record[j]
<1> DEFINE r == [bound_at |-> IF record[i].bound_at = 0 THEN now ELSE record[i].bound_at,
                 queues   |-> Append(record[i].queues, q),
                 status   |-> "Bound"]
<1>1. record[i] \in IdentityRecord /\ now \in 0..LastTime
  BY DEF IdentityTypeOK
<1>2. /\ record[i].queues \in Seq(BindQueues) /\ IsInjective(record[i].queues)
      /\ ~Contains(record[i].queues, q) /\ Len(record[i].queues) < MaxQueues
  BY <1>1 DEF IdentityTypeOK, Bind, IsBound, IdentityRecord
<1>3. /\ Append(record[i].queues, q) \in Seq(BindQueues)
      /\ Len(Append(record[i].queues, q)) = Len(record[i].queues) + 1
      /\ IsInjective(Append(record[i].queues, q))
  BY <1>2, BindOne
<1>4. Len(record[i].queues) + 1 <= MaxQueues
  BY <1>2, IdentityAssumption
<1>5. r \in IdentityRecord
  BY <1>1, <1>3 DEF IdentityRecord, Statuses
<1>6. record' = [record EXCEPT ![i] = r]
  BY DEF Bind
<1>7. IsInjective(r.queues) /\ Len(r.queues) <= MaxQueues
  BY <1>3, <1>4
<1> HIDE DEF r
<1>8. record[i].status # "Revoked"
  BY DEF Bind
<1>. QED BY <1>5, <1>6, <1>7, <1>8, RecordReplaced

\* What unbind() makes of a record: the status stays, one queue goes.
LEMMA UnbindEffect ==
    ASSUME IdentityTypeOK, NEW i \in Members, NEW q \in BindQueues, Unbind(i, q)
    PROVE  /\ record' \in [Members -> IdentityRecord]
           /\ \A j \in Members : /\ IsInjective(record'[j].queues)
                                 /\ Len(record'[j].queues) <= MaxQueues
           /\ \A j \in Members \ {i} : record'[j] = record[j]
           /\ record'[i].status = record[i].status
           /\ \A x \in BindQueues : Contains(record'[i].queues, x) => Contains(record[i].queues, x)
<1> DEFINE left == Kept(record[i].queues, BindQueues \ {q})
           r == [record[i] EXCEPT !.queues = left]
<1>1. record[i] \in IdentityRecord /\ record[i].queues \in Seq(BindQueues)
  BY DEF IdentityTypeOK, IdentityRecord
<1>2. IsInjective(record[i].queues) /\ Len(record[i].queues) <= MaxQueues
  BY DEF IdentityTypeOK
<1>3. /\ left \in Seq(BindQueues) /\ IsInjective(left) /\ Len(left) <= Len(record[i].queues)
      /\ \A x \in BindQueues : Contains(left, x) => Contains(record[i].queues, x)
  BY <1>1, <1>2, TakeOut
<1>4. record' = [record EXCEPT ![i] = r]
  BY DEF Unbind, IdentityTypeOK
<1> HIDE DEF left
<1>5. r \in IdentityRecord /\ r.queues = left /\ r.status = record[i].status
  BY <1>1, <1>3 DEF IdentityRecord
<1>6. Len(left) <= MaxQueues
  <2>1. Len(left) \in Nat /\ Len(record[i].queues) \in Nat
    BY <1>1, <1>3
  <2>. QED BY <1>2, <1>3, <2>1, IdentityAssumption
<1> HIDE DEF r
<1>7. /\ record' \in [Members -> IdentityRecord]
      /\ \A j \in Members : /\ IsInjective(record'[j].queues)
                            /\ Len(record'[j].queues) <= MaxQueues
      /\ record'[i] = r
      /\ \A j \in Members \ {i} : record'[j] = record[j]
  BY <1>3, <1>4, <1>5, <1>6, RecordReplaced
<1>. QED BY <1>3, <1>5, <1>7

\* Revocation sets the status and nothing else.
LEMMA RevokeEffect ==
    ASSUME IdentityTypeOK, NEW a \in Members, NEW i \in Members, Revoke(a, i)
    PROVE  /\ record' \in [Members -> IdentityRecord]
           /\ \A j \in Members : /\ IsInjective(record'[j].queues)
                                 /\ Len(record'[j].queues) <= MaxQueues
           /\ \A j \in Members \ {i} : record'[j] = record[j]
           /\ record'[i].status = "Revoked"
           /\ record'[i].queues = record[i].queues
<1> DEFINE r == [record[i] EXCEPT !.status = "Revoked"]
<1>1. record[i] \in IdentityRecord
  BY DEF IdentityTypeOK
<1>2. record' = [record EXCEPT ![i] = r]
  BY DEF Revoke, IdentityTypeOK
<1>3. r \in IdentityRecord /\ r.queues = record[i].queues /\ r.status = "Revoked"
  BY <1>1 DEF IdentityRecord, Statuses
<1>4. IsInjective(r.queues) /\ Len(r.queues) <= MaxQueues
  BY <1>3 DEF IdentityTypeOK
<1> HIDE DEF r
<1>. QED BY <1>2, <1>3, <1>4, RecordReplaced

\* Every entry point keeps the types, the lists free of repetitions and within the
\* limit.
LEMMA IdentityNextTypeOK == IdentityTypeOK /\ [IdentityNext]_idvars => IdentityTypeOK'
<1> SUFFICES ASSUME IdentityTypeOK, [IdentityNext]_idvars PROVE IdentityTypeOK'
  OBVIOUS
<1>1. CASE IdentityTick
  BY <1>1, IdentityAssumption DEF IdentityTick, IdentityTypeOK
<1>2. ASSUME NEW a \in Members, InitializeIdentity(a) PROVE IdentityTypeOK'
  BY <1>2 DEF InitializeIdentity, IdentityTypeOK
<1>3. ASSUME NEW i \in Members, NEW q \in BindQueues, Bind(i, q) PROVE IdentityTypeOK'
  <2>1. UNCHANGED <<admin, transfer_allow, attempted, now>>
    BY <1>3 DEF Bind
  <2>. QED BY <1>3, <2>1, BindEffect DEF IdentityTypeOK
<1>4. ASSUME NEW i \in Members, NEW q \in BindQueues, Unbind(i, q) PROVE IdentityTypeOK'
  <2>1. UNCHANGED <<admin, transfer_allow, attempted, now>>
    BY <1>4 DEF Unbind
  <2>. QED BY <1>4, <2>1, UnbindEffect DEF IdentityTypeOK
<1>5. ASSUME NEW a \in Members, NEW i \in Members, Revoke(a, i) PROVE IdentityTypeOK'
  <2>1. UNCHANGED <<admin, transfer_allow, attempted, now>>
    BY <1>5 DEF Revoke
  <2>. QED BY <1>5, <2>1, RevokeEffect DEF IdentityTypeOK
<1>6. ASSUME NEW a \in Members, NEW b \in BOOLEAN, SetTransferAllowed(a, b) PROVE IdentityTypeOK'
  BY <1>6 DEF SetTransferAllowed, IdentityTypeOK
<1>7. ASSUME NEW a \in Attempts, RecordTransferAttempt(a) PROVE IdentityTypeOK'
  BY <1>7 DEF RecordTransferAttempt, IdentityTypeOK
<1>8. CASE UNCHANGED idvars
  BY <1>8 DEF idvars, IdentityTypeOK
<1>. QED
  BY <1>1, <1>2, <1>3, <1>4, <1>5, <1>6, <1>7, <1>8 DEF IdentityNext

\* Every storage entry of the identity contract holds a value of its type, the list
\* of queues of an identity holds no queue twice and never more than
\* MAX_QUEUES_PER_IDENTITY, however bind() and unbind() alternate.
THEOREM IdentityTypesOK == IdentitySpec => []IdentityTypeOK
<1>. QED
  BY IdentityInitTypeOK, IdentityNextTypeOK, PTL DEF IdentitySpec

\* Revocation is final: from a revoked record no entry point leads out, and none adds
\* a queue to it.
LEMMA RevokedStays ==
    ASSUME IdentityTypeOK, [IdentityNext]_idvars, NEW i \in Members, record[i].status = "Revoked"
    PROVE  /\ record'[i].status = "Revoked"
           /\ \A q \in BindQueues : Contains(record'[i].queues, q) => Contains(record[i].queues, q)
<1>1. CASE UNCHANGED record
  BY <1>1
<1>2. ASSUME NEW j \in Members, NEW q \in BindQueues, Bind(j, q) PROVE record'[i] = record[i]
  BY <1>2, BindEffect
<1>3. ASSUME NEW j \in Members, NEW q \in BindQueues, Unbind(j, q)
      PROVE  /\ record'[i].status = "Revoked"
             /\ \A x \in BindQueues : Contains(record'[i].queues, x) => Contains(record[i].queues, x)
  BY <1>3, UnbindEffect
<1>4. ASSUME NEW a \in Members, NEW j \in Members, Revoke(a, j)
      PROVE  record'[i].status = "Revoked" /\ record'[i].queues = record[i].queues
  BY <1>4, RevokeEffect
<1>. QED
  BY <1>1, <1>2, <1>3, <1>4
     DEF IdentityNext, idvars, IdentityTick, InitializeIdentity, SetTransferAllowed,
         RecordTransferAttempt

\* Whatever is called after revoke(), the identity stays revoked, gets into no queue
\* it was not in, and can_transfer() to anybody else says no.
THEOREM IdentityRevokedForever == IdentitySpec => RevokedForever
<1>1. ASSUME IdentityTypeOK, [IdentityNext]_idvars
      PROVE  [\A i \in Members :
               record[i].status = "Revoked" =>
                  /\ record'[i].status = "Revoked"
                  /\ \A q \in BindQueues :
                        /\ IsBound(i, q)' => IsBound(i, q)
                        /\ \A t \in Members \ {i} : ~CanTransfer(i, t, q)']_idvars
  BY <1>1, RevokedStays DEF IsBound, CanTransfer
<1>. QED
  BY <1>1, IdentityTypesOK, PTL DEF IdentitySpec, RevokedForever

-----------------------------------------------------------------------------
(* Factory: type correctness                                               *)

\* An entry and a configuration are told from absent ones by their owner and admin.
LEMMA EntryIsThere ==
    /\ \A r \in QueueMetadata : r # NoQueue
    /\ \A c \in FactoryConfig : c # NoConfig
BY FactoryAssumption DEF QueueMetadata, NoQueue, FactoryConfig, NoConfig

\* What deploy_queue and register_queue write.
LEMMA NewEntry ==
    ASSUME NEW a \in Addresses, NEW c \in ContractIds, NEW v \in Versions
    PROVE  [owner |-> a, contract_id |-> c, version |-> v, active |-> TRUE] \in QueueMetadata
BY FactoryAssumption DEF QueueMetadata

\* The empty factory is well typed.
LEMMA FactoryInitTypeOK == Init => TypeOK
<1>1. <<>> \in Seq(Slugs)
  OBVIOUS
<1>. QED
  BY <1>1 DEF Init, TypeOK

\* What deactivate_queue and reactivate_queue make of the registry.
LEMMA SetActiveEffect ==
    ASSUME TypeOK, NEW a \in Addresses, NEW s \in Slugs, NEW b \in BOOLEAN, SetActive(a, s, b)
    PROVE  /\ registry' \in [Slugs -> QueueMetadata \cup {NoQueue}]
           /\ registry[s] \in QueueMetadata
           /\ registry'[s] \in QueueMetadata
           /\ registry'[s].owner = registry[s].owner
           /\ registry'[s].contract_id = registry[s].contract_id
           /\ registry'[s].version = registry[s].version
           /\ \A t \in Slugs \ {s} : registry'[t] = registry[t]
<1>1. registry[s] \in QueueMetadata
  BY DEF SetActive, TypeOK, Registered
<1>2. registry' = [registry EXCEPT ![s] = [registry[s] EXCEPT !.active = b]]
  BY DEF SetActive, TypeOK
<1>3. [registry[s] EXCEPT !.active = b] \in QueueMetadata
  BY <1>1 DEF QueueMetadata
<1>. QED
  BY <1>1, <1>2, <1>3 DEF TypeOK, QueueMetadata

\* What upgrade_queue makes of the registry: one version rises.
LEMMA UpgradeEffect ==
    ASSUME TypeOK, NEW a \in Addresses, NEW s \in Slugs, NEW v \in Versions, NEW h \in Hashes,
           UpgradeQueue(a, s, v, h)
    PROVE  /\ registry' \in [Slugs -> QueueMetadata \cup {NoQueue}]
           /\ registry[s] \in QueueMetadata
           /\ registry'[s] \in QueueMetadata
           /\ registry'[s].owner = registry[s].owner
           /\ registry'[s].contract_id = registry[s].contract_id
           /\ registry'[s].version = v /\ v > registry[s].version
           /\ \A t \in Slugs \ {s} : registry'[t] = registry[t]
<1>1. registry[s] \in QueueMetadata /\ v > registry[s].version
  BY DEF UpgradeQueue, TypeOK, Registered
<1>2. registry' = [registry EXCEPT ![s] = [registry[s] EXCEPT !.version = v]]
  BY DEF UpgradeQueue, TypeOK
<1>3. [registry[s] EXCEPT !.version = v] \in QueueMetadata
  BY <1>1, FactoryAssumption DEF QueueMetadata
<1>. QED
  BY <1>1, <1>2, <1>3 DEF TypeOK, QueueMetadata

\* Every entry point keeps the types.
LEMMA FactoryNextTypeOK == TypeOK /\ [Next]_vars => TypeOK'
<1> SUFFICES ASSUME TypeOK, [Next]_vars PROVE TypeOK'
  OBVIOUS
<1> USE FactoryAssumption
<1>1. ASSUME NEW a \in Addresses, Initialize(a) PROVE TypeOK'
  <2>1. config' \in FactoryConfig /\ <<>> \in Seq(Slugs)
    BY <1>1 DEF Initialize, FactoryConfig
  <2>. QED BY <1>1, <2>1 DEF Initialize, TypeOK
<1>2. ASSUME NEW a \in Addresses, NEW s \in Slugs, NEW v \in Versions, NEW h \in Hashes,
             DeployQueue(a, s, v, h)
      PROVE  TypeOK'
  <2>1. h \in ContractIds /\ Append(slug_idx, s) \in Seq(Slugs)
    BY DEF ContractIds, TypeOK
  <2>. QED
    BY <1>2, <2>1, NewEntry DEF DeployQueue, HostDeploy, AppendSlug, TypeOK
<1>3. ASSUME NEW a \in Addresses, NEW s \in Slugs, NEW c \in ContractIds, NEW v \in Versions,
             RegisterQueue(a, s, c, v)
      PROVE  TypeOK'
  <2>1. Append(slug_idx, s) \in Seq(Slugs)
    BY DEF TypeOK
  <2>. QED BY <1>3, <2>1, NewEntry DEF RegisterQueue, AppendSlug, TypeOK
<1>4. ASSUME NEW a \in Addresses, NEW v \in Versions, NEW h \in Hashes,
             RegisterApprovedHash(a, v, h)
      PROVE  TypeOK'
  BY <1>4 DEF RegisterApprovedHash, TypeOK
<1>5. ASSUME NEW a \in Addresses, NEW s \in Slugs, NEW b \in BOOLEAN, SetActive(a, s, b)
      PROVE  TypeOK'
  <2>1. UNCHANGED <<config, slug_idx, approved, approvals, deployed>>
    BY <1>5 DEF SetActive
  <2>. QED BY <1>5, <2>1, SetActiveEffect DEF TypeOK
<1>6. ASSUME NEW a \in Addresses, NEW s \in Slugs, DestroyQueue(a, s) PROVE TypeOK'
  <2>1. Kept(slug_idx, Slugs \ {s}) \in Seq(Slugs)
    BY TakeOut DEF TypeOK
  <2>. QED BY <1>6, <2>1 DEF DestroyQueue, RemoveSlug, TypeOK
<1>7. ASSUME NEW a \in Addresses, NEW min \in Versions, NEW max \in Versions, SetConfig(a, min, max)
      PROVE  TypeOK'
  <2>1. config \in FactoryConfig
    BY <1>7 DEF SetConfig, IsAdmin, TypeOK
  <2>2. config' \in FactoryConfig
    BY <1>7, <2>1 DEF SetConfig, FactoryConfig
  <2>. QED BY <1>7, <2>2 DEF SetConfig, TypeOK
<1>8. ASSUME NEW a \in Addresses, NEW s \in Slugs, NEW v \in Versions, NEW h \in Hashes,
             UpgradeQueue(a, s, v, h)
      PROVE  TypeOK'
  <2>1. UNCHANGED <<config, slug_idx, approved, approvals, deployed>>
    BY <1>8 DEF UpgradeQueue
  <2>. QED BY <1>8, <2>1, UpgradeEffect DEF TypeOK
<1>9. CASE UNCHANGED vars
  BY <1>9 DEF vars, TypeOK
<1>. QED
  BY <1>1, <1>2, <1>3, <1>4, <1>5, <1>6, <1>7, <1>8, <1>9
     DEF Next, DeactivateQueue, ReactivateQueue

\* Every storage entry of the factory holds a value of its type.
THEOREM FactoryTypesOK == Spec => []TypeOK
<1>. QED
  BY FactoryInitTypeOK, FactoryNextTypeOK, PTL DEF Spec

-----------------------------------------------------------------------------
(* Factory: the index of slugs                                             *)

\* initialize() empties the index: nothing was registered before it.
EmptyBefore == config = NoConfig => slug_idx = <<>>
IndexInv == TypeOK /\ IndexExact /\ EmptyBefore

\* A slug that was free is registered and appended to the index.
LEMMA SlugAdded ==
    ASSUME IndexInv, NEW s \in Slugs, ~Registered(s), AppendSlug(s),
           NEW r \in QueueMetadata, registry' = [registry EXCEPT ![s] = r]
    PROVE  IndexExact'
<1>1. slug_idx \in Seq(Slugs) /\ IsInjective(slug_idx) /\ ~Contains(slug_idx, s)
  BY DEF IndexInv, IndexExact, TypeOK
<1>2. /\ IsInjective(slug_idx')
      /\ \A x : Contains(slug_idx', x) <=> Contains(slug_idx, x) \/ x = s
  BY <1>1, BindOne DEF AppendSlug
<1>3. \A t \in Slugs : Registered(t)' <=> Registered(t) \/ t = s
  BY EntryIsThere DEF Registered, IndexInv, TypeOK
<1>. QED
  BY <1>2, <1>3 DEF IndexInv, IndexExact

\* A registered slug is destroyed and taken out of the index.
LEMMA SlugRemoved ==
    ASSUME IndexInv, NEW a \in Addresses, NEW s \in Slugs, DestroyQueue(a, s)
    PROVE  IndexExact'
<1>1. slug_idx \in Seq(Slugs) /\ IsInjective(slug_idx)
  BY DEF IndexInv, IndexExact, TypeOK
<1>2. slug_idx' = Kept(slug_idx, Slugs \ {s})
  BY DEF DestroyQueue, RemoveSlug
<1>3. /\ IsInjective(slug_idx')
      /\ \A x \in Slugs : Contains(slug_idx', x) <=> Contains(slug_idx, x) /\ x # s
  BY <1>1, <1>2, TakeOut
<1>4. \A t \in Slugs : Registered(t)' <=> Registered(t) /\ t # s
  BY DEF DestroyQueue, Registered, IndexInv, TypeOK
<1>. QED
  BY <1>3, <1>4 DEF IndexInv, IndexExact

\* A step that registers and destroys nothing and leaves the index alone.
LEMMA SlugsAsTheyWere ==
    ASSUME IndexInv, slug_idx' = slug_idx, \A s \in Slugs : Registered(s)' <=> Registered(s)
    PROVE  IndexExact'
BY DEF IndexInv, IndexExact

\* After initialize() there is a configuration for good.
LEMMA NextEmptyBefore == IndexInv /\ [Next]_vars => EmptyBefore'
<1> SUFFICES ASSUME IndexInv, [Next]_vars, config' = NoConfig PROVE slug_idx' = <<>>
  BY DEF EmptyBefore
<1>1. ASSUME NEW a \in Addresses, Initialize(a) PROVE slug_idx' = <<>>
  BY <1>1 DEF Initialize
<1>2. ASSUME NEW a \in Addresses, NEW min \in Versions, NEW max \in Versions, SetConfig(a, min, max)
      PROVE  FALSE
  <2>1. config \in FactoryConfig
    BY <1>2 DEF SetConfig, IsAdmin, IndexInv, TypeOK
  <2>2. config' \in FactoryConfig
    BY <1>2, <2>1, FactoryAssumption DEF SetConfig, FactoryConfig
  <2>. QED BY <2>2, EntryIsThere
<1>3. ASSUME config' = config, config # NoConfig PROVE FALSE
  BY <1>3
<1>4. CASE UNCHANGED vars
  BY <1>4 DEF vars, IndexInv, EmptyBefore
<1>. QED
  BY <1>1, <1>2, <1>3, <1>4
     DEF Next, DeployQueue, RegisterQueue, RegisterApprovedHash, DeactivateQueue,
         ReactivateQueue, SetActive, DestroyQueue, UpgradeQueue, IsAdmin

\* Every entry point keeps the index exact.
LEMMA NextIndexExact == IndexInv /\ [Next]_vars => IndexExact'
<1> SUFFICES ASSUME IndexInv, [Next]_vars PROVE IndexExact'
  OBVIOUS
<1>0. TypeOK
  BY DEF IndexInv
<1>1. ASSUME NEW a \in Addresses, Initialize(a) PROVE IndexExact'
  <2>1. slug_idx' = slug_idx /\ registry' = registry
    BY <1>1 DEF Initialize, IndexInv, EmptyBefore
  <2>. QED BY <2>1, SlugsAsTheyWere DEF Registered
<1>2. ASSUME NEW a \in Addresses, NEW s \in Slugs, NEW v \in Versions, NEW h \in Hashes,
             DeployQueue(a, s, v, h)
      PROVE  IndexExact'
  <2> DEFINE r == [owner |-> a, contract_id |-> h, version |-> v, active |-> TRUE]
  <2>1. r \in QueueMetadata
    BY NewEntry DEF ContractIds
  <2>2. registry' = [registry EXCEPT ![s] = r] /\ ~Registered(s) /\ AppendSlug(s)
    BY <1>2 DEF DeployQueue
  <2> HIDE DEF r
  <2>. QED BY <2>1, <2>2, SlugAdded
<1>3. ASSUME NEW a \in Addresses, NEW s \in Slugs, NEW c \in ContractIds, NEW v \in Versions,
             RegisterQueue(a, s, c, v)
      PROVE  IndexExact'
  <2> DEFINE r == [owner |-> a, contract_id |-> c, version |-> v, active |-> TRUE]
  <2>1. r \in QueueMetadata
    BY NewEntry
  <2>2. registry' = [registry EXCEPT ![s] = r] /\ ~Registered(s) /\ AppendSlug(s)
    BY <1>3 DEF RegisterQueue
  <2> HIDE DEF r
  <2>. QED BY <2>1, <2>2, SlugAdded
<1>4. ASSUME UNCHANGED <<registry, slug_idx>> PROVE IndexExact'
  BY <1>4, SlugsAsTheyWere DEF Registered
<1>5. ASSUME NEW a \in Addresses, NEW s \in Slugs, NEW b \in BOOLEAN, SetActive(a, s, b)
      PROVE  IndexExact'
  <2>1. \A t \in Slugs : Registered(t)' <=> Registered(t)
    BY <1>0, <1>5, SetActiveEffect, EntryIsThere DEF Registered
  <2>. QED BY <1>5, <2>1, SlugsAsTheyWere DEF SetActive
<1>6. ASSUME NEW a \in Addresses, NEW s \in Slugs, DestroyQueue(a, s) PROVE IndexExact'
  BY <1>6, SlugRemoved
<1>7. ASSUME NEW a \in Addresses, NEW s \in Slugs, NEW v \in Versions, NEW h \in Hashes,
             UpgradeQueue(a, s, v, h)
      PROVE  IndexExact'
  <2>1. \A t \in Slugs : Registered(t)' <=> Registered(t)
    BY <1>0, <1>7, UpgradeEffect, EntryIsThere DEF Registered
  <2>. QED BY <1>7, <2>1, SlugsAsTheyWere DEF UpgradeQueue
<1>. QED
  BY <1>1, <1>2, <1>3, <1>4, <1>5, <1>6, <1>7
     DEF Next, vars, DeactivateQueue, ReactivateQueue, RegisterApprovedHash, SetConfig

\* list_queues() names every registered slug once and nothing else, through every
\* order of deployments, imports, destructions and reuses of a slug.
THEOREM FactoryIndexExact == Spec => []IndexExact
<1>1. Init => IndexInv
  <2> SUFFICES ASSUME Init PROVE IndexInv
    OBVIOUS
  <2>1. Len(<<>>) = 0 /\ IsInjective(<<>>)
    BY DEF IsInjective
  <2>2. \A s \in Slugs : ~Registered(s) /\ ~Contains(slug_idx, s)
    BY <2>1 DEF Init, Registered, Contains
  <2>. QED
    BY <2>1, <2>2, FactoryInitTypeOK DEF Init, IndexInv, IndexExact, EmptyBefore
<1>2. IndexInv /\ [Next]_vars => IndexInv'
  BY NextIndexExact, NextEmptyBefore, FactoryNextTypeOK DEF IndexInv
<1>3. IndexInv => IndexExact
  BY DEF IndexInv
<1>. QED
  BY <1>1, <1>2, <1>3, PTL DEF Spec

-----------------------------------------------------------------------------
(* Factory: what a slug stands for                                         *)

\* approve_wasm_hash() closes the registry of approvals with the first hash.
Closed == (\E v \in Versions : approved[v] # NoHash) => approvals
ClosedInv == TypeOK /\ Closed

\* Approvals are never withdrawn.
LEMMA NextClosed == ClosedInv /\ [Next]_vars => ClosedInv'
<1> SUFFICES ASSUME ClosedInv, [Next]_vars PROVE Closed'
  BY FactoryNextTypeOK DEF ClosedInv
<1>1. ASSUME NEW a \in Addresses, NEW v \in Versions, NEW h \in Hashes,
             RegisterApprovedHash(a, v, h)
      PROVE  Closed'
  BY <1>1 DEF RegisterApprovedHash, Closed
<1>2. ASSUME UNCHANGED <<approved, approvals>> PROVE Closed'
  BY <1>2 DEF ClosedInv, Closed
<1>. QED
  BY <1>1, <1>2
     DEF Next, vars, Initialize, DeployQueue, RegisterQueue, DeactivateQueue,
         ReactivateQueue, SetActive, DestroyQueue, SetConfig, UpgradeQueue

\* Once approvals are closed a hash that passes is the approved one.
LEMMA ApprovedOnly ==
    ASSUME ClosedInv, NEW v \in Versions, NEW h \in Hashes, HashApproved(v, h),
           \E w \in Versions : approved[w] # NoHash
    PROVE  approved[v] = h /\ approved[v] # NoHash
BY FactoryAssumption DEF ClosedInv, Closed, HashApproved

\* What a step may do to what a slug stands for.
SlugKept(s) ==
    Registered(s) /\ Registered(s)' =>
        /\ registry'[s].contract_id = registry[s].contract_id
        /\ registry'[s].owner = registry[s].owner
        /\ registry'[s].version >= registry[s].version
\* What a step may bring in once a hash is approved.
OnlyApproved ==
    (\E v \in Versions : approved[v] # NoHash) =>
        /\ \A h \in deployed' \ deployed : \E v \in Versions : approved[v] = h
        /\ \A s \in Slugs :
              Registered(s) /\ Registered(s)' /\ registry'[s].version # registry[s].version
                  => approved[registry'[s].version] # NoHash

\* A step that writes the entry of one slug which was or becomes free keeps the rest.
LEMMA OneEntry ==
    ASSUME TypeOK, NEW s \in Slugs, NEW r, registry' = [registry EXCEPT ![s] = r],
           ~Registered(s) \/ r = NoQueue
    PROVE  \A t \in Slugs : Registered(t) /\ Registered(t)' => registry'[t] = registry[t]
BY DEF TypeOK, Registered

\* Entries that did not change are kept.
LEMMA SameIsKept ==
    ASSUME TypeOK, \A t \in Slugs : Registered(t) /\ Registered(t)' => registry'[t] = registry[t]
    PROVE  /\ \A t \in Slugs : SlugKept(t)
           /\ deployed' = deployed => OnlyApproved
<1>1. \A t \in Slugs : Registered(t) => registry[t].version \in Nat
  BY DEF TypeOK, Registered, QueueMetadata
<1>2. ASSUME NEW t \in Slugs PROVE SlugKept(t)
  BY <1>1 DEF SlugKept
<1>. QED
  BY <1>2 DEF OnlyApproved

\* Every entry point keeps what the registered slugs stand for.
LEMMA NextSlugStable ==
    ASSUME ClosedInv, [Next]_vars
    PROVE  (\A s \in Slugs : SlugKept(s)) /\ OnlyApproved
<1>0. TypeOK
  BY DEF ClosedInv
<1>1. ASSUME NEW a \in Addresses, NEW s \in Slugs, NEW v \in Versions, NEW h \in Hashes,
             DeployQueue(a, s, v, h)
      PROVE  (\A t \in Slugs : SlugKept(t)) /\ OnlyApproved
  <2>1. \A t \in Slugs : Registered(t) /\ Registered(t)' => registry'[t] = registry[t]
    BY <1>0, <1>1, OneEntry DEF DeployQueue
  <2>2. HashApproved(v, h) /\ deployed' = deployed \cup {h}
    BY <1>1 DEF DeployQueue, HostDeploy
  <2>3. OnlyApproved
    BY <2>1, <2>2, ApprovedOnly DEF OnlyApproved
  <2>. QED BY <1>0, <2>1, <2>3, SameIsKept
<1>2. ASSUME NEW a \in Addresses, NEW s \in Slugs, NEW c \in ContractIds, NEW v \in Versions,
             RegisterQueue(a, s, c, v)
      PROVE  (\A t \in Slugs : SlugKept(t)) /\ OnlyApproved
  <2>1. \A t \in Slugs : Registered(t) /\ Registered(t)' => registry'[t] = registry[t]
    BY <1>0, <1>2, OneEntry DEF RegisterQueue
  <2>. QED BY <1>0, <1>2, <2>1, SameIsKept DEF RegisterQueue
<1>3. ASSUME NEW a \in Addresses, NEW s \in Slugs, DestroyQueue(a, s)
      PROVE  (\A t \in Slugs : SlugKept(t)) /\ OnlyApproved
  <2>1. \A t \in Slugs : Registered(t) /\ Registered(t)' => registry'[t] = registry[t]
    BY <1>0, <1>3, OneEntry DEF DestroyQueue
  <2>. QED BY <1>0, <1>3, <2>1, SameIsKept DEF DestroyQueue
<1>4. ASSUME UNCHANGED <<registry, deployed>>
      PROVE  (\A t \in Slugs : SlugKept(t)) /\ OnlyApproved
  BY <1>0, <1>4, SameIsKept
<1>5. ASSUME NEW a \in Addresses, NEW s \in Slugs, NEW b \in BOOLEAN, SetActive(a, s, b)
      PROVE  (\A t \in Slugs : SlugKept(t)) /\ OnlyApproved
  <2>1. /\ registry[s].version \in Nat /\ registry'[s].version = registry[s].version
        /\ registry'[s].owner = registry[s].owner
        /\ registry'[s].contract_id = registry[s].contract_id
        /\ \A t \in Slugs \ {s} : registry'[t] = registry[t]
    BY <1>0, <1>5, SetActiveEffect DEF QueueMetadata
  <2>2. \A t \in Slugs : Registered(t) => registry[t].version \in Nat
    BY <1>0 DEF TypeOK, Registered, QueueMetadata
  <2>3. \A t \in Slugs : SlugKept(t)
    BY <2>1, <2>2 DEF SlugKept
  <2>4. deployed' = deployed
    BY <1>5 DEF SetActive
  <2>. QED BY <2>1, <2>3, <2>4 DEF OnlyApproved
<1>6. ASSUME NEW a \in Addresses, NEW s \in Slugs, NEW v \in Versions, NEW h \in Hashes,
             UpgradeQueue(a, s, v, h)
      PROVE  (\A t \in Slugs : SlugKept(t)) /\ OnlyApproved
  <2>1. /\ registry[s].version \in Nat /\ registry'[s].version = v /\ v > registry[s].version
        /\ registry'[s].owner = registry[s].owner
        /\ registry'[s].contract_id = registry[s].contract_id
        /\ \A t \in Slugs \ {s} : registry'[t] = registry[t]
    BY <1>0, <1>6, UpgradeEffect DEF QueueMetadata
  <2>2. \A t \in Slugs : Registered(t) => registry[t].version \in Nat
    BY <1>0 DEF TypeOK, Registered, QueueMetadata
  <2>3. v \in Nat
    BY FactoryAssumption
  <2>4. \A t \in Slugs : SlugKept(t)
    BY <2>1, <2>2, <2>3 DEF SlugKept
  <2>5. deployed' = deployed /\ HashApproved(v, h)
    BY <1>6 DEF UpgradeQueue
  <2>6. OnlyApproved
    BY <2>1, <2>5, ApprovedOnly DEF OnlyApproved
  <2>. QED BY <2>4, <2>6
<1>. QED
  BY <1>1, <1>2, <1>3, <1>4, <1>5, <1>6
     DEF Next, vars, Initialize, RegisterApprovedHash, SetConfig, DeactivateQueue, ReactivateQueue

\* A verified slug keeps its contract and its owner, at a version that never falls,
\* until it is destroyed; and once one hash is approved nothing that is not approved
\* can be deployed or upgraded to.
THEOREM FactorySlugStable == Spec => SlugStable
<1>1. Init => ClosedInv
  <2>1. Init => Closed
    BY DEF Init, Closed
  <2>. QED BY <2>1, FactoryInitTypeOK DEF ClosedInv
<1>2. ASSUME ClosedInv, [Next]_vars
      PROVE  [/\ \A s \in Slugs :
                   Registered(s) /\ Registered(s)' =>
                      /\ registry'[s].contract_id = registry[s].contract_id
                      /\ registry'[s].owner = registry[s].owner
                      /\ registry'[s].version >= registry[s].version
              /\ (\E v \in Versions : approved[v] # NoHash) =>
                   /\ \A h \in deployed' \ deployed : \E v \in Versions : approved[v] = h
                   /\ \A s \in Slugs :
                         Registered(s) /\ Registered(s)' /\ registry'[s].version # registry[s].version
                             => approved[registry'[s].version] # NoHash]_vars
  BY <1>2, NextSlugStable DEF SlugKept, OnlyApproved
<1>. QED
  BY <1>1, <1>2, NextClosed, PTL DEF Spec, SlugStable

-----------------------------------------------------------------------------
(* Escrow                                                                  *)

\* A hold period of at least one day is at least a day of seconds.
LEMMA HoldIsADay ==
    ASSUME NEW d \in Nat \ {0}, NEW s \in Nat
    PROVE  d * s \in Nat /\ d * s >= s
<1>1. PICK e \in Nat : d = e + 1
  <2>. QED BY d - 1 \in Nat, d = (d - 1) + 1
<1>2. d * s = e * s + s
  BY <1>1
<1>3. e * s \in Nat
  OBVIOUS
<1>. QED
  BY <1>2, <1>3

\* A settlement restamps one Active record and changes nothing else of the records.
LEMMA SettleEffect ==
    ASSUME EscrowTypeOK, NEW k \in Keys, NEW st \in Terminal, Settle(k, st)
    PROVE  /\ escrow[k] \in EscrowRecord /\ Active(k)
           /\ escrow'[k] \in EscrowRecord
           /\ escrow'[k].status = st
           /\ escrow'[k].released_at = timestamp
           /\ escrow'[k].created_at = escrow[k].created_at
           /\ escrow'[k].expires_at = escrow[k].expires_at
           /\ \A j \in Keys \ {k} : escrow'[j] = escrow[j]
           /\ escrow' \in [Keys -> EscrowRecord \cup {NoEscrow}]
<1>1. escrow[k] \in EscrowRecord /\ Active(k)
  BY DEF Settle, EscrowTypeOK, Active
<1>2. escrow' = [escrow EXCEPT ![k] = [escrow[k] EXCEPT !.status = st, !.released_at = timestamp]]
  BY DEF Settle, EscrowTypeOK
<1>3. [escrow[k] EXCEPT !.status = st, !.released_at = timestamp] \in EscrowRecord
  BY <1>1 DEF EscrowRecord, EscrowTypeOK
<1>. QED
  BY <1>1, <1>2, <1>3 DEF EscrowTypeOK, EscrowRecord

-----------------------------------------------------------------------------
(* Type correctness                                                        *)

\* The empty contract is well typed.
LEMMA EscrowInitTypeOK == EscrowInit => EscrowTypeOK
BY EscrowAssumption DEF EscrowInit, EscrowTypeOK, Times

\* Every entry point keeps the types: no timestamp leaves the range of u64.
LEMMA EscrowNextTypeOK == EscrowTypeOK /\ [EscrowNext]_escvars => EscrowTypeOK'
<1> SUFFICES ASSUME EscrowTypeOK, [EscrowNext]_escvars PROVE EscrowTypeOK'
  OBVIOUS
<1> USE EscrowAssumption
<1>1. ASSUME EscrowTick PROVE EscrowTypeOK'
  BY <1>1 DEF EscrowTick, EscrowTypeOK, Times
<1>2. ASSUME NEW q \in Queues, NEW b \in Bounds, NEW d \in HoldPeriods,
             SetEscrowConfig(q, b[1], b[2], d)
      PROVE  EscrowTypeOK'
  BY <1>2 DEF SetEscrowConfig, EscrowTypeOK, EscrowConfig
<1>3. ASSUME NEW k \in Keys, NEW amount \in Amounts, Deposit(k, amount)
      PROVE  EscrowTypeOK'
  <2>1. k[1] \in Queues
    OBVIOUS
  <2>2. escrow_config[k[1]] \in EscrowConfig
    BY <1>3, <2>1 DEF Deposit, EscrowTypeOK
  <2>3. escrow_config[k[1]].hold_period_days * SecondsPerDay \in Nat
    BY <2>2, HoldIsADay DEF EscrowConfig
  <2>4. timestamp + escrow_config[k[1]].hold_period_days * SecondsPerDay \in Times
    BY <1>3, <2>3 DEF Deposit, EscrowTypeOK, Times
  <2>5. escrow' \in [Keys -> EscrowRecord \cup {NoEscrow}]
    BY <1>3, <2>4 DEF Deposit, EscrowTypeOK, EscrowRecord
  <2>6. escrow_total' \in [Queues -> Int]
    BY <1>3, <2>1 DEF Deposit, EscrowTypeOK
  <2>7. agreed' \in [Keys -> Nat]
    BY <1>3, <2>2 DEF Deposit, EscrowTypeOK, EscrowConfig
  <2>. QED
    BY <1>3, <2>5, <2>6, <2>7 DEF Deposit, EscrowTypeOK
<1>4. ASSUME NEW k \in Keys, NEW st \in Terminal, Settle(k, st)
      PROVE  EscrowTypeOK'
  <2>1. k[1] \in Queues
    OBVIOUS
  <2>2. escrow[k].amount \in Int
    BY <1>4, SettleEffect DEF EscrowRecord
  <2>3. escrow_total' \in [Queues -> Int]
    BY <1>4, <2>1, <2>2 DEF Settle, EscrowTypeOK
  <2>. QED
    BY <1>4, <2>3, SettleEffect DEF Settle, EscrowTypeOK
<1>5. ASSUME UNCHANGED escvars PROVE EscrowTypeOK'
  BY <1>5 DEF escvars, EscrowTypeOK
<1>. QED
  BY <1>1, <1>2, <1>3, <1>4, <1>5 DEF EscrowNext, Release, Refund, Expire, Terminal

\* Every record, configuration, total and time stays a value of its declared type.
THEOREM EscrowTypesOK == EscrowSpec => []EscrowTypeOK
<1>. QED
  BY EscrowInitTypeOK, EscrowNextTypeOK, PTL DEF EscrowSpec

-----------------------------------------------------------------------------
(* Settled once                                                            *)

\* One step changes no settled record.
LEMMA SettledStays ==
    ASSUME EscrowTypeOK, [EscrowNext]_escvars, NEW j \in Keys, escrow[j].status \in Terminal
    PROVE  escrow'[j] = escrow[j]
<1> USE EscrowAssumption
<1>1. CASE EscrowTick
  BY <1>1 DEF EscrowTick
<1>2. ASSUME NEW q \in Queues, NEW b \in Bounds, NEW d \in HoldPeriods,
             SetEscrowConfig(q, b[1], b[2], d)
      PROVE  escrow'[j] = escrow[j]
  BY <1>2 DEF SetEscrowConfig
<1>3. ASSUME NEW k \in Keys, NEW amount \in Amounts, Deposit(k, amount)
      PROVE  escrow'[j] = escrow[j]
  <2>1. j # k
    BY <1>3 DEF Deposit, NoEscrow, Terminal
  <2>. QED
    BY <1>3, <2>1 DEF Deposit, EscrowTypeOK
<1>4. ASSUME NEW k \in Keys, NEW st \in Terminal, Settle(k, st)
      PROVE  escrow'[j] = escrow[j]
  BY <1>4, SettleEffect DEF Active, Terminal
<1>5. CASE UNCHANGED escvars
  BY <1>5 DEF escvars
<1>. QED
  BY <1>1, <1>2, <1>3, <1>4, <1>5 DEF EscrowNext, Release, Refund, Expire, Terminal

\* A record settles at most once, and a settled record never changes: no order of
\* deposits, releases, refunds and expiries reopens or restamps it.
THEOREM EscrowSettledOnce == EscrowSpec => SettledOnce
<1>1. EscrowTypeOK /\ [EscrowNext]_escvars
        => [\A k \in Keys : escrow[k].status \in Terminal => escrow'[k] = escrow[k]]_escvars
  BY SettledStays
<1>. QED
  BY <1>1, EscrowTypesOK, PTL DEF EscrowSpec, SettledOnce

-----------------------------------------------------------------------------
(* The hold period                                                         *)

\* HoldHonoured is not inductive by itself: a settlement is stamped with the clock, so
\* an Active record must not have been created in its future.
CreatedInThePast == \A k \in Keys : Active(k) => escrow[k].created_at <= timestamp
Due(k) == escrow[k].created_at + agreed[k] * SecondsPerDay
Honoured(k) ==
    /\ agreed[k] >= 1 /\ escrow[k].expires_at = Due(k)
    /\ escrow[k].status = "Expired" => escrow[k].released_at >= Due(k)
    /\ ~Active(k) => escrow[k].released_at >= escrow[k].created_at
HoldInv == EscrowTypeOK /\ CreatedInThePast /\ HoldHonoured

\* HoldHonoured, record by record.
LEMMA HonouredEach == HoldHonoured <=> \A k \in Keys : escrow[k] # NoEscrow => Honoured(k)
BY DEF HoldHonoured, Honoured, Due

\* One step keeps the inductive invariant.
LEMMA HoldNext == HoldInv /\ [EscrowNext]_escvars => HoldInv'
<1> SUFFICES ASSUME HoldInv, [EscrowNext]_escvars PROVE CreatedInThePast' /\ HoldHonoured'
  BY EscrowNextTypeOK DEF HoldInv
<1> USE EscrowAssumption
<1>0. EscrowTypeOK
  BY DEF HoldInv
<1>1. CASE EscrowTick
  <2>1. timestamp \in Int /\ timestamp' = timestamp + 1 /\ escrow' = escrow
    BY <1>0, <1>1 DEF EscrowTick, EscrowTypeOK, Times
  <2>2. \A k \in Keys : Active(k) => escrow[k].created_at \in Int
    BY <1>0 DEF EscrowTypeOK, EscrowRecord, NoEscrow, Active, Times
  <2>3. CreatedInThePast'
    BY <2>1, <2>2 DEF HoldInv, CreatedInThePast, Active
  <2>4. HoldHonoured'
    BY <1>1, <2>1 DEF EscrowTick, HoldInv, HoldHonoured, Active
  <2>. QED
    BY <2>3, <2>4
<1>2. ASSUME NEW q \in Queues, NEW b \in Bounds, NEW d \in HoldPeriods,
             SetEscrowConfig(q, b[1], b[2], d)
      PROVE  CreatedInThePast' /\ HoldHonoured'
  BY <1>2 DEF SetEscrowConfig, HoldInv, CreatedInThePast, HoldHonoured, Active
<1>3. ASSUME NEW k \in Keys, NEW amount \in Amounts, Deposit(k, amount)
      PROVE  CreatedInThePast' /\ HoldHonoured'
  <2> DEFINE hold == escrow_config[k[1]].hold_period_days * SecondsPerDay
  <2>1. /\ hold \in Nat /\ escrow_config[k[1]].hold_period_days >= 1
        /\ hold = escrow_config[k[1]].hold_period_days * SecondsPerDay
    <3>1. k[1] \in Queues
      OBVIOUS
    <3>2. escrow_config[k[1]] \in EscrowConfig
      BY <1>0, <1>3, <3>1 DEF Deposit, EscrowTypeOK
    <3>. QED
      BY <3>2, HoldIsADay DEF EscrowConfig, hold
  <2> HIDE DEF hold
  <2>2. /\ escrow'[k] = [amount |-> amount, status |-> "Active", created_at |-> timestamp,
                         expires_at |-> timestamp + hold, released_at |-> NoTime]
        /\ agreed'[k] = escrow_config[k[1]].hold_period_days
        /\ \A j \in Keys \ {k} : escrow'[j] = escrow[j] /\ agreed'[j] = agreed[j]
        /\ timestamp' = timestamp
    BY <1>0, <1>3 DEF Deposit, EscrowTypeOK, hold
  <2>3. timestamp \in Nat
    BY <1>0 DEF EscrowTypeOK, Times
  <2>4. CreatedInThePast'
    BY <2>2, <2>3 DEF HoldInv, CreatedInThePast, Active
  <2>5. HoldHonoured'
    <3>1. ASSUME NEW j \in Keys, j # k, escrow'[j] # NoEscrow
          PROVE  Honoured(j)'
      BY <2>2, <3>1, HonouredEach DEF HoldInv, Honoured, Due, Active
    <3>2. Honoured(k)'
      BY <2>1, <2>2, <2>3 DEF Honoured, Due, Active
    <3>. QED
      BY <3>1, <3>2 DEF HoldHonoured, Honoured, Due, Active
  <2>. QED
    BY <2>4, <2>5
<1>4. ASSUME NEW k \in Keys, NEW st \in Terminal, Settle(k, st),
             st = "Expired" => timestamp >= escrow[k].expires_at
      PROVE  CreatedInThePast' /\ HoldHonoured'
  <2>1. /\ escrow[k] \in EscrowRecord /\ Active(k)
        /\ escrow'[k] \in EscrowRecord /\ escrow'[k].status = st
        /\ escrow'[k].released_at = timestamp
        /\ escrow'[k].created_at = escrow[k].created_at
        /\ escrow'[k].expires_at = escrow[k].expires_at
        /\ \A j \in Keys \ {k} : escrow'[j] = escrow[j]
    BY <1>0, <1>4, SettleEffect
  <2>2. timestamp' = timestamp /\ timestamp \in Int /\ agreed' = agreed
    BY <1>0, <1>4 DEF Settle, EscrowTypeOK, Times
  <2>3. CreatedInThePast'
    BY <2>1, <2>2 DEF HoldInv, CreatedInThePast, Active, Terminal
  <2>4. escrow[k].created_at <= timestamp /\ escrow[k] # NoEscrow
    BY <2>1 DEF HoldInv, CreatedInThePast, Active, NoEscrow
  <2>5. HoldHonoured'
    <3>1. ASSUME NEW j \in Keys, j # k, escrow'[j] # NoEscrow
          PROVE  Honoured(j)'
      BY <2>1, <2>2, <3>1, HonouredEach DEF HoldInv, Honoured, Due, Active
    <3>2. Honoured(k) /\ Due(k)' = Due(k)
      BY <2>1, <2>2, <2>4, HonouredEach DEF HoldInv, Due
    <3>3. Honoured(k)'
      BY <1>4, <2>1, <2>2, <2>4, <3>2 DEF Honoured, Active
    <3>. QED
      BY <3>1, <3>3 DEF HoldHonoured, Honoured, Due, Active
  <2>. QED
    BY <2>3, <2>5
<1>5. CASE UNCHANGED escvars
  BY <1>5 DEF escvars, HoldInv, CreatedInThePast, HoldHonoured, Active
<1>. QED
  BY <1>1, <1>2, <1>3, <1>4, <1>5 DEF EscrowNext, Release, Refund, Expire, Terminal

\* The hold period in force at the deposit is honoured, whatever set_config does before
\* or after: the recorded date is that many days after the deposit, at least one, and no
\* expiry is stamped before it.
THEOREM EscrowHoldHonoured == EscrowSpec => []HoldHonoured
<1>1. EscrowInit => HoldInv
  BY EscrowInitTypeOK DEF EscrowInit, HoldInv, CreatedInThePast, HoldHonoured, Active, NoEscrow
<1>2. HoldInv => HoldHonoured
  BY DEF HoldInv
<1>. QED
  BY <1>1, <1>2, HoldNext, PTL DEF EscrowSpec

-----------------------------------------------------------------------------
(* The total of a queue                                                    *)

\* The deposits of queue q that are Active in the records e, and the amounts of e.
HeldIn(e, q) == {k \in Keys : k[1] = q /\ e[k].status = "Active"}
AmountsOf(e) == [k \in Keys |-> e[k].amount]
SumIn(e, q) == SumOver(AmountsOf(e), HeldIn(e, q))

\* The fold that TotalIsSumOfActive names is that sum.
LEMMA FoldIsSum ==
    ASSUME NEW e, NEW S \in SUBSET Keys, IsFiniteSet(S)
    PROVE  MapThenSumSet(LAMBDA k : e[k].amount, S) = SumOver(AmountsOf(e), S)
<1> DEFINE Step(g) == [s \in SUBSET S |-> IF s = {} THEN 0
                          ELSE e[Chosen(s)].amount + g[s \ {Chosen(s)}]]
           f == AmountsOf(e)
<1>1. MapThenSumSet(LAMBDA k : e[k].amount, S) = (CHOOSE g : g = Step(g))[S]
  BY DEF MapThenSumSet, MapThenFoldSet, Chosen
<1>2. \A s \in SUBSET S : s # {} => f[Chosen(s)] = e[Chosen(s)].amount
  BY ChosenIn DEF AmountsOf
<1> HIDE DEF f
<1>3. ASSUME NEW g PROVE g = Step(g) <=> IsSum(g, f, SUBSET S)
  BY <1>2 DEF IsSum
<1> HIDE DEF Step
<1>4. \E g : g = Step(g)
  BY <1>3, SumExists
<1>5. PICK g : g = Step(g) /\ MapThenSumSet(LAMBDA k : e[k].amount, S) = g[S]
  BY <1>1, <1>4
<1>6. IsSum(g, f, SUBSET S)
  BY <1>3, <1>5
<1>7. PICK h : IsSum(h, f, SUBSET S) /\ SumOver(f, S) = h[S]
  BY SumOverFacts
<1>8. g[S] = h[S]
  BY <1>6, <1>7, SumAgrees
<1>9. MapThenSumSet(LAMBDA k : e[k].amount, S) = SumOver(f, S)
  BY <1>5, <1>7, <1>8
<1>. QED
  BY <1>9 DEF f

\* Records that differ in the one entry k, Active in d and not in e: the sum of its
\* queue differs by its amount, the other sums are the same.
LEMMA OneActiveMore ==
    ASSUME NEW e, NEW d, NEW k \in Keys,
           \A j \in Keys : e[j].amount \in Int /\ d[j].amount \in Int,
           \A j \in Keys \ {k} : d[j] = e[j],
           e[k].status # "Active", d[k].status = "Active",
           NEW q \in Queues, IsFiniteSet(HeldIn(e, q))
    PROVE  /\ IsFiniteSet(HeldIn(d, q))
           /\ SumIn(e, q) \in Int
           /\ SumIn(d, q) = SumIn(e, q) + (IF q = k[1] THEN d[k].amount ELSE 0)
<1> DEFINE E == HeldIn(e, q)
           D == HeldIn(d, q)
           f == AmountsOf(e)
           g == AmountsOf(d)
<1>1. k \notin E /\ E \subseteq Keys
  BY DEF HeldIn
<1>2. D = IF q = k[1] THEN E \cup {k} ELSE E
  BY DEF HeldIn
<1>3. \A j \in E : f[j] = g[j]
  BY DEF HeldIn, AmountsOf
<1>4. \A j \in Keys : f[j] \in Int /\ g[j] \in Int
  BY DEF AmountsOf
<1>5. g[k] = d[k].amount /\ IsFiniteSet(E)
  BY DEF AmountsOf
<1>6. SumIn(e, q) = SumOver(f, E) /\ SumIn(d, q) = SumOver(g, D)
  BY DEF SumIn
<1> HIDE DEF E, D, f, g
<1>7. SumOver(f, E) \in Int /\ SumOver(f, E) = SumOver(g, E)
  BY <1>1, <1>3, <1>4, <1>5, SumSame, SumType
<1>8. CASE q = k[1]
  <2>1. D = E \cup {k} /\ IsFiniteSet(D) /\ k \in D /\ D \ {k} = E
    BY <1>1, <1>2, <1>5, <1>8, FS_AddElement
  <2>2. \A j \in D : g[j] \in Int
    BY <1>1, <1>4, <2>1
  <2>3. SumOver(g, D) = g[k] + SumOver(g, D \ {k})
    BY <2>1, <2>2, SumRemove
  <2>4. g[k] \in Int /\ SumOver(g, D) = g[k] + SumOver(f, E)
    BY <1>4, <1>7, <2>1, <2>3
  <2>. QED BY <1>5, <1>6, <1>7, <1>8, <2>1, <2>4 DEF D
<1>9. CASE q # k[1]
  BY <1>2, <1>5, <1>6, <1>7, <1>9 DEF D
<1>. QED BY <1>8, <1>9

\* The running total is the sum of the Active deposits; the sum exists because only
\* finitely many deposits were ever made, however many identities there are.
SumInv ==
    /\ EscrowTypeOK
    /\ \A q \in Queues : IsFiniteSet(HeldIn(escrow, q)) /\ escrow_total[q] = SumIn(escrow, q)

\* Amounts are integers, those of absent records too.
LEMMA AmountsAreInts ==
    ASSUME NEW e \in [Keys -> EscrowRecord \cup {NoEscrow}]
    PROVE  \A j \in Keys : e[j].amount \in Int
BY DEF EscrowRecord, NoEscrow

\* Every entry point keeps the totals equal to the sums.
LEMMA NextSumInv == SumInv /\ [EscrowNext]_escvars => SumInv'
<1> SUFFICES ASSUME SumInv, [EscrowNext]_escvars PROVE SumInv'
  OBVIOUS
<1> USE EscrowAssumption
<1>0. EscrowTypeOK /\ EscrowTypeOK'
  BY EscrowNextTypeOK DEF SumInv
<1>a. \A j \in Keys : escrow[j].amount \in Int /\ escrow'[j].amount \in Int
  BY <1>0, AmountsAreInts DEF EscrowTypeOK
<1>1. ASSUME UNCHANGED <<escrow, escrow_total>> PROVE SumInv'
  BY <1>0, <1>1 DEF SumInv
<1>2. ASSUME NEW k \in Keys, NEW amount \in Amounts, Deposit(k, amount) PROVE SumInv'
  <2>1. escrow[k].status # "Active" /\ escrow'[k].status = "Active" /\ escrow'[k].amount = amount
    BY <1>0, <1>2 DEF Deposit, NoEscrow, EscrowTypeOK
  <2>2. \A j \in Keys \ {k} : escrow'[j] = escrow[j]
    BY <1>0, <1>2 DEF Deposit, EscrowTypeOK
  <2>3. \A q \in Queues : escrow_total'[q] = escrow_total[q] + (IF q = k[1] THEN amount ELSE 0)
    BY <1>0, <1>2 DEF Deposit, EscrowTypeOK
  <2>4. ASSUME NEW q \in Queues
        PROVE  IsFiniteSet(HeldIn(escrow', q)) /\ escrow_total'[q] = SumIn(escrow', q)
    <3>1. IsFiniteSet(HeldIn(escrow, q)) /\ escrow_total[q] = SumIn(escrow, q)
      BY DEF SumInv
    <3>2. /\ IsFiniteSet(HeldIn(escrow', q))
          /\ SumIn(escrow', q) = SumIn(escrow, q) + (IF q = k[1] THEN escrow'[k].amount ELSE 0)
      <4>1. \A j \in Keys : escrow[j].amount \in Int /\ escrow'[j].amount \in Int
        BY <1>a
      <4>. QED BY ONLY <2>1, <2>2, <3>1, <4>1, OneActiveMore
    <3>. QED BY <2>1, <2>3, <3>1, <3>2
  <2>. QED BY <1>0, <2>4 DEF SumInv
<1>3. ASSUME NEW k \in Keys, NEW st \in Terminal, Settle(k, st) PROVE SumInv'
  <2>1. /\ escrow[k].status = "Active" /\ escrow'[k].status # "Active"
        /\ \A j \in Keys \ {k} : escrow[j] = escrow'[j]
    BY <1>0, <1>3, SettleEffect DEF Active, Terminal
  <2>2. \A q \in Queues :
          escrow_total'[q] = escrow_total[q] - (IF q = k[1] THEN escrow[k].amount ELSE 0)
    BY <1>0, <1>3, <1>a DEF Settle, EscrowTypeOK
  <2>3. ASSUME NEW q \in Queues
        PROVE  IsFiniteSet(HeldIn(escrow', q)) /\ escrow_total'[q] = SumIn(escrow', q)
    <3>1. IsFiniteSet(HeldIn(escrow, q)) /\ escrow_total[q] = SumIn(escrow, q)
      BY DEF SumInv
    <3>2. IsFiniteSet(HeldIn(escrow', q))
      <4>1. HeldIn(escrow', q) \subseteq HeldIn(escrow, q)
        BY <2>1 DEF HeldIn
      <4>. QED BY <3>1, <4>1, FS_Subset
    <3>3. /\ SumIn(escrow', q) \in Int
          /\ SumIn(escrow, q) = SumIn(escrow', q) + (IF q = k[1] THEN escrow[k].amount ELSE 0)
      <4>1. \A j \in Keys : escrow'[j].amount \in Int /\ escrow[j].amount \in Int
        BY <1>a
      <4>. QED BY ONLY <2>1, <3>2, <4>1, OneActiveMore
    <3>. QED BY <1>a, <2>2, <3>1, <3>2, <3>3
  <2>. QED BY <1>0, <2>3 DEF SumInv
<1>. QED
  BY <1>1, <1>2, <1>3
     DEF EscrowNext, escvars, EscrowTick, SetEscrowConfig, Release, Refund, Expire, Terminal

\* get_total_held() of a queue is the sum of its Active deposits, after every order of
\* deposits and settlements, for any number of queues, identities and amounts.
THEOREM EscrowTotalIsSumOfActive == EscrowSpec => []TotalIsSumOfActive
<1>1. EscrowInit => SumInv
  <2> SUFFICES ASSUME EscrowInit PROVE SumInv
    OBVIOUS
  <2>1. \A q \in Queues : HeldIn(escrow, q) = {}
    BY DEF EscrowInit, HeldIn, NoEscrow
  <2>2. \A q \in Queues : SumIn(escrow, q) = 0 /\ IsFiniteSet(HeldIn(escrow, q))
    BY <2>1, SumOfNone, FS_EmptySet DEF SumIn
  <2>. QED BY <2>2, EscrowInitTypeOK DEF EscrowInit, SumInv
<1>2. SumInv => TotalIsSumOfActive
  <2> SUFFICES ASSUME SumInv, NEW q \in Queues
               PROVE  escrow_total[q] = MapThenSumSet(LAMBDA k : escrow[k].amount,
                                                      {k \in Keys : k[1] = q /\ Active(k)})
    BY DEF TotalIsSumOfActive
  <2>1. {k \in Keys : k[1] = q /\ Active(k)} = HeldIn(escrow, q)
    BY DEF HeldIn, Active
  <2>2. HeldIn(escrow, q) \in SUBSET Keys /\ IsFiniteSet(HeldIn(escrow, q))
    BY DEF SumInv, HeldIn
  <2>3. MapThenSumSet(LAMBDA k : escrow[k].amount, HeldIn(escrow, q)) = SumIn(escrow, q)
    BY <2>2, FoldIsSum DEF SumIn
  <2>. QED BY <2>1, <2>3 DEF SumInv
<1>. QED
  BY <1>1, <1>2, NextSumInv, PTL DEF EscrowSpec
=============================================================================
