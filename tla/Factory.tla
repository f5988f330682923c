------------------------------ MODULE Factory ------------------------------
(***************************************************************************)
(* The lineproof-queue-factory contract                                     *)
(* (contracts/lineproof-queue-factory/src/lib.rs): the registry of queues   *)
(* by slug, the index of slugs behind list_queues and queue_count, and the  *)
(* wasm hashes approved per version.                                        *)
(***************************************************************************)
EXTENDS Integers, Sequences, SequencesExt, Vec

CONSTANTS
    Addresses, NoAddress,
    Slugs,
    Hashes,           \* wasm hashes
    NoHash,
    Contracts,        \* contracts that exist already, for register_queue
    Versions          \* values of version tried

ASSUME FactoryAssumption ==
    /\ NoAddress \notin Addresses
    /\ NoHash \notin Hashes
    /\ Contracts \cap Hashes = {}
    /\ Versions \subseteq Nat

VARIABLES
    config,      \* "config", NoConfig before initialize
    registry,    \* ("queue", slug), NoQueue when absent
    slug_idx,    \* "slug_idx": a Vec of slugs
    approved,    \* ("approved", version), NoHash when absent
    approvals,   \* "approvals" (false when absent)
    deployed     \* the hashes this factory has deployed: their addresses are taken

vars == <<config, registry, slug_idx, approved, approvals, deployed>>

NoConfig == [admin |-> NoAddress, min_version |-> 0, max_version |-> 0]
FactoryConfig == [admin : Addresses, min_version : Nat, max_version : Nat]
\* The salt of a deployment is the wasm hash: the hash stands for the address.
ContractIds == Hashes \cup Contracts
NoQueue == [owner |-> NoAddress, contract_id |-> NoHash, version |-> 0, active |-> FALSE]
QueueMetadata == [owner : Addresses, contract_id : ContractIds, version : Nat,
                  active : BOOLEAN]

Init ==
    /\ config = NoConfig
    /\ registry = [s \in Slugs |-> NoQueue]
    /\ slug_idx = <<>>
    /\ approved = [v \in Versions |-> NoHash]
    /\ approvals = FALSE
    /\ deployed = {}

-----------------------------------------------------------------------------
(* Helpers                                                                 *)

IsAdmin(caller) == config # NoConfig /\ config.admin = caller
Registered(s) == registry[s] # NoQueue
VersionInBounds(v) == config.min_version <= v /\ v <= config.max_version

\* validate_approved_hash, then require_approved_hash
HashApproved(v, h) ==
    /\ approved[v] \in {NoHash, h}
    /\ approvals => approved[v] = h

AppendSlug(s) == slug_idx' = Append(slug_idx, s)
RemoveSlugMutant(s) == slug_idx' = slug_idx
RemoveSlug(s) == slug_idx' = Kept(slug_idx, Slugs \ {s})

\* env.deployer().with_current_contract(salt).deploy(): the host traps when there is
\* a contract at the address made of this factory and the salt.
HostDeploy(h) == h \notin deployed /\ deployed' = deployed \cup {h}

-----------------------------------------------------------------------------
(* Entry points                                                            *)

Initialize(caller) ==
    /\ config = NoConfig
    /\ config' = [admin |-> caller, min_version |-> 1, max_version |-> 1]
    /\ slug_idx' = <<>>
    /\ UNCHANGED <<registry, approved, approvals, deployed>>

DeployQueue(deployer, s, v, h) ==
    /\ config # NoConfig
    /\ VersionInBounds(v)
    /\ HashApproved(v, h)
    /\ ~Registered(s)
    /\ HostDeploy(h)
    /\ registry' = [registry EXCEPT ![s] =
          [owner |-> deployer, contract_id |-> h, version |-> v, active |-> TRUE]]
    /\ AppendSlug(s)
    /\ UNCHANGED <<config, approved, approvals>>

\* The version of an imported queue is not compared with the bounds.
RegisterQueueMutant(caller, s, c, v) ==
    /\ IsAdmin(caller)
    /\ registry' = [registry EXCEPT ![s] =
          [owner |-> caller, contract_id |-> c, version |-> v, active |-> TRUE]]
    /\ slug_idx' = IF Registered(s) THEN slug_idx ELSE Append(slug_idx, s)
    /\ UNCHANGED <<config, approved, approvals, deployed>>
RegisterQueue(caller, s, c, v) ==
    /\ IsAdmin(caller)
    /\ ~Registered(s)
    /\ registry' = [registry EXCEPT ![s] =
          [owner |-> caller, contract_id |-> c, version |-> v, active |-> TRUE]]
    /\ AppendSlug(s)
    /\ UNCHANGED <<config, approved, approvals, deployed>>

RegisterApprovedHash(caller, v, h) ==
    /\ IsAdmin(caller)
    /\ approved' = [approved EXCEPT ![v] = h]
    /\ approvals' = TRUE
    /\ UNCHANGED <<config, registry, slug_idx, deployed>>

\* deactivate_queue and reactivate_queue
SetActive(caller, s, active) ==
    /\ IsAdmin(caller)
    /\ Registered(s)
    /\ registry' = [registry EXCEPT ![s].active = active]
    /\ UNCHANGED <<config, slug_idx, approved, approvals, deployed>>
DeactivateQueue(caller, s) == SetActive(caller, s, FALSE)
ReactivateQueue(caller, s) == SetActive(caller, s, TRUE)

\* The deployed contract lives on: only its entry goes.
DestroyQueue(caller, s) ==
    /\ IsAdmin(caller)
    /\ Registered(s)
    /\ registry' = [registry EXCEPT ![s] = NoQueue]
    /\ RemoveSlug(s)
    /\ UNCHANGED <<config, approved, approvals, deployed>>

SetConfig(caller, min, max) ==
    /\ IsAdmin(caller)
    /\ config' = [config EXCEPT !.min_version = min, !.max_version = max]
    /\ UNCHANGED <<registry, slug_idx, approved, approvals, deployed>>

\* The registry's version advances; the contract's code is not touched.
UpgradeQueue(caller, s, v, h) ==
    /\ IsAdmin(caller)
    /\ VersionInBounds(v)
    /\ Registered(s)
    /\ v > registry[s].version
    /\ HashApproved(v, h)
    /\ registry' = [registry EXCEPT ![s].version = v]
    /\ UNCHANGED <<config, slug_idx, approved, approvals, deployed>>

Next ==
    \/ \E a \in Addresses : Initialize(a)
    \/ \E a \in Addresses, s \in Slugs, v \in Versions, h \in Hashes : DeployQueue(a, s, v, h)
    \/ \E a \in Addresses, s \in Slugs, c \in ContractIds, v \in Versions :
           RegisterQueue(a, s, c, v)
    \/ \E a \in Addresses, v \in Versions, h \in Hashes : RegisterApprovedHash(a, v, h)
    \/ \E a \in Addresses, s \in Slugs : DeactivateQueue(a, s)
    \/ \E a \in Addresses, s \in Slugs : ReactivateQueue(a, s)
    \/ \E a \in Addresses, s \in Slugs : DestroyQueue(a, s)
    \/ \E a \in Addresses, min \in Versions, max \in Versions : SetConfig(a, min, max)
    \/ \E a \in Addresses, s \in Slugs, v \in Versions, h \in Hashes :
           UpgradeQueue(a, s, v, h)

Spec == Init /\ [][Next]_vars

-----------------------------------------------------------------------------
(* Properties                                                              *)

\* Every storage entry holds a value of its declared type, and no entry is written
\* for a queue that was never registered.
TypeOK ==
    /\ config \in FactoryConfig \cup {NoConfig}
    /\ registry \in [Slugs -> QueueMetadata \cup {NoQueue}]
    /\ slug_idx \in Seq(Slugs)
    /\ approved \in [Versions -> Hashes \cup {NoHash}]
    /\ approvals \in BOOLEAN
    /\ deployed \subseteq Hashes

\* list_queues() names every registered slug once and nothing else, through
\* deployments, imports, destructions and the reuse of a slug; so queue_count() is
\* the number of registered queues.
IndexExact ==
    /\ IsInjective(slug_idx)
    /\ \A s \in Slugs : Registered(s) <=> Contains(slug_idx, s)

\* A slug a participant has verified keeps naming the same contract of the same
\* owner, at a version that never falls, until it is destroyed.  And once one hash is
\* approved the registry of approvals is closed: a version that has no approved hash
\* can be neither deployed nor reached by an upgrade.
SlugStable ==
    [][/\ \A s \in Slugs :
             Registered(s) /\ Registered(s)' =>
                /\ registry'[s].contract_id = registry[s].contract_id
                /\ registry'[s].owner = registry[s].owner
                /\ registry'[s].version >= registry[s].version
       /\ (\E v \in Versions : approved[v] # NoHash) =>
             /\ \A h \in deployed' \ deployed : \E v \in Versions : approved[v] = h
             /\ \A s \in Slugs :
                   Registered(s) /\ Registered(s)' /\ registry'[s].version # registry[s].version
                       => approved[registry'[s].version] # NoHash]_vars

\* A free slug and an approved hash of a version in bounds are all deploy_queue needs.
FreshSlugDeployable ==
    \A a \in Addresses, s \in Slugs, v \in Versions, h \in Hashes :
        config # NoConfig /\ VersionInBounds(v) /\ approved[v] = h /\ ~Registered(s)
            => ENABLED DeployQueue(a, s, v, h)
=============================================================================
