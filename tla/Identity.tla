------------------------------ MODULE Identity ------------------------------
(***************************************************************************)
(* The lineproof-identity contract (contracts/lineproof-identity/src/       *)
(* lib.rs): which queues an identity is bound to, whether it was revoked,   *)
(* and whether positions may be transferred.                                *)
(***************************************************************************)
EXTENDS Integers, Sequences, SequencesExt, Vec

CONSTANTS
    Members, NoAdmin,
    BindQueues,
    MaxQueues,        \* MAX_QUEUES_PER_IDENTITY
    Attempts,         \* the triples <<from, to, queue>> tried by record_transfer_attempt
    LastTime          \* last tick of the model's clock

ASSUME IdentityAssumption ==
    /\ NoAdmin \notin Members
    /\ MaxQueues \in Nat
    /\ Attempts \subseteq Members \X Members \X BindQueues
    /\ LastTime \in Nat

VARIABLES
    admin,           \* "admin", NoAdmin before initialize
    record,          \* ("identity", address); the default record when absent
    transfer_allow,  \* "transfer_allow" (false when absent)
    attempted,       \* the ("attempt", from, to, queue) entries: time of the last, or None
    now              \* ledger timestamp

idvars == <<admin, record, transfer_allow, attempted, now>>

None == -1
Statuses == {"Unbound", "Bound", "Revoked"}
IdentityRecord == [bound_at : 0..LastTime, queues : Seq(BindQueues), status : Statuses]

IdentityInit ==
    /\ admin = NoAdmin
    /\ record = [i \in Members |-> [bound_at |-> 0, queues |-> <<>>, status |-> "Unbound"]]
    /\ transfer_allow = FALSE
    /\ attempted = [a \in Attempts |-> None]
    /\ now = 0

IsBound(i, q) == Contains(record[i].queues, q)

CanTransfer(from, to, q) ==
    \/ from = to
    \/ record[from].status # "Revoked" /\ IsBound(from, q) /\ transfer_allow

IdentityTick ==
    /\ now < LastTime
    /\ now' = now + 1
    /\ UNCHANGED <<admin, record, transfer_allow, attempted>>

InitializeIdentity(caller) ==
    /\ admin = NoAdmin
    /\ admin' = caller
    /\ UNCHANGED <<record, transfer_allow, attempted, now>>

\* bound_at is stamped while it is still 0.
Bind(i, q) ==
    /\ record[i].status # "Revoked"
    /\ ~IsBound(i, q)
    /\ Len(record[i].queues) < MaxQueues
    /\ record' = [record EXCEPT ![i] =
          [bound_at |-> IF @.bound_at = 0 THEN now ELSE @.bound_at,
           queues   |-> Append(@.queues, q),
           status   |-> "Bound"]]
    /\ UNCHANGED <<admin, transfer_allow, attempted, now>>

\* A queue the identity is not bound to is ignored.  The status stays what it was,
\* also when the last queue goes.
UnbindMutant(i, q) ==
    /\ IsBound(i, q)
    /\ LET left == Kept(record[i].queues, BindQueues \ {q})
       IN  record' = [record EXCEPT ![i].queues = left,
                                    ![i].status = IF left = <<>> THEN "Unbound" ELSE @]
    /\ UNCHANGED <<admin, transfer_allow, attempted, now>>
Unbind(i, q) ==
    /\ IsBound(i, q)
    /\ record' = [record EXCEPT ![i].queues = Kept(@, BindQueues \ {q})]
    /\ UNCHANGED <<admin, transfer_allow, attempted, now>>

\* The queues stay in the record.
Revoke(caller, i) ==
    /\ admin = caller
    /\ record' = [record EXCEPT ![i].status = "Revoked"]
    /\ UNCHANGED <<admin, transfer_allow, attempted, now>>

SetTransferAllowed(caller, allowed) ==
    /\ admin = caller
    /\ transfer_allow' = allowed
    /\ UNCHANGED <<admin, record, attempted, now>>

\* Anybody may report an attempt, also one that can_transfer would have allowed.
RecordTransferAttempt(a) ==
    /\ attempted' = [attempted EXCEPT ![a] = now]
    /\ UNCHANGED <<admin, record, transfer_allow, now>>

IdentityNext ==
    \/ IdentityTick
    \/ \E a \in Members : InitializeIdentity(a)
    \/ \E i \in Members, q \in BindQueues : Bind(i, q)
    \/ \E i \in Members, q \in BindQueues : Unbind(i, q)
    \/ \E a \in Members, i \in Members : Revoke(a, i)
    \/ \E a \in Members, allowed \in BOOLEAN : SetTransferAllowed(a, allowed)
    \/ \E a \in Attempts : RecordTransferAttempt(a)

IdentitySpec == IdentityInit /\ [][IdentityNext]_idvars

-----------------------------------------------------------------------------
(* Properties                                                              *)

\* Every storage entry holds a value of its declared type; the list of queues holds
\* no queue twice and never grows beyond MAX_QUEUES_PER_IDENTITY.
IdentityTypeOK ==
    /\ admin \in Members \cup {NoAdmin}
    /\ record \in [Members -> IdentityRecord]
    /\ \A i \in Members : /\ IsInjective(record[i].queues)
                          /\ Len(record[i].queues) <= MaxQueues
    /\ transfer_allow \in BOOLEAN
    /\ attempted \in [Attempts -> 0..LastTime \cup {None}]
    /\ now \in 0..LastTime

\* Revocation is final although the record keeps its queues and is_bound() goes on
\* saying yes: whatever is called afterwards, the identity stays revoked, never gets
\* into a queue it was not in, and can_transfer() to anybody else says no, whoever
\* allowed transfers before or since.
RevokedForever ==
    [][\A i \in Members :
         record[i].status = "Revoked" =>
            /\ record'[i].status = "Revoked"
            /\ \A q \in BindQueues :
                  /\ IsBound(i, q)' => IsBound(i, q)
                  /\ \A t \in Members \ {i} : ~CanTransfer(i, t, q)']_idvars
=============================================================================
