-------------------------------- MODULE Queue --------------------------------
(***************************************************************************)
(* The lineproof-queue contract (contracts/lineproof-queue/src/lib.rs).     *)
(*                                                                         *)
(* One contract instance.  A Soroban transaction is atomic and a panic      *)
(* rolls it back, so each entry point is one action whose guard is the      *)
(* conjunction of the checks it passes.  `caller' is the address whose      *)
(* require_auth() succeeded.  Ledger timestamps, slugs and names, and the   *)
(* TTL extensions of the storage entries do not influence any branch and    *)
(* are left out.                                                            *)
(***************************************************************************)
EXTENDS Integers, FiniteSets

CONSTANTS
    Addresses,        \* accounts that may call the contract
    NoAddress,        \* no account
    U32Max,           \* largest u32; the release profile traps on overflow
    Capacities,       \* values of max_positions tried by initialize
    InitialStatuses,  \* values of config.status tried by initialize
    Rules,            \* values of config.advancement_rule tried by initialize
    Batches,          \* values of batch_size tried by advance
    MaxInits          \* bound on the calls of initialize

QueueStatuses ==
    {"Draft", "EnrollmentOpen", "EnrollmentClosed", "AdvancementActive", "Closed"}
AdvancementRules == {"Fifo", "PriorityTier", "VerifiableRandomness"}
PositionStatuses == {"Pending", "Advanced", "Expired", "Cancelled"}

ASSUME QueueAssumption ==
    /\ NoAddress \notin Addresses
    /\ U32Max \in Nat \ {0}
    /\ Capacities \subseteq 0..U32Max
    /\ InitialStatuses \subseteq QueueStatuses
    /\ Rules \subseteq AdvancementRules
    /\ Batches \subseteq 0..U32Max
    /\ MaxInits \in Nat

VARIABLES
    config,           \* the "config" entry, NoConfig when it is absent
    pending_admin,    \* the "pending_admin" entry, or NoAddress
    next_id,          \* the "next_id" entry (1 when absent)
    active_count,     \* the "active_count" entry (0 when absent)
    idx,              \* the "idx" entry (0 when absent): the advancement cursor
    pos,              \* the ("pos", id) entries; status "Absent" when not stored
    version,          \* the "version" entry (CURRENT_VERSION when absent)
    emitted,          \* the events the last transaction published
    inits             \* history: how many times initialize succeeded

vars == <<config, pending_admin, next_id, active_count, idx, pos, version, emitted, inits>>

Ids == 1..U32Max
NoConfig == [admin |-> NoAddress, max_positions |-> 0, status |-> "None", rule |-> "Fifo"]
Config == [admin : Addresses, max_positions : 0..U32Max,
           status : QueueStatuses, rule : AdvancementRules]
NoPosition == [identity |-> NoAddress, status |-> "Absent"]
Position == [identity : Addresses, status : PositionStatuses]

\* emit(): kind, position id and identity of one event.  A `Migrated' event
\* carries from_version in the place of the id, and to_version as `data'.
Event(kind, id, who, data) ==
    [kind |-> kind, position_id |-> id, identity |-> who, data |-> data]

Init ==
    /\ config = NoConfig
    /\ pending_admin = NoAddress
    /\ next_id = 1
    /\ active_count = 0
    /\ idx = 0
    /\ pos = [i \in Ids |-> NoPosition]
    /\ version = 1
    /\ emitted = {}
    /\ inits = 0

-----------------------------------------------------------------------------
(* Helpers                                                                 *)

\* get_config_internal() found the entry and require_admin() accepted the caller
IsAdmin(caller) == config # NoConfig /\ caller = config.admin
StatusOf(i) == pos[i].status
Exists(i) == pos[i] # NoPosition
Pending(i) == StatusOf(i) = "Pending"
\* next_id.saturating_sub(1)
TotalCreated == next_id - 1

\* Rewrites of the entries of the ids in S, in one transaction.
SetStatus(S, st) == [i \in Ids |-> IF i \in S THEN [pos[i] EXCEPT !.status = st] ELSE pos[i]]

\* active_count.saturating_sub(1)
FreeSlotMutant == active_count
FreeSlot == IF active_count > 0 THEN active_count - 1 ELSE 0

\* The capacity check of enroll_position
HasRoomMutant == active_count <= config.max_positions
HasRoom == active_count < config.max_positions

Expirable == config.status \in {"AdvancementActive", "Closed"}

Advanceable == config.status \in {"EnrollmentClosed", "AdvancementActive"}

\* The FIFO loop stops with the cursor at `last': it examined idx+1..last, all of
\* which are stored, and stopped because the batch was used up, because every
\* position was examined, or because the next one is not stored.
ScanEndsAtMutant(last, batch_size) ==
    /\ last \in idx..TotalCreated
    /\ last <= idx + batch_size
    /\ \A i \in (idx + 1)..last : Pending(i)
    /\ last < idx + batch_size /\ last < TotalCreated => ~Pending(last + 1)
ScanEndsAt(last, batch_size) ==
    /\ last \in idx..TotalCreated
    /\ last <= idx + batch_size
    /\ \A i \in (idx + 1)..last : Exists(i)
    /\ last < idx + batch_size /\ last < TotalCreated => ~Exists(last + 1)

-----------------------------------------------------------------------------
(* Entry points                                                            *)

\* No check that the contract is not initialised yet: a second call replaces the
\* configuration and resets the counters, and leaves the positions stored.
Initialize(caller, max_positions, status, rule) ==
    /\ inits < MaxInits
    /\ inits' = inits + 1
    /\ config' = [admin |-> caller, max_positions |-> max_positions,
                  status |-> status, rule |-> rule]
    /\ next_id' = 1
    /\ active_count' = 0
    /\ idx' = 0
    /\ version' = 1
    /\ emitted' = {Event("Initialized", 0, caller, 0)}
    /\ UNCHANGED <<pending_admin, pos>>

ProposeAdmin(caller, proposed) ==
    /\ IsAdmin(caller)
    /\ pending_admin' = proposed
    /\ emitted' = {}
    /\ UNCHANGED <<config, next_id, active_count, idx, pos, version, inits>>

AcceptAdmin(caller) ==
    /\ pending_admin = caller
    /\ config # NoConfig
    /\ config' = [config EXCEPT !.admin = caller]
    /\ pending_admin' = NoAddress
    /\ emitted' = {Event("OwnershipTransferred", 0, caller, 0)}
    /\ UNCHANGED <<next_id, active_count, idx, pos, version, inits>>


OpenEnrollment(caller) ==
    /\ IsAdmin(caller)
    /\ config.status = "Draft"
    /\ config' = [config EXCEPT !.status = "EnrollmentOpen"]
    /\ emitted' = {Event("EnrollmentOpened", 0, caller, 0)}
    /\ UNCHANGED <<pending_admin, next_id, active_count, idx, pos, version, inits>>

CloseEnrollment(caller) ==
    /\ IsAdmin(caller)
    /\ config.status = "EnrollmentOpen"
    /\ config' = [config EXCEPT !.status = "EnrollmentClosed"]
    /\ emitted' = {Event("EnrollmentClosed", 0, caller, 0)}
    /\ UNCHANGED <<pending_admin, next_id, active_count, idx, pos, version, inits>>

EnrollPositionMutant(caller) ==
    /\ config # NoConfig
    /\ config.status = "EnrollmentOpen"
    /\ HasRoom
    /\ pos' = [pos EXCEPT ![next_id] = [identity |-> caller, status |-> "Pending"]]
    /\ next_id' = (next_id + 1) % (U32Max + 1)
    /\ active_count' = active_count + 1
    /\ emitted' = {Event("Enrolled", next_id, caller, 0)}
    /\ UNCHANGED <<config, pending_admin, idx, version, inits>>
\* next_id + 1 traps when next_id is the largest u32
EnrollPosition(caller) ==
    /\ config # NoConfig
    /\ config.status = "EnrollmentOpen"
    /\ HasRoom
    /\ next_id < U32Max
    /\ pos' = [pos EXCEPT ![next_id] = [identity |-> caller, status |-> "Pending"]]
    /\ next_id' = next_id + 1
    /\ active_count' = active_count + 1
    /\ emitted' = {Event("Enrolled", next_id, caller, 0)}
    /\ UNCHANGED <<config, pending_admin, idx, version, inits>>

\* Allowed in every queue status, Closed included.
CancelPosition(caller, id) ==
    /\ Exists(id)
    /\ pos[id].identity = caller
    /\ Pending(id)
    /\ pos' = SetStatus({id}, "Cancelled")
    /\ active_count' = FreeSlot
    /\ emitted' = {Event("Cancelled", id, caller, 0)}
    /\ UNCHANGED <<config, pending_admin, next_id, idx, version, inits>>

\* Expired positions are passed over without an event.
AdvanceEventsMutant(caller, advanced, skipped) ==
    {Event("Advanced", i, caller, 0) : i \in advanced}
AdvanceEvents(caller, advanced, skipped) ==
    {Event("Skipped", i, caller, 0) : i \in skipped}
        \cup {Event("Advanced", i, caller, 0) : i \in advanced}

AdvanceOrderMutant(caller, batch_size) ==
    /\ batch_size # 0
    /\ IsAdmin(caller)
    /\ Advanceable
    /\ config.rule = "Fifo"
    /\ \E newest \in Ids :
          /\ Pending(newest)
          /\ \A i \in Ids : Pending(i) => i <= newest
          /\ pos' = SetStatus({newest}, "Advanced")
          /\ config' = [config EXCEPT !.status = "AdvancementActive"]
          /\ emitted' = AdvanceEvents(caller, {newest}, {})
    /\ UNCHANGED <<pending_admin, next_id, active_count, idx, version, inits>>
\* Only the FIFO rule is implemented: the other two panic.
Advance(caller, batch_size) ==
    /\ batch_size # 0
    /\ IsAdmin(caller)
    /\ Advanceable
    /\ config.rule = "Fifo"
    /\ \E last \in idx..TotalCreated :
          /\ ScanEndsAt(last, batch_size)
          /\ LET advanced == {i \in (idx + 1)..last : Pending(i)}
                 skipped  == {i \in (idx + 1)..last : StatusOf(i) = "Cancelled"}
             IN  /\ idx' = last
                 /\ pos' = SetStatus(advanced, "Advanced")
                 /\ config' = IF advanced # {}
                              THEN [config EXCEPT !.status = "AdvancementActive"]
                              ELSE config
                 /\ emitted' = AdvanceEvents(caller, advanced, skipped)
    /\ UNCHANGED <<pending_admin, next_id, active_count, version, inits>>


Close(caller) ==
    /\ IsAdmin(caller)
    /\ config.status # "Closed"
    /\ config' = [config EXCEPT !.status = "Closed"]
    /\ emitted' = {Event("QueueClosed", 0, caller, 0)}
    /\ UNCHANGED <<pending_admin, next_id, active_count, idx, pos, version, inits>>

\* Common to both expiry entry points.  A panic on one id rolls the whole batch
\* back, and a repeated id finds its own entry already Expired, so a batch that
\* succeeds is a set of pending ids.
ExpireAllMutant(caller, S) ==
    /\ IsAdmin(caller)
    /\ Expirable
    /\ \A id \in S : Exists(id) /\ StatusOf(id) # "Cancelled"
    /\ pos' = SetStatus(S, "Expired")
    /\ emitted' = {Event("Expired", id, caller, 0) : id \in S}
    /\ UNCHANGED <<config, pending_admin, next_id, active_count, idx, version, inits>>
ExpireAll(caller, S) ==
    /\ IsAdmin(caller)
    /\ Expirable
    /\ \A id \in S : Exists(id) /\ Pending(id)
    /\ pos' = SetStatus(S, "Expired")
    /\ emitted' = {Event("Expired", id, caller, 0) : id \in S}
    /\ UNCHANGED <<config, pending_admin, next_id, active_count, idx, version, inits>>

ExpirePosition(caller, id) == ExpireAll(caller, {id})
ExpirePositionsBatch(caller, S) == ExpireAll(caller, S)

\* An authorisation checkpoint and an event: no storage entry changes.
Upgrade(caller) ==
    /\ IsAdmin(caller)
    /\ emitted' = {Event("Upgraded", 0, caller, 0)}
    /\ UNCHANGED <<config, pending_admin, next_id, active_count, idx, pos, version, inits>>

Migrate(caller, from, to) ==
    /\ IsAdmin(caller)
    /\ version = from
    /\ to > from
    /\ version' = to
    /\ emitted' = {Event("Migrated", from, caller, to)}
    /\ UNCHANGED <<config, pending_admin, next_id, active_count, idx, pos, inits>>

AdvanceSome == \E a \in Addresses, b \in Batches : Advance(a, b)

Next ==
    \/ \E a \in Addresses, m \in Capacities, s \in InitialStatuses, r \in Rules :
           Initialize(a, m, s, r)
    \/ \E a \in Addresses, b \in Addresses : ProposeAdmin(a, b)
    \/ \E a \in Addresses : AcceptAdmin(a)
    \/ \E a \in Addresses : OpenEnrollment(a)
    \/ \E a \in Addresses : CloseEnrollment(a)
    \/ \E a \in Addresses : EnrollPosition(a)
    \/ \E a \in Addresses, i \in Ids : CancelPosition(a, i)
    \/ AdvanceSome
    \/ \E a \in Addresses : Close(a)
    \/ \E a \in Addresses, i \in Ids : ExpirePosition(a, i)
    \/ \E a \in Addresses, S \in SUBSET Ids : ExpirePositionsBatch(a, S)
    \/ \E a \in Addresses : Upgrade(a)
    \/ \E a \in Addresses, f \in Ids, t \in Ids : Migrate(a, f, t)

Spec == Init /\ [][Next]_vars

\* An operator who keeps calling advance; participants owe nothing.
FairSpec == Spec /\ WF_vars(AdvanceSome)

-----------------------------------------------------------------------------
(* Properties                                                              *)

\* Every storage entry holds a value of its declared type.
TypeOK ==
    /\ config \in Config \cup {NoConfig}
    /\ pending_admin \in Addresses \cup {NoAddress}
    /\ next_id \in Ids
    /\ active_count \in 0..U32Max
    /\ idx \in 0..U32Max
    /\ pos \in [Ids -> Position \cup {NoPosition}]
    /\ version \in Ids
    /\ inits \in Nat

\* The positions that occupy a capacity slot: all but the cancelled ones.
WithStatus(st) == {i \in Ids : StatusOf(i) = st}
Occupied == WithStatus("Pending") \cup WithStatus("Advanced") \cup WithStatus("Expired")

(***************************************************************************)
(* The guarantees below are those of a contract initialised once: a second  *)
(* initialize() resets the counters over positions that are still stored.   *)
(***************************************************************************)
InitialisedOnce == inits <= 1

\* active_enrolled() is exactly the number of stored positions that are not
\* cancelled, through every enrolment, cancellation, advancement and expiry, and
\* never exceeds max_positions, although ids grow beyond it.
SlotAccounting ==
    InitialisedOnce =>
        /\ active_count = Cardinality(Occupied)
        /\ active_count <= config.max_positions

\* First in, first out: when a position has been advanced, no position with a
\* smaller id is still pending, whatever was cancelled or expired in between.
FifoOrder ==
    InitialisedOnce =>
        \A i \in Ids, j \in Ids :
            i < j /\ StatusOf(j) = "Advanced" => ~Pending(i)

\* The cursor separates the two: every id up to idx is settled and every id above
\* it was not advanced, and the ids stored are exactly 1..total_enrolled(), so the
\* scan of advance() never stops at a missing position.
CursorSeparates ==
    InitialisedOnce =>
        /\ idx <= TotalCreated
        /\ \A i \in Ids : Exists(i) <=> i <= TotalCreated
        /\ \A i \in Ids : Pending(i) => i > idx
        /\ \A i \in Ids : StatusOf(i) = "Advanced" => i <= idx

\* A position that was advanced, expired or cancelled never changes again: it is
\* not advanced twice, not served after expiry, not reassigned to a new enrolment.
SettledForever ==
    [][InitialisedOnce' =>
         \A i \in Ids : StatusOf(i) \in {"Advanced", "Expired", "Cancelled"}
                            => pos'[i] = pos[i]]_vars

\* The participant set is locked once the scan has begun or a position has
\* lapsed: no call sequence gets a new position into a queue being served.
NoLateEnrollment ==
    [][InitialisedOnce' /\ (idx > 0 \/ WithStatus("Expired") # {})
         => next_id' = next_id]_vars

\* Closed is terminal.
ClosedIsTerminal ==
    [][config.status = "Closed" => config'.status = "Closed"]_vars

\* Each identity can hold at most one active position per queue.
OneActivePositionPerIdentity ==
    \A i \in Ids, j \in Ids :
        Pending(i) /\ Pending(j) /\ pos[i].identity = pos[j].identity => i = j

\* As long as the operator keeps calling advance, a pending position of a FIFO
\* queue whose enrolment is over is eventually advanced, expired or cancelled,
\* unless the queue is closed: cancelled and expired positions in front of it do
\* not hold the cursor up.
EventuallySettled ==
    \A i \in Ids :
        (Pending(i) /\ Advanceable /\ config.rule = "Fifo")
            ~> (~Pending(i) \/ config.status = "Closed")

\* The contract as the waiting line it stands for.
LinePhase ==
    CASE config.status \in {"None", "Draft"} -> "setup"
      [] config.status = "EnrollmentOpen" -> "joining"
      [] config.status \in {"EnrollmentClosed", "AdvancementActive"} -> "serving"
      [] config.status = "Closed" -> "over"
Line == INSTANCE WaitingLine WITH
            phase    <- LinePhase,
            capacity <- config.max_positions,
            issued   <- TotalCreated,
            waiting  <- WithStatus("Pending"),
            served   <- WithStatus("Advanced"),
            lapsed   <- WithStatus("Expired")

\* Every behaviour of the contract is a behaviour of WaitingLine, where serving is
\* in ticket order and the room is counted on the tickets themselves.
ImplementsLine == Line!LineSpec
=============================================================================
