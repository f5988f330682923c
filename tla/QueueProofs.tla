----------------------------- MODULE QueueProofs -----------------------------
(***************************************************************************)
(* Proofs about the queue contract, for every set of addresses, every       *)
(* width of the integers, every capacity, batch size and initial status.    *)
(***************************************************************************)
EXTENDS QueueAudit, DataLemmas

-----------------------------------------------------------------------------
(* Rewriting the entries of a set of positions                             *)

\* The positions of S get the new status and keep their owner; the others stay.
LEMMA SetStatusEffect ==
    ASSUME TypeOK, NEW S \in SUBSET Ids, NEW st \in PositionStatuses,
           \A i \in S : Exists(i)
    PROVE  /\ SetStatus(S, st) \in [Ids -> Position \cup {NoPosition}]
           /\ \A i \in S : /\ SetStatus(S, st)[i].status = st
                           /\ SetStatus(S, st)[i].identity = pos[i].identity
                           /\ SetStatus(S, st)[i] # NoPosition
           /\ \A i \in Ids \ S : SetStatus(S, st)[i] = pos[i]
<1>1. \A i \in S : pos[i] \in Position
  BY DEF TypeOK, Exists
<1>2. \A i \in S : [pos[i] EXCEPT !.status = st] \in Position
  BY <1>1 DEF Position
<1>3. \A p \in Position : p # NoPosition
  BY DEF Position, NoPosition, PositionStatuses
<1>. QED
  BY <1>1, <1>2, <1>3 DEF SetStatus, Position, TypeOK

-----------------------------------------------------------------------------
(* Type correctness                                                        *)

\* A contract that was never initialised is well typed.
LEMMA InitTypeOK == Init => TypeOK
BY QueueAssumption DEF Init, TypeOK, Ids

\* Every entry point keeps the types: the traps on overflow keep the counters in range.
LEMMA NextTypeOK == TypeOK /\ [Next]_vars => TypeOK'
<1> SUFFICES ASSUME TypeOK, [Next]_vars PROVE TypeOK'
  OBVIOUS
<1> USE QueueAssumption DEF Ids
<1>1. ASSUME NEW a \in Addresses, NEW m \in Capacities, NEW s \in InitialStatuses,
             NEW r \in Rules, Initialize(a, m, s, r)
      PROVE  TypeOK'
  BY <1>1 DEF Initialize, TypeOK, Config
<1>2. ASSUME NEW a \in Addresses, NEW b \in Addresses, ProposeAdmin(a, b)
      PROVE  TypeOK'
  BY <1>2 DEF ProposeAdmin, TypeOK
<1>3. ASSUME NEW a \in Addresses, AcceptAdmin(a)
      PROVE  TypeOK'
  BY <1>3 DEF AcceptAdmin, TypeOK, Config
<1>4. ASSUME NEW a \in Addresses, OpenEnrollment(a)
      PROVE  TypeOK'
  BY <1>4 DEF OpenEnrollment, IsAdmin, TypeOK, Config, QueueStatuses
<1>5. ASSUME NEW a \in Addresses, CloseEnrollment(a)
      PROVE  TypeOK'
  BY <1>5 DEF CloseEnrollment, IsAdmin, TypeOK, Config, QueueStatuses
<1>6. ASSUME NEW a \in Addresses, EnrollPosition(a)
      PROVE  TypeOK'
  <2>1. config.max_positions \in 0..U32Max
    BY <1>6 DEF TypeOK, Config, NoConfig
  <2>. QED
    BY <1>6, <2>1 DEF EnrollPosition, HasRoom, TypeOK, Position, PositionStatuses
<1>7. ASSUME NEW a \in Addresses, NEW i \in Ids, CancelPosition(a, i)
      PROVE  TypeOK'
  <2>1. SetStatus({i}, "Cancelled") \in [Ids -> Position \cup {NoPosition}]
    BY <1>7, SetStatusEffect DEF CancelPosition, PositionStatuses
  <2>2. FreeSlot \in 0..U32Max
    BY DEF FreeSlot, TypeOK
  <2>. QED
    BY <1>7, <2>1, <2>2 DEF CancelPosition, TypeOK
<1>8. ASSUME NEW a \in Addresses, NEW b \in Batches, Advance(a, b)
      PROVE  TypeOK'
  <2>1. PICK last \in idx..TotalCreated :
            /\ ScanEndsAt(last, b)
            /\ idx' = last
            /\ pos' = SetStatus({i \in (idx + 1)..last : Pending(i)}, "Advanced")
            /\ config' \in {config, [config EXCEPT !.status = "AdvancementActive"]}
    BY <1>8 DEF Advance
  <2>2. last \in 0..U32Max /\ (idx + 1)..last \subseteq Ids
    BY <2>1 DEF TypeOK, TotalCreated
  <2>3. pos' \in [Ids -> Position \cup {NoPosition}]
    BY <2>1, <2>2, SetStatusEffect DEF ScanEndsAt, PositionStatuses
  <2>4. config' \in Config
    BY <1>8, <2>1 DEF Advance, IsAdmin, TypeOK, Config, QueueStatuses
  <2>. QED
    BY <1>8, <2>1, <2>2, <2>3, <2>4 DEF Advance, TypeOK
<1>9. ASSUME NEW a \in Addresses, Close(a)
      PROVE  TypeOK'
  BY <1>9 DEF Close, IsAdmin, TypeOK, Config, QueueStatuses
<1>10. ASSUME NEW a \in Addresses, NEW S \in SUBSET Ids, ExpireAll(a, S)
      PROVE  TypeOK'
  <2>1. SetStatus(S, "Expired") \in [Ids -> Position \cup {NoPosition}]
    BY <1>10, SetStatusEffect DEF ExpireAll, PositionStatuses
  <2>. QED
    BY <1>10, <2>1 DEF ExpireAll, TypeOK
<1>11. ASSUME NEW a \in Addresses, Upgrade(a)
      PROVE  TypeOK'
  BY <1>11 DEF Upgrade, TypeOK
<1>12. ASSUME NEW a \in Addresses, NEW f \in Ids, NEW t \in Ids, Migrate(a, f, t)
      PROVE  TypeOK'
  BY <1>12 DEF Migrate, TypeOK
<1>13. CASE UNCHANGED vars
  BY <1>13 DEF vars, TypeOK
<1>14. \A i \in Ids : {i} \in SUBSET Ids
  OBVIOUS
<1>. QED
  BY <1>1, <1>2, <1>3, <1>4, <1>5, <1>6, <1>7, <1>8, <1>9, <1>10, <1>11, <1>12, <1>13,
     <1>14 DEF Next, AdvanceSome, ExpirePosition, ExpirePositionsBatch

\* The storage entries keep their types for every instance of the contract.
THEOREM TypeCorrect == Spec => []TypeOK
<1>. QED BY InitTypeOK, NextTypeOK, PTL DEF Spec

-----------------------------------------------------------------------------
(* The inductive invariant                                                 *)

\* Before the first initialize() nothing is stored.
NothingStored ==
    /\ config = NoConfig <=> inits = 0
    /\ inits = 0 => /\ next_id = 1
                    /\ active_count = 0
                    /\ idx = 0
                    /\ \A i \in Ids : ~Exists(i)

\* The scan and the expiries only begin when enrolment is over.
EnrollmentOver == config.status \in {"EnrollmentClosed", "AdvancementActive", "Closed"}
ScanAfterEnrollment ==
    InitialisedOnce =>
        ((idx > 0 \/ (\E i \in Ids : StatusOf(i) = "Expired")) => EnrollmentOver)

IInv ==
    /\ TypeOK
    /\ NothingStored
    /\ ScanAfterEnrollment
    /\ CursorSeparates
    /\ SlotAccounting

\* What an entry of the position table may be.
LEMMA PositionFacts ==
    ASSUME TypeOK
    PROVE  /\ \A i \in Ids : Exists(i) <=> StatusOf(i) \in PositionStatuses
           /\ \A i \in Ids : ~Exists(i) <=> StatusOf(i) = "Absent"
           /\ Occupied = {i \in Ids : StatusOf(i) \in {"Pending", "Advanced", "Expired"}}
BY DEF TypeOK, Exists, StatusOf, Position, NoPosition, PositionStatuses, Occupied, WithStatus

\* The occupied slots are finitely many.
LEMMA OccupiedFinite == IsFiniteSet(Occupied) /\ Cardinality(Occupied) \in Nat
<1>1. IsFiniteSet(Ids)
  BY FS_Interval, QueueAssumption DEF Ids
<1>2. Occupied \subseteq Ids
  BY DEF Occupied, WithStatus
<1>. QED
  BY <1>1, <1>2, FS_Subset, FS_CardinalityType

\* The invariant holds before the first initialize.
LEMMA InitIInv == Init => IInv
<1> SUFFICES ASSUME Init PROVE IInv
  OBVIOUS
<1>1. TypeOK
  BY InitTypeOK
<1>2. \A i \in Ids : ~Exists(i) /\ StatusOf(i) = "Absent"
  BY DEF Init, Exists, StatusOf, NoPosition
<1>3. Occupied = {}
  BY <1>1, <1>2, PositionFacts
<1>4. Cardinality(Occupied) = 0
  BY <1>3, FS_EmptySet
<1>5. SlotAccounting
  BY <1>4 DEF Init, NoConfig, SlotAccounting
<1>. QED
  BY <1>1, <1>2, <1>5 DEF Init, IInv, NothingStored, ScanAfterEnrollment, CursorSeparates,
     TotalCreated, Pending, Ids

\* Steps that touch neither the positions nor the counters, and move the status
\* only forward, keep the invariant.
LEMMA FrameIInv ==
    ASSUME IInv, TypeOK',
           pos' = pos, next_id' = next_id, active_count' = active_count, idx' = idx,
           inits' = inits,
           config' = NoConfig <=> config = NoConfig,
           config'.max_positions = config.max_positions,
           EnrollmentOver => EnrollmentOver'
    PROVE  IInv'
<1>1. Occupied' = Occupied
  BY DEF Occupied, WithStatus, StatusOf
<1>. QED
  BY <1>1 DEF IInv, NothingStored, ScanAfterEnrollment, CursorSeparates, SlotAccounting,
     InitialisedOnce, TotalCreated, Exists, Pending, StatusOf

\* The first initialize starts from an empty table; after a second one the
\* guarantees are void.
LEMMA InitializeIInv ==
    ASSUME IInv, TypeOK', NEW a \in Addresses, NEW m \in Capacities,
           NEW s \in InitialStatuses, NEW r \in Rules, Initialize(a, m, s, r)
    PROVE  IInv'
<1>1. inits \in Nat /\ inits' = inits + 1 /\ config' # NoConfig /\ pos' = pos
  BY QueueAssumption DEF Initialize, IInv, TypeOK, NoConfig
<1>2. NothingStored'
  BY <1>1 DEF NothingStored
<1>3. CASE inits = 0
  <2>1. \A i \in Ids : ~Exists(i)' /\ StatusOf(i)' = "Absent"
    BY <1>1, <1>3, PositionFacts DEF IInv, NothingStored, Exists, StatusOf
  <2>2. Occupied' = {}
    BY <2>1 DEF Occupied, WithStatus
  <2>3. SlotAccounting'
    BY <2>2, FS_EmptySet, QueueAssumption DEF SlotAccounting, Initialize
  <2>. QED
    BY <1>2, <2>1, <2>3 DEF Initialize, IInv, ScanAfterEnrollment, CursorSeparates,
       TotalCreated, Pending, Ids
<1>4. CASE inits # 0
  BY <1>1, <1>2, <1>4 DEF IInv, ScanAfterEnrollment, CursorSeparates, SlotAccounting,
     InitialisedOnce
<1>. QED
  BY <1>3, <1>4

\* A new position takes the next id, which is free, and one slot.
LEMMA EnrollPositionIInv ==
    ASSUME IInv, TypeOK', NEW a \in Addresses, EnrollPosition(a)
    PROVE  IInv'
<1> DEFINE p == [identity |-> a, status |-> "Pending"]
<1>1. PICK n \in Ids : n = next_id /\ pos' = [pos EXCEPT ![n] = p] /\ next_id' = n + 1
  BY DEF IInv, TypeOK, EnrollPosition
<1>2. /\ pos'[n] = p
      /\ \A i \in Ids \ {n} : pos'[i] = pos[i]
  BY <1>1 DEF IInv, TypeOK
<1>3. /\ StatusOf(n)' = "Pending" /\ Exists(n)'
      /\ \A i \in Ids \ {n} : StatusOf(i)' = StatusOf(i) /\ (Exists(i)' <=> Exists(i))
  BY <1>1, <1>2, QueueAssumption DEF StatusOf, Exists, NoPosition
<1>4. NothingStored'
  BY DEF IInv, NothingStored, EnrollPosition
<1>5. SUFFICES ASSUME InitialisedOnce
               PROVE  IInv'
  BY <1>4 DEF IInv, ScanAfterEnrollment, CursorSeparates, SlotAccounting, InitialisedOnce,
     EnrollPosition
<1>6. ~Exists(n) /\ idx = 0 /\ \A i \in Ids : StatusOf(i) # "Expired"
  BY <1>1, <1>5 DEF IInv, TypeOK, Ids, CursorSeparates, TotalCreated, ScanAfterEnrollment,
     EnrollmentOver, EnrollPosition
<1>7. ScanAfterEnrollment'
  BY <1>3, <1>6, QueueAssumption DEF ScanAfterEnrollment, EnrollPosition
<1>8. CursorSeparates'
  BY <1>1, <1>3, <1>5, <1>6 DEF IInv, TypeOK, Ids, CursorSeparates, TotalCreated, Pending,
     EnrollPosition
<1>9. SlotAccounting'
  <2>1. n \notin Occupied /\ Occupied' = Occupied \cup {n}
    BY <1>1, <1>3, <1>6, PositionFacts, TypeOK' DEF IInv, Occupied, WithStatus, PositionStatuses
  <2>2. Cardinality(Occupied') = Cardinality(Occupied) + 1
    BY <2>1, OccupiedFinite, FS_AddElement
  <2>3. config.max_positions \in Nat
    BY DEF IInv, TypeOK, Config, NoConfig
  <2>. QED
    BY <1>5, <2>2, <2>3 DEF IInv, TypeOK, SlotAccounting, EnrollPosition, HasRoom
<1>. QED
  BY <1>4, <1>7, <1>8, <1>9 DEF IInv

\* A cancellation frees exactly one slot: the saturating subtraction never saturates.
LEMMA CancelPositionIInv ==
    ASSUME IInv, TypeOK', NEW a \in Addresses, NEW i \in Ids, CancelPosition(a, i)
    PROVE  IInv'
<1>1. /\ pos'[i].status = "Cancelled" /\ pos'[i] # NoPosition
      /\ \A j \in Ids \ {i} : pos'[j] = pos[j]
  BY SetStatusEffect DEF IInv, CancelPosition, PositionStatuses
<1>2. /\ StatusOf(i)' = "Cancelled"
      /\ \A j \in Ids : Exists(j)' <=> Exists(j)
      /\ \A j \in Ids \ {i} : StatusOf(j)' = StatusOf(j)
  BY <1>1 DEF StatusOf, Exists, CancelPosition
<1>3. NothingStored'
  BY DEF IInv, NothingStored, CancelPosition
<1>4. ScanAfterEnrollment' /\ CursorSeparates'
  BY <1>2 DEF IInv, ScanAfterEnrollment, CursorSeparates, EnrollmentOver, InitialisedOnce,
     TotalCreated, Pending, CancelPosition
<1>5. SlotAccounting'
  <2>1. i \in Occupied /\ Occupied' = Occupied \ {i}
    BY <1>2, PositionFacts, TypeOK' DEF IInv, CancelPosition, Pending, Occupied, WithStatus
  <2>2. Cardinality(Occupied') = Cardinality(Occupied) - 1 /\ Cardinality(Occupied) \in Nat
    BY <2>1, OccupiedFinite, FS_RemoveElement
  <2>3. config.max_positions \in Nat
    BY QueueAssumption DEF IInv, TypeOK, Config, NoConfig
  <2>4. Cardinality(Occupied) # 0
    BY <2>1, OccupiedFinite, FS_EmptySet
  <2>. QED
    BY <2>2, <2>3, <2>4 DEF IInv, TypeOK, SlotAccounting, InitialisedOnce, CancelPosition, FreeSlot
<1>. QED
  BY <1>3, <1>4, <1>5 DEF IInv

\* What one call of advance does to the table: the pending ids up to the new cursor
\* become Advanced and nothing else changes.
LEMMA AdvanceEffect ==
    ASSUME IInv, NEW a \in Addresses, NEW b \in Batches, Advance(a, b)
    PROVE  \E last \in idx..TotalCreated, S \in SUBSET Ids :
              /\ ScanEndsAt(last, b)
              /\ S = {i \in Ids : idx < i /\ i <= last /\ Pending(i)}
              /\ idx' = last
              /\ \A i \in S : StatusOf(i)' = "Advanced"
              /\ \A i \in Ids \ S : pos'[i] = pos[i]
              /\ \A i \in Ids : Exists(i)' <=> Exists(i)
              /\ config' = IF S # {} THEN [config EXCEPT !.status = "AdvancementActive"]
                           ELSE config
<1>1. PICK last \in idx..TotalCreated :
          /\ ScanEndsAt(last, b)
          /\ idx' = last
          /\ pos' = SetStatus({i \in (idx + 1)..last : Pending(i)}, "Advanced")
          /\ config' = IF {i \in (idx + 1)..last : Pending(i)} # {}
                       THEN [config EXCEPT !.status = "AdvancementActive"]
                       ELSE config
  BY DEF Advance
<1> DEFINE S == {i \in (idx + 1)..last : Pending(i)}
<1>2. S \subseteq Ids /\ S = {i \in Ids : idx < i /\ i <= last /\ Pending(i)}
  BY <1>1, QueueAssumption DEF IInv, TypeOK, Ids, TotalCreated
<1>3. \A i \in S : Exists(i)
  BY <1>1 DEF ScanEndsAt
<1>4. /\ \A i \in S : pos'[i].status = "Advanced" /\ pos'[i] # NoPosition
      /\ \A i \in Ids \ S : pos'[i] = pos[i]
  BY <1>1, <1>2, <1>3, SetStatusEffect DEF IInv, PositionStatuses
<1>. QED
  BY <1>1, <1>2, <1>3, <1>4 DEF StatusOf, Exists

\* Advancement moves positions from Pending to Advanced below the new cursor.
LEMMA AdvanceIInv ==
    ASSUME IInv, TypeOK', NEW a \in Addresses, NEW b \in Batches, Advance(a, b)
    PROVE  IInv'
<1>1. PICK last \in idx..TotalCreated, S \in SUBSET Ids :
              /\ S = {i \in Ids : idx < i /\ i <= last /\ Pending(i)}
              /\ idx' = last
              /\ \A i \in S : StatusOf(i)' = "Advanced"
              /\ \A i \in Ids \ S : pos'[i] = pos[i]
              /\ \A i \in Ids : Exists(i)' <=> Exists(i)
              /\ config' = IF S # {} THEN [config EXCEPT !.status = "AdvancementActive"]
                           ELSE config
  BY AdvanceEffect
<1>2. \A i \in Ids \ S : StatusOf(i)' = StatusOf(i)
  BY <1>1 DEF StatusOf
<1>3. /\ next_id' = next_id /\ active_count' = active_count /\ inits' = inits
      /\ config \in Config /\ config' \in Config
      /\ config'.max_positions = config.max_positions
  BY <1>1 DEF Advance, IsAdmin, IInv, TypeOK, Config, QueueStatuses
<1>4. EnrollmentOver'
  BY <1>1, <1>3 DEF EnrollmentOver, Advance, Advanceable, Config
<1>5. NothingStored'
  <2>1. config # NoConfig /\ config' # NoConfig
    BY <1>3, QueueAssumption DEF Config, NoConfig
  <2>. QED
    BY <1>3, <2>1 DEF IInv, NothingStored
<1>6. CursorSeparates'
  BY <1>1, <1>2, <1>3 DEF IInv, TypeOK, Ids, CursorSeparates, TotalCreated, Pending,
     InitialisedOnce
<1>7. SlotAccounting'
  <2>1. Occupied' = Occupied
    BY <1>1, <1>2 DEF Occupied, WithStatus, Pending
  <2>. QED
    BY <1>3, <2>1 DEF IInv, SlotAccounting, InitialisedOnce
<1>. QED
  BY <1>4, <1>5, <1>6, <1>7 DEF IInv, ScanAfterEnrollment

\* The same for the expiries.
LEMMA ExpireEffect ==
    ASSUME IInv, NEW a \in Addresses, NEW S \in SUBSET Ids, ExpireAll(a, S)
    PROVE  /\ \A i \in S : Pending(i) /\ StatusOf(i)' = "Expired"
           /\ \A i \in Ids \ S : pos'[i] = pos[i] /\ StatusOf(i)' = StatusOf(i)
           /\ \A i \in Ids : Exists(i)' <=> Exists(i)
<1>1. /\ \A i \in S : pos'[i].status = "Expired" /\ pos'[i] # NoPosition
      /\ \A i \in Ids \ S : pos'[i] = pos[i]
  BY SetStatusEffect DEF ExpireAll, IInv, PositionStatuses
<1>. QED
  BY <1>1 DEF ExpireAll, StatusOf, Exists

\* An expiry keeps the slot of the position and never touches one that was advanced.
LEMMA ExpireIInv ==
    ASSUME IInv, TypeOK', NEW a \in Addresses, NEW S \in SUBSET Ids, ExpireAll(a, S)
    PROVE  IInv'
<1>1. /\ \A i \in S : Pending(i) /\ StatusOf(i)' = "Expired"
      /\ \A i \in Ids \ S : StatusOf(i)' = StatusOf(i)
      /\ \A i \in Ids : Exists(i)' <=> Exists(i)
  BY ExpireEffect
<1>2. NothingStored'
  BY DEF IInv, NothingStored, ExpireAll, IsAdmin
<1>3. ScanAfterEnrollment'
  BY DEF ScanAfterEnrollment, EnrollmentOver, ExpireAll, Expirable
<1>4. CursorSeparates'
  BY <1>1 DEF IInv, CursorSeparates, TotalCreated, Pending, InitialisedOnce, ExpireAll
<1>5. SlotAccounting'
  <2>1. Occupied' = Occupied
    BY <1>1 DEF Occupied, WithStatus, Pending
  <2>. QED
    BY <2>1 DEF IInv, SlotAccounting, InitialisedOnce, ExpireAll
<1>. QED
  BY <1>2, <1>3, <1>4, <1>5 DEF IInv

\* The invariant is inductive.
LEMMA NextIInv == IInv /\ [Next]_vars => IInv'
<1> SUFFICES ASSUME IInv, [Next]_vars PROVE IInv'
  OBVIOUS
<1>0. TypeOK'
  BY NextTypeOK DEF IInv
<1> USE <1>0
<1>1. ASSUME NEW a \in Addresses, NEW b \in Addresses, ProposeAdmin(a, b)
      PROVE  IInv'
  BY <1>1, FrameIInv DEF ProposeAdmin, EnrollmentOver
<1>2. ASSUME NEW a \in Addresses, AcceptAdmin(a)
      PROVE  IInv'
  <2>1. /\ config \in Config /\ config' # NoConfig
        /\ config'.max_positions = config.max_positions /\ config'.status = config.status
    BY <1>2, QueueAssumption DEF AcceptAdmin, IInv, TypeOK, Config, NoConfig
  <2>. QED
    BY <1>2, <2>1, FrameIInv DEF AcceptAdmin, EnrollmentOver
<1>3. ASSUME NEW a \in Addresses, OpenEnrollment(a) \/ CloseEnrollment(a) \/ Close(a)
      PROVE  IInv'
  <2>1. /\ config \in Config /\ config' # NoConfig
        /\ config'.max_positions = config.max_positions
        /\ EnrollmentOver => EnrollmentOver'
    BY <1>3, QueueAssumption DEF OpenEnrollment, CloseEnrollment, Close, IsAdmin, IInv,
       TypeOK, Config, NoConfig, EnrollmentOver
  <2>. QED
    BY <1>3, <2>1, FrameIInv DEF OpenEnrollment, CloseEnrollment, Close, IsAdmin
<1>4. ASSUME NEW a \in Addresses, Upgrade(a)
      PROVE  IInv'
  BY <1>4, FrameIInv DEF Upgrade, EnrollmentOver
<1>5. ASSUME NEW a \in Addresses, NEW f \in Ids, NEW t \in Ids, Migrate(a, f, t)
      PROVE  IInv'
  BY <1>5, FrameIInv DEF Migrate, EnrollmentOver
<1>6. CASE UNCHANGED vars
  BY <1>6, FrameIInv DEF vars, EnrollmentOver
<1>7. \A i \in Ids : {i} \in SUBSET Ids
  OBVIOUS
<1>. QED
  BY <1>1, <1>2, <1>3, <1>4, <1>5, <1>6, <1>7, InitializeIInv, EnrollPositionIInv,
     CancelPositionIInv, AdvanceIInv, ExpireIInv
  DEF Next, AdvanceSome, ExpirePosition, ExpirePositionsBatch

\* The inductive invariant holds in every state a contract can reach.
THEOREM InvariantHolds == Spec => []IInv
<1>. QED BY InitIInv, NextIInv, PTL DEF Spec

-----------------------------------------------------------------------------
(* The guarantees                                                          *)

\* Capacity accounting holds for every capacity and every sequence of calls.
THEOREM SlotsAccounted == Spec => []SlotAccounting
<1>1. IInv => SlotAccounting
  BY DEF IInv
<1>. QED BY <1>1, InvariantHolds, PTL

\* The cursor separates the settled positions from the waiting ones.
THEOREM CursorCorrect == Spec => []CursorSeparates
<1>1. IInv => CursorSeparates
  BY DEF IInv
<1>. QED BY <1>1, InvariantHolds, PTL

\* Advancement is first in, first out.
THEOREM FirstInFirstOut == Spec => []FifoOrder
<1>1. IInv => FifoOrder
  BY DEF IInv, TypeOK, Ids, CursorSeparates, FifoOrder
<1>. QED BY <1>1, InvariantHolds, PTL

-----------------------------------------------------------------------------
(* What a step may never do                                                *)

\* How each entry of the position table may change in one step.
LEMMA PositionSteps ==
    ASSUME IInv, [Next]_vars, NEW i \in Ids
    PROVE  \/ pos'[i] = pos[i]
           \/ Pending(i)
           \/ i = next_id
<1>1. ASSUME NEW a \in Addresses, EnrollPosition(a)
      PROVE  pos'[i] = pos[i] \/ i = next_id
  BY <1>1 DEF EnrollPosition, IInv, TypeOK
<1>2. ASSUME NEW a \in Addresses, NEW j \in Ids, CancelPosition(a, j)
      PROVE  pos'[i] = pos[i] \/ Pending(i)
  BY <1>2 DEF CancelPosition, SetStatus, IInv, TypeOK
<1>3. ASSUME NEW a \in Addresses, NEW b \in Batches, Advance(a, b)
      PROVE  pos'[i] = pos[i] \/ Pending(i)
  BY <1>3, AdvanceEffect
<1>4. ASSUME NEW a \in Addresses, NEW S \in SUBSET Ids, ExpireAll(a, S)
      PROVE  pos'[i] = pos[i] \/ Pending(i)
  BY <1>4, ExpireEffect
<1>5. \A j \in Ids : {j} \in SUBSET Ids
  OBVIOUS
<1>. QED
  BY <1>1, <1>2, <1>3, <1>4, <1>5 DEF Next, vars, AdvanceSome, ExpirePosition,
     ExpirePositionsBatch, Initialize, ProposeAdmin, AcceptAdmin, OpenEnrollment,
     CloseEnrollment, Close, Upgrade, Migrate

\* initialize() is never undone.
LEMMA InitsWrittenOnce ==
    ASSUME [Next]_vars
    PROVE  \/ inits' = inits
           \/ \E a \in Addresses, m \in Capacities, s \in InitialStatuses, r \in Rules :
                  Initialize(a, m, s, r)
BY DEF Next, vars, AdvanceSome, ExpirePosition, ExpirePositionsBatch, ProposeAdmin,
   AcceptAdmin, OpenEnrollment, CloseEnrollment, Close, Upgrade, Migrate,
   EnrollPosition, CancelPosition, Advance, ExpireAll

\* A contract initialised at most once after a step was so before it.
LEMMA InitsGrow ==
    ASSUME [Next]_vars
    PROVE  inits' \in {inits, inits + 1}
BY InitsWrittenOnce DEF Initialize

\* A settled position is never touched again.
THEOREM SettledStaysSettled == Spec => SettledForever
<1>1. IInv /\ [Next]_vars =>
          [InitialisedOnce' =>
             \A i \in Ids : StatusOf(i) \in {"Advanced", "Expired", "Cancelled"}
                                => pos'[i] = pos[i]]_vars
  <2> SUFFICES ASSUME IInv, [Next]_vars, InitialisedOnce', NEW i \in Ids,
                      StatusOf(i) \in {"Advanced", "Expired", "Cancelled"}
               PROVE  pos'[i] = pos[i]
    OBVIOUS
  <2>1. InitialisedOnce
    BY InitsGrow DEF InitialisedOnce, IInv, TypeOK
  <2>2. Exists(i) /\ ~Pending(i)
    BY PositionFacts DEF IInv, PositionStatuses, Pending
  <2>3. i # next_id
    BY <2>1, <2>2 DEF IInv, CursorSeparates, TotalCreated, TypeOK, Ids
  <2>. QED
    BY <2>2, <2>3, PositionSteps
<1>. QED BY <1>1, InvariantHolds, PTL DEF Spec, SettledForever

\* Only enroll_position and initialize write the id counter.
LEMMA NextIdSteps ==
    ASSUME IInv, [Next]_vars
    PROVE  next_id' = next_id \/ config.status = "EnrollmentOpen" \/ inits' = inits + 1
BY DEF Next, vars, AdvanceSome, ExpirePosition, ExpirePositionsBatch, Initialize,
   ProposeAdmin, AcceptAdmin, OpenEnrollment, CloseEnrollment, Close, Upgrade, Migrate,
   EnrollPosition, CancelPosition, Advance, ExpireAll

\* Nobody joins a queue that is being served.
THEOREM ParticipantsLocked == Spec => NoLateEnrollment
<1>1. IInv /\ [Next]_vars =>
          [InitialisedOnce' /\ (idx > 0 \/ WithStatus("Expired") # {})
             => next_id' = next_id]_vars
  <2> SUFFICES ASSUME IInv, [Next]_vars, InitialisedOnce',
                      idx > 0 \/ WithStatus("Expired") # {}
               PROVE  next_id' = next_id
    OBVIOUS
  <2>1. InitialisedOnce /\ (inits = 0 \/ inits' = inits)
    BY InitsGrow DEF InitialisedOnce, IInv, TypeOK
  <2>2. inits # 0
    BY PositionFacts DEF IInv, NothingStored, WithStatus, PositionStatuses
  <2>3. config.status # "EnrollmentOpen"
    BY <2>1 DEF IInv, ScanAfterEnrollment, EnrollmentOver, WithStatus
  <2>. QED
    BY <2>1, <2>2, <2>3, NextIdSteps DEF IInv, TypeOK
<1>. QED BY <1>1, InvariantHolds, PTL DEF Spec, NoLateEnrollment

-----------------------------------------------------------------------------
(* The contract implements the waiting line                                *)

\* The three sets of the mapping are those of the positions' statuses.
LEMMA LineSets ==
    ASSUME NEW st
    PROVE  \A i : i \in WithStatus(st) <=> i \in Ids /\ StatusOf(i) = st
BY DEF WithStatus

\* A step that touches no position and no configuration is a stutter of the line.
LEMMA LineStutter ==
    ASSUME pos' = pos, next_id' = next_id, config'.status = config.status,
           config'.max_positions = config.max_positions
    PROVE  UNCHANGED Line!lineVars
BY DEF Line!lineVars, LinePhase, TotalCreated, WithStatus, StatusOf

\* The state before initialize is an empty line.
LEMMA LineInitStep == Init => Line!LineInit
<1> SUFFICES ASSUME Init PROVE Line!LineInit
  OBVIOUS
<1>1. \A i \in Ids : StatusOf(i) = "Absent"
  BY DEF Init, StatusOf, NoPosition
<1>2. WithStatus("Pending") = {} /\ WithStatus("Advanced") = {} /\ WithStatus("Expired") = {}
  BY <1>1 DEF WithStatus
<1>. QED
  BY <1>2 DEF Init, Line!LineInit, LinePhase, NoConfig, TotalCreated

\* The changes of the lifecycle status are changes of phase, or stutters.
LEMMA LineConfigStep ==
    ASSUME IInv, NEW a \in Addresses,
           OpenEnrollment(a) \/ CloseEnrollment(a) \/ Close(a)
    PROVE  Line!LineNext
<1>1. /\ TotalCreated' = TotalCreated
      /\ WithStatus("Pending")' = WithStatus("Pending")
      /\ WithStatus("Advanced")' = WithStatus("Advanced")
      /\ WithStatus("Expired")' = WithStatus("Expired")
  BY DEF OpenEnrollment, CloseEnrollment, Close, TotalCreated, WithStatus, StatusOf
<1>2. config \in Config /\ config'.max_positions = config.max_positions
      /\ config.max_positions \in Nat
  BY QueueAssumption DEF IInv, TypeOK, OpenEnrollment, CloseEnrollment, Close, IsAdmin, Config,
     NoConfig
<1>3. CASE OpenEnrollment(a)
  <2>1. LinePhase = "setup" /\ LinePhase' = "joining"
    BY <1>2, <1>3 DEF OpenEnrollment, LinePhase, Config
  <2>2. Line!Prepare
    BY <1>1, <1>2, <2>1 DEF Line!Prepare, Line!Phases
  <2>. QED
    BY <2>2 DEF Line!LineNext
<1>4. CASE CloseEnrollment(a)
  <2>1. LinePhase = "joining" /\ LinePhase' = "serving"
    BY <1>2, <1>4 DEF CloseEnrollment, LinePhase, Config
  <2>2. Line!StopJoining
    BY <1>1, <1>2, <2>1 DEF Line!StopJoining
  <2>. QED
    BY <2>2 DEF Line!LineNext
<1>5. CASE Close(a)
  <2>1. LinePhase' = "over"
    BY <1>2, <1>5 DEF Close, LinePhase, Config
  <2>2. Line!Finish
    BY <1>1, <1>2, <2>1 DEF Line!Finish
  <2>. QED
    BY <2>2 DEF Line!LineNext
<1>. QED
  BY <1>3, <1>4, <1>5

\* The only initialize prepares the line.
LEMMA LineInitializeStep ==
    ASSUME IInv, MaxInits = 1, NEW a \in Addresses, NEW m \in Capacities,
           NEW s \in InitialStatuses, NEW r \in Rules, Initialize(a, m, s, r)
    PROVE  Line!LineNext
<1>1. inits = 0 /\ config = NoConfig /\ next_id = 1
  BY DEF Initialize, IInv, TypeOK, NothingStored
<1>2. LinePhase = "setup"
  BY <1>1 DEF LinePhase, NoConfig
<1>3. LinePhase' \in {"setup", "joining", "serving", "over"}
  BY QueueAssumption DEF Initialize, LinePhase, QueueStatuses
<1>4. /\ config'.max_positions \in Nat /\ TotalCreated' = TotalCreated
      /\ WithStatus("Pending")' = WithStatus("Pending")
      /\ WithStatus("Advanced")' = WithStatus("Advanced")
      /\ WithStatus("Expired")' = WithStatus("Expired")
  BY <1>1, QueueAssumption DEF Initialize, TotalCreated, WithStatus, StatusOf
<1>5. Line!Prepare
  BY <1>2, <1>3, <1>4 DEF Line!Prepare, Line!Phases
<1>. QED
  BY <1>5 DEF Line!LineNext

\* An enrolment joins the line: the slot counter is the number of occupied places.
LEMMA LineEnrollStep ==
    ASSUME IInv, InitialisedOnce, NEW a \in Addresses, EnrollPosition(a)
    PROVE  Line!LineNext
<1>1. PICK n \in Ids : n = next_id
  BY DEF IInv, TypeOK
<1>2. ~Exists(n) /\ StatusOf(n) = "Absent"
  BY <1>1, PositionFacts DEF IInv, CursorSeparates, TotalCreated, TypeOK, Ids
<1>3. /\ StatusOf(n)' = "Pending"
      /\ \A i \in Ids \ {n} : StatusOf(i)' = StatusOf(i)
  BY <1>1 DEF IInv, TypeOK, EnrollPosition, StatusOf
<1>4. /\ WithStatus("Pending")' = WithStatus("Pending") \cup {n}
      /\ WithStatus("Advanced")' = WithStatus("Advanced")
      /\ WithStatus("Expired")' = WithStatus("Expired")
  BY <1>2, <1>3 DEF WithStatus
<1>5. Cardinality(WithStatus("Pending") \cup WithStatus("Advanced") \cup WithStatus("Expired"))
         < config.max_positions
  BY DEF IInv, SlotAccounting, Occupied, EnrollPosition, HasRoom
<1>6. LinePhase = "joining" /\ LinePhase' = LinePhase
  BY DEF EnrollPosition, LinePhase
<1>7. n = TotalCreated + 1 /\ TotalCreated' = TotalCreated + 1
  BY <1>1 DEF EnrollPosition, TotalCreated, IInv, TypeOK, Ids
<1>8. config'.max_positions = config.max_positions
  BY DEF EnrollPosition
<1>9. \A S : Line!Cardinality(S) = Cardinality(S)
  BY Zenon DEF Line!Cardinality, Cardinality
<1>10. Line!Join
  BY <1>4, <1>5, <1>6, <1>7, <1>8, <1>9 DEF Line!Join
<1>. QED
  BY <1>10 DEF Line!LineNext

\* A cancellation leaves the line.
LEMMA LineCancelStep ==
    ASSUME IInv, NEW a \in Addresses, NEW i \in Ids, CancelPosition(a, i)
    PROVE  Line!LineNext
<1>1. pos'[i].status = "Cancelled" /\ \A j \in Ids \ {i} : pos'[j] = pos[j]
  BY SetStatusEffect DEF IInv, CancelPosition, PositionStatuses
<1>2. /\ i \in WithStatus("Pending")
      /\ WithStatus("Pending")' = WithStatus("Pending") \ {i}
      /\ WithStatus("Advanced")' = WithStatus("Advanced")
      /\ WithStatus("Expired")' = WithStatus("Expired")
  BY <1>1 DEF CancelPosition, WithStatus, StatusOf, Pending
<1>3. LinePhase' = LinePhase /\ TotalCreated' = TotalCreated
      /\ config'.max_positions = config.max_positions
  BY DEF CancelPosition, LinePhase, TotalCreated
<1>4. Line!Leave(i)
  BY <1>2, <1>3 DEF Line!Leave
<1>. QED
  BY <1>2, <1>4 DEF Line!LineNext

\* An expiry lets waiting tickets lapse.
LEMMA LineExpireStep ==
    ASSUME IInv, NEW a \in Addresses, NEW S \in SUBSET Ids, ExpireAll(a, S)
    PROVE  Line!LineNext
<1>1. /\ \A i \in S : Pending(i) /\ StatusOf(i)' = "Expired"
      /\ \A i \in Ids \ S : StatusOf(i)' = StatusOf(i)
  BY ExpireEffect
<1>2. /\ S \in SUBSET WithStatus("Pending")
      /\ WithStatus("Pending")' = WithStatus("Pending") \ S
      /\ WithStatus("Advanced")' = WithStatus("Advanced")
      /\ WithStatus("Expired")' = WithStatus("Expired") \cup S
  BY <1>1 DEF WithStatus, Pending
<1>3. LinePhase \in {"serving", "over"} /\ LinePhase' = LinePhase
      /\ TotalCreated' = TotalCreated /\ config'.max_positions = config.max_positions
  BY DEF ExpireAll, Expirable, LinePhase, TotalCreated
<1>4. Line!Lapse(S)
  BY <1>2, <1>3 DEF Line!Lapse
<1>. QED
  BY <1>2, <1>4 DEF Line!LineNext

\* The cursor invariant makes the scanned pending positions the front of the line.
LEMMA LineAdvanceStep ==
    ASSUME IInv, InitialisedOnce, NEW a \in Addresses, NEW b \in Batches, Advance(a, b)
    PROVE  Line!LineNext
<1>1. PICK last \in idx..TotalCreated, S \in SUBSET Ids :
              /\ S = {i \in Ids : idx < i /\ i <= last /\ Pending(i)}
              /\ \A i \in S : StatusOf(i)' = "Advanced"
              /\ \A i \in Ids \ S : pos'[i] = pos[i]
              /\ config' = IF S # {} THEN [config EXCEPT !.status = "AdvancementActive"]
                           ELSE config
  BY AdvanceEffect
<1>2. \A i \in Ids \ S : StatusOf(i)' = StatusOf(i)
  BY <1>1 DEF StatusOf
<1>3. /\ S \in SUBSET WithStatus("Pending")
      /\ WithStatus("Pending")' = WithStatus("Pending") \ S
      /\ WithStatus("Advanced")' = WithStatus("Advanced") \cup S
      /\ WithStatus("Expired")' = WithStatus("Expired")
  BY <1>1, <1>2 DEF WithStatus, Pending
<1>4. \A s \in S, w \in WithStatus("Pending") \ S : s < w
  BY <1>1 DEF WithStatus, IInv, TypeOK, CursorSeparates, TotalCreated, Pending, Ids
<1>5. config \in Config
  BY DEF Advance, IsAdmin, IInv, TypeOK
<1>6. LinePhase = "serving" /\ LinePhase' = LinePhase
      /\ TotalCreated' = TotalCreated /\ config'.max_positions = config.max_positions
  BY <1>1, <1>5 DEF Advance, Advanceable, LinePhase, TotalCreated, Config
<1>7. Line!Serve(S)
  BY <1>3, <1>4, <1>6 DEF Line!Serve
<1>. QED
  BY <1>3, <1>7 DEF Line!LineNext

\* A queue contract that is initialised once implements the waiting line: the
\* cursor, the counters and the bounded scan are a way to serve in ticket order.
THEOREM QueueImplementsLine ==
    ASSUME MaxInits = 1
    PROVE  Spec => ImplementsLine
<1>0. Spec => []InitialisedOnce
  <2>1. Init => InitialisedOnce
    BY DEF Init, InitialisedOnce
  <2>2. IInv /\ InitialisedOnce /\ [Next]_vars => InitialisedOnce'
    <3> SUFFICES ASSUME IInv, InitialisedOnce, [Next]_vars PROVE InitialisedOnce'
      OBVIOUS
    <3>1. CASE \E a \in Addresses, m \in Capacities, s \in InitialStatuses, r \in Rules :
                  Initialize(a, m, s, r)
      BY <3>1 DEF Initialize, InitialisedOnce, IInv, TypeOK
    <3>2. CASE inits' = inits
      BY <3>2 DEF InitialisedOnce
    <3>. QED
      BY <3>1, <3>2, InitsWrittenOnce
  <2>. QED BY <2>1, <2>2, InvariantHolds, PTL DEF Spec
<1>1. IInv /\ InitialisedOnce /\ [Next]_vars => [Line!LineNext]_Line!lineVars
  <2> SUFFICES ASSUME IInv, InitialisedOnce, [Next]_vars
               PROVE  [Line!LineNext]_Line!lineVars
    OBVIOUS
  <2>1. CASE \E a \in Addresses, m \in Capacities, s \in InitialStatuses, r \in Rules :
                Initialize(a, m, s, r)
    BY <2>1, LineInitializeStep
  <2>2. CASE \E a \in Addresses : OpenEnrollment(a) \/ CloseEnrollment(a) \/ Close(a)
    BY <2>2, LineConfigStep
  <2>3. ASSUME NEW a \in Addresses, NEW b \in Addresses, ProposeAdmin(a, b)
        PROVE  UNCHANGED Line!lineVars
    BY <2>3, LineStutter DEF ProposeAdmin
  <2>4. ASSUME NEW a \in Addresses, AcceptAdmin(a)
        PROVE  UNCHANGED Line!lineVars
    <3>1. config \in Config
      BY <2>4 DEF AcceptAdmin, IInv, TypeOK
    <3>. QED
      BY <2>4, <3>1, LineStutter DEF AcceptAdmin, Config
  <2>5. ASSUME NEW a \in Addresses, Upgrade(a) \/ \E f \in Ids, t \in Ids : Migrate(a, f, t)
        PROVE  UNCHANGED Line!lineVars
    BY <2>5, LineStutter DEF Upgrade, Migrate
  <2>6. CASE UNCHANGED vars
    BY <2>6, LineStutter DEF vars
  <2>8. \A i \in Ids : {i} \in SUBSET Ids
    OBVIOUS
  <2>. QED
    BY <2>1, <2>2, <2>3, <2>4, <2>5, <2>6, <2>8, LineEnrollStep, LineCancelStep,
       LineAdvanceStep, LineExpireStep
    DEF Next, AdvanceSome, ExpirePosition, ExpirePositionsBatch
<1>. QED BY <1>0, <1>1, LineInitStep, InvariantHolds, PTL DEF Spec, ImplementsLine, Line!LineSpec

-----------------------------------------------------------------------------
(* The auditor: what the events tell is what the contract stores           *)

\* The kinds of events that tell of a position.
PositionKinds == {"Enrolled", "Advanced", "Expired", "Cancelled"}

\* The fields of an event.
LEMMA EventFields ==
    ASSUME NEW k, NEW id, NEW who, NEW data
    PROVE  /\ Event(k, id, who, data).kind = k /\ Event(k, id, who, data).position_id = id
           /\ Event(k, id, who, data).identity = who /\ Event(k, id, who, data).data = data
BY DEF Event

\* What an auditor sees of a transaction with one event.
LEMMA OneEvent ==
    ASSUME NEW k, NEW id, NEW who, NEW data, emitted' = {Event(k, id, who, data)}
    PROVE  /\ OfKind(k) = {Event(k, id, who, data)}
           /\ \A x : x # k => OfKind(x) = {}
           /\ k \in PositionKinds => About(id) = {Event(k, id, who, data)}
           /\ \A i : i # id \/ k \notin PositionKinds => About(i) = {}
<1>1. PICK e : e = Event(k, id, who, data)
  OBVIOUS
<1>2. e.kind = k /\ e.position_id = id /\ emitted' = {e}
  BY <1>1, EventFields
<1>. QED BY <1>1, <1>2 DEF OfKind, About, PositionKinds

\* And of one without.
LEMMA NoEvents ==
    ASSUME emitted' = {}
    PROVE  (\A x : OfKind(x) = {}) /\ (\A i : About(i) = {})
BY DEF OfKind, About

\* A transaction without events about positions leaves the rebuilt table as it is.
LEMMA NothingAbout ==
    ASSUME TypeOK, \A i \in Ids : About(i) = {}
    PROVE  Rebuilt(pos) = pos
BY DEF Rebuilt, TypeOK

\* The one that is there is chosen.
LEMMA ChosenOfOne ==
    ASSUME NEW x
    PROVE  (CHOOSE y \in {x} : TRUE) = x
OBVIOUS

\* A table rebuilt from one kind of event about the positions of S is the table with their
\* status set.
LEMMA StatusRebuilt ==
    ASSUME TypeOK, NEW S \in SUBSET Ids, NEW k \in {"Advanced", "Expired", "Cancelled"}, NEW who,
           \A i \in S : About(i) = {Event(k, i, who, 0)} /\ pos[i] \in Position,
           \A i \in Ids \ S : About(i) = {}
    PROVE  Rebuilt(pos) = SetStatus(S, k)
<1>1. ASSUME NEW i \in S PROVE Rebuilt(pos)[i] = SetStatus(S, k)[i]
  <2>1. PICK e : e = Event(k, i, who, 0)
    OBVIOUS
  <2>2. About(i) = {e} /\ e.kind = k /\ k # "Enrolled"
    BY <2>1, EventFields
  <2>3. (CHOOSE x \in About(i) : TRUE) = e
    BY <2>2, ChosenOfOne
  <2>4. Rebuilt(pos)[i] = [identity |-> pos[i].identity, status |-> k]
    BY <2>2, <2>3 DEF Rebuilt, StatusAfter
  <2>5. PICK p \in Position : p = pos[i]
    OBVIOUS
  <2>6. [identity |-> p.identity, status |-> k] = [p EXCEPT !.status = k]
    BY DEF Position
  <2>. QED BY <2>4, <2>5, <2>6 DEF SetStatus
<1>2. ASSUME NEW i \in Ids \ S PROVE Rebuilt(pos)[i] = SetStatus(S, k)[i]
  BY <1>2 DEF Rebuilt, SetStatus
<1>3. \A i \in Ids : Rebuilt(pos)[i] = SetStatus(S, k)[i]
  BY <1>1, <1>2
<1>4. Rebuilt(pos) = [i \in Ids |-> Rebuilt(pos)[i]]
  BY DEF Rebuilt
<1>5. SetStatus(S, k) = [i \in Ids |-> SetStatus(S, k)[i]]
  BY DEF SetStatus
<1>. QED BY <1>3, <1>4, <1>5

\* What the auditor knows.
AuditInv ==
    /\ audit.pos = pos /\ audit.status = config.status
    /\ audit.admin = config.admin /\ audit.version = version
    /\ audit.cursor \in 0..idx
    /\ \A i \in (audit.cursor + 1)..idx : StatusOf(i) = "Expired"
    /\ inits = 0 => version = 1
    /\ InitialisedOnce

\* The auditor who knew it knows it after the transaction, with the cursor c.
Follows(c) ==
    /\ Rebuilt(pos) = pos' /\ StatusTold(config.status) = config'.status
    /\ AdminTold(config.admin) = config'.admin /\ VersionTold(version) = version'
    /\ CursorTold(c) \in 0..idx'
    /\ \A i \in (CursorTold(c) + 1)..idx' : StatusOf(i)' = "Expired"

\* A transaction that tells nothing of positions and moves no cursor.
LEMMA QuietFollows ==
    ASSUME IInv, NEW c \in 0..idx, \A i \in (c + 1)..idx : StatusOf(i) = "Expired",
           \A i \in Ids : About(i) = {}, OfKind("Advanced") = {}, OfKind("Skipped") = {},
           pos' = pos, idx' = idx
    PROVE  /\ Rebuilt(pos) = pos' /\ CursorTold(c) \in 0..idx'
           /\ \A i \in (CursorTold(c) + 1)..idx' : StatusOf(i)' = "Expired"
<1>1. Rebuilt(pos) = pos
  BY NothingAbout DEF IInv
<1>2. CursorTold(c) = c
  BY DEF CursorTold
<1>3. \A i : StatusOf(i)' = StatusOf(i)
  BY DEF StatusOf
<1>. QED BY <1>1, <1>2, <1>3

\* initialize() names the administrator; a status other than Draft has no event of its own.
LEMMA InitializeFollows ==
    ASSUME IInv, NEW c \in 0..idx, \A i \in (c + 1)..idx : StatusOf(i) = "Expired", inits = 0, version = 1,
           NEW a \in Addresses, NEW m \in Capacities, NEW r \in Rules, Initialize(a, m, "Draft", r)
    PROVE  Follows(c)
<1>1. emitted' = {Event("Initialized", 0, a, 0)}
  BY DEF Initialize
<1>2. PICK e : e = Event("Initialized", 0, a, 0) /\ e.identity = a
  BY EventFields
<1>3. /\ OfKind("Initialized") = {e}
      /\ OfKind("OwnershipTransferred") = {} /\ OfKind("Migrated") = {} /\ OfKind("EnrollmentOpened") = {}
      /\ OfKind("EnrollmentClosed") = {} /\ OfKind("QueueClosed") = {}
      /\ OfKind("Advanced") = {} /\ OfKind("Skipped") = {} /\ \A i : About(i) = {}
  BY <1>1, <1>2, OneEvent DEF PositionKinds
<1>4. pos' = pos /\ idx' = idx /\ version' = version /\ config'.status = "Draft" /\ config'.admin = a
  <2>1. idx = 0
    BY DEF IInv, NothingStored
  <2>2. pos' = pos /\ idx' = 0 /\ version' = 1
    BY DEF Initialize
  <2>3. config' = [admin |-> a, max_positions |-> m, status |-> "Draft", rule |-> r]
    BY DEF Initialize
  <2>4. config'.status = "Draft" /\ config'.admin = a
    BY ONLY <2>3
  <2>. QED BY ONLY <2>1, <2>2, <2>4, version = 1
<1>5. StatusTold(config.status) = "Draft" /\ VersionTold(version) = version
  BY <1>3 DEF StatusTold, VersionTold
<1>6. AdminTold(config.admin) = a
  <2>1. OfKind("Initialized") \cup OfKind("OwnershipTransferred") = {e}
    BY <1>3
  <2>. QED BY <1>2, <2>1, ChosenOfOne DEF AdminTold
<1>7. /\ Rebuilt(pos) = pos' /\ CursorTold(c) \in 0..idx'
      /\ \A i \in (CursorTold(c) + 1)..idx' : StatusOf(i)' = "Expired"
  BY <1>3, <1>4, QuietFollows
<1>. QED BY <1>4, <1>5, <1>6, <1>7 DEF Follows

\* accept_admin() names the new administrator.
LEMMA AcceptAdminFollows ==
    ASSUME IInv, NEW c \in 0..idx, \A i \in (c + 1)..idx : StatusOf(i) = "Expired",
           NEW a \in Addresses, AcceptAdmin(a)
    PROVE  Follows(c)
<1>1. emitted' = {Event("OwnershipTransferred", 0, a, 0)}
  BY DEF AcceptAdmin
<1>2. PICK e : e = Event("OwnershipTransferred", 0, a, 0) /\ e.identity = a
  BY EventFields
<1>3. /\ OfKind("OwnershipTransferred") = {e}
      /\ OfKind("Initialized") = {} /\ OfKind("Migrated") = {} /\ OfKind("EnrollmentOpened") = {}
      /\ OfKind("EnrollmentClosed") = {} /\ OfKind("QueueClosed") = {}
      /\ OfKind("Advanced") = {} /\ OfKind("Skipped") = {} /\ \A i : About(i) = {}
  BY <1>1, <1>2, OneEvent DEF PositionKinds
<1>4. pos' = pos /\ idx' = idx /\ version' = version /\ config'.status = config.status /\ config'.admin = a
  BY DEF AcceptAdmin, IInv, TypeOK, Config
<1>5. StatusTold(config.status) = config.status /\ VersionTold(version) = version
  BY <1>3 DEF StatusTold, VersionTold
<1>6. AdminTold(config.admin) = a
  <2>1. OfKind("Initialized") \cup OfKind("OwnershipTransferred") = {e}
    BY <1>3
  <2>. QED BY <1>2, <2>1, ChosenOfOne DEF AdminTold
<1>7. /\ Rebuilt(pos) = pos' /\ CursorTold(c) \in 0..idx'
      /\ \A i \in (CursorTold(c) + 1)..idx' : StatusOf(i)' = "Expired"
  BY <1>3, <1>4, QuietFollows
<1>. QED BY <1>4, <1>5, <1>6, <1>7 DEF Follows

\* The three changes of the lifecycle status have an event each.
LEMMA StatusFollows ==
    ASSUME IInv, NEW c \in 0..idx, \A i \in (c + 1)..idx : StatusOf(i) = "Expired",
           NEW a \in Addresses, NEW k, NEW st,
           \/ OpenEnrollment(a) /\ k = "EnrollmentOpened" /\ st = "EnrollmentOpen"
           \/ CloseEnrollment(a) /\ k = "EnrollmentClosed" /\ st = "EnrollmentClosed"
           \/ Close(a) /\ k = "QueueClosed" /\ st = "Closed"
    PROVE  Follows(c)
<1>1. emitted' = {Event(k, 0, a, 0)} /\ k \in {"EnrollmentOpened", "EnrollmentClosed", "QueueClosed"}
  BY DEF OpenEnrollment, CloseEnrollment, Close
<1>3. /\ OfKind(k) # {} /\ \A x : x # k => OfKind(x) = {}
      /\ \A i : About(i) = {}
  BY <1>1, OneEvent DEF PositionKinds
<1>4. /\ pos' = pos /\ idx' = idx /\ version' = version
      /\ config' = [config EXCEPT !.status = st]
  BY DEF OpenEnrollment, CloseEnrollment, Close
<1>5. config'.status = st /\ config'.admin = config.admin
  BY <1>4 DEF OpenEnrollment, CloseEnrollment, Close, IsAdmin, IInv, TypeOK, Config
<1>6. StatusTold(config.status) = st
  BY <1>1, <1>3 DEF StatusTold
<1>7. VersionTold(version) = version /\ AdminTold(config.admin) = config.admin
  BY <1>1, <1>3 DEF VersionTold, AdminTold
<1>8. OfKind("Advanced") = {} /\ OfKind("Skipped") = {}
  BY <1>1, <1>3
<1>9. /\ Rebuilt(pos) = pos' /\ CursorTold(c) \in 0..idx'
      /\ \A i \in (CursorTold(c) + 1)..idx' : StatusOf(i)' = "Expired"
  BY <1>3, <1>4, <1>8, QuietFollows
<1>. QED BY <1>4, <1>5, <1>6, <1>7, <1>9 DEF Follows

\* The calls that tell nothing of positions, status or administrator.
LEMMA SilentFollows ==
    ASSUME IInv, NEW c \in 0..idx, \A i \in (c + 1)..idx : StatusOf(i) = "Expired",
           \/ \E a \in Addresses, b \in Addresses : ProposeAdmin(a, b)
           \/ \E a \in Addresses : Upgrade(a)
    PROVE  Follows(c)
<1>1. emitted' = {} \/ \E a \in Addresses : emitted' = {Event("Upgraded", 0, a, 0)}
  BY DEF ProposeAdmin, Upgrade
<1>2. /\ \A x : x # "Upgraded" => OfKind(x) = {}
      /\ \A i : About(i) = {}
  BY <1>1, OneEvent, NoEvents DEF PositionKinds
<1>3. pos' = pos /\ idx' = idx /\ version' = version /\ config' = config
  BY DEF ProposeAdmin, Upgrade
<1>4. /\ OfKind("Initialized") = {} /\ OfKind("Migrated") = {} /\ OfKind("EnrollmentOpened") = {}
      /\ OfKind("EnrollmentClosed") = {} /\ OfKind("QueueClosed") = {} /\ OfKind("Advanced") = {}
      /\ OfKind("Skipped") = {} /\ OfKind("OwnershipTransferred") = {}
  BY <1>2
<1>5. /\ StatusTold(config.status) = config.status /\ VersionTold(version) = version
      /\ AdminTold(config.admin) = config.admin
  BY <1>4 DEF StatusTold, VersionTold, AdminTold
<1>6. /\ Rebuilt(pos) = pos' /\ CursorTold(c) \in 0..idx'
      /\ \A i \in (CursorTold(c) + 1)..idx' : StatusOf(i)' = "Expired"
  BY <1>2, <1>3, <1>4, QuietFollows
<1>. QED BY <1>3, <1>5, <1>6 DEF Follows

\* migrate() tells the new version.
LEMMA MigrateFollows ==
    ASSUME IInv, NEW c \in 0..idx, \A i \in (c + 1)..idx : StatusOf(i) = "Expired",
           NEW a \in Addresses, NEW f \in Ids, NEW t \in Ids, Migrate(a, f, t)
    PROVE  Follows(c)
<1>1. emitted' = {Event("Migrated", f, a, t)}
  BY DEF Migrate
<1>2. PICK e : e = Event("Migrated", f, a, t) /\ e.data = t
  BY EventFields
<1>3. /\ OfKind("Migrated") = {e}
      /\ OfKind("Initialized") = {} /\ OfKind("OwnershipTransferred") = {} /\ OfKind("EnrollmentOpened") = {}
      /\ OfKind("EnrollmentClosed") = {} /\ OfKind("QueueClosed") = {}
      /\ OfKind("Advanced") = {} /\ OfKind("Skipped") = {} /\ \A i : About(i) = {}
  BY <1>1, <1>2, OneEvent DEF PositionKinds
<1>4. pos' = pos /\ idx' = idx /\ version' = t /\ config' = config
  BY DEF Migrate
<1>5. StatusTold(config.status) = config.status /\ AdminTold(config.admin) = config.admin
  BY <1>3 DEF StatusTold, AdminTold
<1>6. VersionTold(version) = t
  BY <1>2, <1>3, ChosenOfOne DEF VersionTold
<1>7. /\ Rebuilt(pos) = pos' /\ CursorTold(c) \in 0..idx'
      /\ \A i \in (CursorTold(c) + 1)..idx' : StatusOf(i)' = "Expired"
  BY <1>3, <1>4, QuietFollows
<1>. QED BY <1>4, <1>5, <1>6, <1>7 DEF Follows

\* Kinds of events that tell of one position only.
LEMMA PositionEventOnly ==
    ASSUME \A x : x \notin {"Enrolled", "Expired", "Cancelled"} => OfKind(x) = {}, NEW c,
           version' = version, config' = config, idx' = idx
    PROVE  /\ StatusTold(config.status) = config'.status /\ AdminTold(config.admin) = config'.admin
           /\ VersionTold(version) = version' /\ CursorTold(c) = c
<1>1. /\ OfKind("Initialized") = {} /\ OfKind("Migrated") = {} /\ OfKind("EnrollmentOpened") = {}
      /\ OfKind("EnrollmentClosed") = {} /\ OfKind("QueueClosed") = {} /\ OfKind("Advanced") = {}
      /\ OfKind("Skipped") = {} /\ OfKind("OwnershipTransferred") = {}
  OBVIOUS
<1>. QED BY <1>1 DEF StatusTold, VersionTold, AdminTold, CursorTold

\* enroll() tells the owner of the next position, which lies beyond the cursor.
LEMMA EnrollFollows ==
    ASSUME IInv, InitialisedOnce, NEW c \in 0..idx, \A i \in (c + 1)..idx : StatusOf(i) = "Expired",
           NEW a \in Addresses, EnrollPosition(a)
    PROVE  Follows(c)
<1>0. idx \in Nat /\ next_id \in Ids /\ idx < next_id
  BY DEF IInv, TypeOK, CursorSeparates, TotalCreated, Ids
<1>1. emitted' = {Event("Enrolled", next_id, a, 0)}
  BY DEF EnrollPosition
<1>2. PICK e, id : id = next_id /\ e = Event("Enrolled", id, a, 0) /\ e.identity = a /\ e.kind = "Enrolled"
  BY EventFields
<1>3. About(id) = {e} /\ (\A i : i # id => About(i) = {}) /\ \A x : x # "Enrolled" => OfKind(x) = {}
  BY <1>1, <1>2, OneEvent DEF PositionKinds
<1>4. Rebuilt(pos) = pos'
  <2>1. (CHOOSE x \in About(id) : TRUE) = e
    BY <1>3, ChosenOfOne
  <2>2. Rebuilt(pos)[id] = [identity |-> a, status |-> "Pending"]
    BY <1>0, <1>2, <1>3, <2>1 DEF Rebuilt, StatusAfter
  <2>3. pos' = [pos EXCEPT ![id] = [identity |-> a, status |-> "Pending"]]
    BY <1>2 DEF EnrollPosition
  <2>4. \A i \in Ids : Rebuilt(pos)[i] = pos'[i]
    BY <1>0, <1>2, <1>3, <2>2, <2>3 DEF Rebuilt, IInv, TypeOK
  <2>5. Rebuilt(pos) = [i \in Ids |-> Rebuilt(pos)[i]]
    BY DEF Rebuilt
  <2>6. pos' = [i \in Ids |-> pos'[i]]
    BY <2>3 DEF IInv, TypeOK
  <2>. QED BY <2>4, <2>5, <2>6
<1>5. version' = version /\ config' = config /\ idx' = idx
  BY DEF EnrollPosition
<1>6. /\ StatusTold(config.status) = config'.status /\ AdminTold(config.admin) = config'.admin
      /\ VersionTold(version) = version' /\ CursorTold(c) = c
  BY <1>3, <1>5, PositionEventOnly
<1>7. ASSUME NEW i \in (c + 1)..idx PROVE StatusOf(i)' = "Expired"
  <2>1. StatusOf(i) = "Expired"
    BY <1>7
  <2>2. i # next_id /\ i \in Ids
    <3>1. next_id \in 1..U32Max /\ U32Max \in Nat
      BY <1>0, QueueAssumption DEF Ids
    <3>2. i \in Int /\ 1 <= i /\ i <= idx
      BY <1>0
    <3>. QED BY ONLY <1>0, <3>1, <3>2 DEF Ids
  <2>3. pos'[i] = pos[i]
    <3>1. pos' = [pos EXCEPT ![next_id] = [identity |-> a, status |-> "Pending"]]
      BY DEF EnrollPosition
    <3>2. pos \in [Ids -> Position \cup {NoPosition}]
      BY DEF IInv, TypeOK
    <3>. QED BY ONLY <2>2, <3>1, <3>2
  <2>. QED BY <2>1, <2>3 DEF StatusOf
<1>. QED BY <1>4, <1>5, <1>6, <1>7 DEF Follows

\* cancel_position() has an event for the position it changes.
LEMMA CancelFollows ==
    ASSUME IInv, NEW c \in 0..idx, \A i \in (c + 1)..idx : StatusOf(i) = "Expired",
           NEW a \in Addresses, NEW id \in Ids, CancelPosition(a, id)
    PROVE  Follows(c)
<1>0. idx \in 0..U32Max /\ U32Max \in Nat
  BY QueueAssumption DEF IInv, TypeOK
<1>1. emitted' = {Event("Cancelled", id, a, 0)} /\ pos' = SetStatus({id}, "Cancelled")
  BY DEF CancelPosition
<1>2. /\ About(id) = {Event("Cancelled", id, a, 0)} /\ (\A i : i # id => About(i) = {})
      /\ \A x : x # "Cancelled" => OfKind(x) = {}
  BY <1>1, OneEvent DEF PositionKinds
<1>3. pos[id] \in Position /\ StatusOf(id) = "Pending"
  BY DEF CancelPosition, Exists, Pending, IInv, TypeOK
<1>4. Rebuilt(pos) = pos'
  <2>1. Rebuilt(pos) = SetStatus({id}, "Cancelled")
    BY <1>2, <1>3, StatusRebuilt DEF IInv
  <2>. QED BY <1>1, <2>1
<1>5. version' = version /\ config' = config /\ idx' = idx
  BY DEF CancelPosition
<1>6. /\ StatusTold(config.status) = config'.status /\ AdminTold(config.admin) = config'.admin
      /\ VersionTold(version) = version' /\ CursorTold(c) = c
  BY <1>2, <1>5, PositionEventOnly
<1>7. ASSUME NEW i \in (c + 1)..idx PROVE StatusOf(i)' = "Expired"
  <2>1. StatusOf(i) = "Expired" /\ i \in Ids
    BY <1>0, <1>7 DEF Ids
  <2>2. i # id
    BY <1>3, <2>1
  <2>. QED BY <1>1, <2>1, <2>2 DEF StatusOf, SetStatus
<1>. QED BY <1>4, <1>5, <1>6, <1>7 DEF Follows

\* An expiry keeps what had expired before the cursor expired.
LEMMA ExpireFollows ==
    ASSUME IInv, NEW c \in 0..idx, \A i \in (c + 1)..idx : StatusOf(i) = "Expired",
           NEW a \in Addresses, NEW S \in SUBSET Ids, ExpireAll(a, S)
    PROVE  Follows(c)
<1>0. idx \in 0..U32Max /\ U32Max \in Nat
  BY QueueAssumption DEF IInv, TypeOK
<1>1. emitted' = {Event("Expired", i, a, 0) : i \in S} /\ pos' = SetStatus(S, "Expired")
  BY DEF ExpireAll
<1>2. \A i : Event("Expired", i, a, 0).kind = "Expired" /\ Event("Expired", i, a, 0).position_id = i
  BY EventFields
<1>3. \A i \in S : About(i) = {Event("Expired", i, a, 0)}
  BY <1>1, <1>2 DEF About
<1>4. \A i \in Ids \ S : About(i) = {}
  BY <1>1, <1>2 DEF About
<1>5. \A x : x # "Expired" => OfKind(x) = {}
  BY <1>1, <1>2 DEF OfKind
<1>6. \A i \in S : pos[i] \in Position
  BY DEF ExpireAll, Exists, IInv, TypeOK
<1>7. Rebuilt(pos) = pos'
  <2>1. Rebuilt(pos) = SetStatus(S, "Expired")
    BY <1>3, <1>4, <1>6, StatusRebuilt DEF IInv
  <2>. QED BY <1>1, <2>1
<1>8. version' = version /\ config' = config /\ idx' = idx
  BY DEF ExpireAll
<1>9. /\ StatusTold(config.status) = config'.status /\ AdminTold(config.admin) = config'.admin
      /\ VersionTold(version) = version' /\ CursorTold(c) = c
  BY <1>5, <1>8, PositionEventOnly
<1>10. ASSUME NEW i \in (c + 1)..idx PROVE StatusOf(i)' = "Expired"
  <2>1. StatusOf(i) = "Expired" /\ i \in Ids
    BY <1>0, <1>10 DEF Ids
  <2>. QED BY <2>1, ExpireEffect
<1>. QED BY <1>7, <1>8, <1>9, <1>10 DEF Follows

\* advance() has an event for each position it serves or skips; the others it passes had
\* expired.
LEMMA AdvanceFollows ==
    ASSUME IInv, InitialisedOnce, NEW c \in 0..idx, \A i \in (c + 1)..idx : StatusOf(i) = "Expired",
           NEW a \in Addresses, NEW b \in Batches, Advance(a, b)
    PROVE  Follows(c)
<1>0. idx \in 0..U32Max /\ U32Max \in Nat /\ TotalCreated \in 0..U32Max
  BY QueueAssumption DEF IInv, TypeOK, TotalCreated, Ids
<1>1. PICK last, advanced, skipped :
          /\ last \in idx..TotalCreated
          /\ ScanEndsAt(last, b)
          /\ advanced = {i \in (idx + 1)..last : Pending(i)}
          /\ skipped = {i \in (idx + 1)..last : StatusOf(i) = "Cancelled"}
          /\ idx' = last
          /\ pos' = SetStatus(advanced, "Advanced")
          /\ config' = IF advanced # {} THEN [config EXCEPT !.status = "AdvancementActive"] ELSE config
          /\ emitted' = AdvanceEvents(a, advanced, skipped)
  BY DEF Advance
<1>2. (idx + 1)..last \subseteq Ids /\ last \in Nat
  BY <1>0, <1>1 DEF Ids
<1>3. \A i \in (idx + 1)..last : pos[i] \in Position
  BY <1>1, <1>2 DEF ScanEndsAt, Exists, IInv, TypeOK
<1>4. /\ \A i : Event("Advanced", i, a, 0).kind = "Advanced" /\ Event("Advanced", i, a, 0).position_id = i
      /\ \A i : Event("Skipped", i, a, 0).kind = "Skipped" /\ Event("Skipped", i, a, 0).position_id = i
  BY EventFields
<1>5. emitted' = {Event("Skipped", i, a, 0) : i \in skipped} \cup {Event("Advanced", i, a, 0) : i \in advanced}
  BY <1>1 DEF AdvanceEvents
<1>6. OfKind("Advanced") = {Event("Advanced", i, a, 0) : i \in advanced}
  BY <1>4, <1>5 DEF OfKind
<1>7. OfKind("Skipped") = {Event("Skipped", i, a, 0) : i \in skipped}
  BY <1>4, <1>5 DEF OfKind
<1>8. \A x : x \notin {"Advanced", "Skipped"} => OfKind(x) = {}
  BY <1>4, <1>5 DEF OfKind
<1>9. \A i \in advanced : About(i) = {Event("Advanced", i, a, 0)}
  BY <1>4, <1>5 DEF About
<1>10. \A i \in Ids \ advanced : About(i) = {}
  BY <1>4, <1>5 DEF About
<1>11. Rebuilt(pos) = pos'
  <2>1. advanced \in SUBSET Ids /\ \A i \in advanced : pos[i] \in Position
    BY <1>1, <1>2, <1>3
  <2>2. Rebuilt(pos) = SetStatus(advanced, "Advanced")
    BY <1>9, <1>10, <2>1, StatusRebuilt DEF IInv
  <2>. QED BY <1>1, <2>2
<1>12. config \in Config
  BY DEF Advance, IsAdmin, IInv, TypeOK
<1>13. /\ OfKind("Initialized") = {} /\ OfKind("Migrated") = {} /\ OfKind("EnrollmentOpened") = {}
       /\ OfKind("EnrollmentClosed") = {} /\ OfKind("QueueClosed") = {}
       /\ OfKind("OwnershipTransferred") = {}
  BY <1>8
<1>14. StatusTold(config.status) = config'.status /\ AdminTold(config.admin) = config'.admin
  <2>1. AdminTold(config.admin) = config.admin
    BY <1>13 DEF AdminTold
  <2>2. CASE advanced = {}
    <3>1. OfKind("Advanced") = {}
      BY <1>6, <2>2
    <3>2. StatusTold(config.status) = config.status
      BY <1>13, <3>1 DEF StatusTold
    <3>. QED BY <1>1, <2>1, <2>2, <3>2
  <2>3. CASE advanced # {}
    <3>1. OfKind("Advanced") # {}
      BY <1>6, <2>3
    <3>2. StatusTold(config.status) = "AdvancementActive"
      BY <1>13, <3>1 DEF StatusTold
    <3>3. config'.status = "AdvancementActive" /\ config'.admin = config.admin
      BY <1>1, <1>12, <2>3 DEF Config
    <3>. QED BY <2>1, <3>2, <3>3
  <2>. QED BY <2>2, <2>3
<1>15. VersionTold(version) = version'
  BY <1>13 DEF VersionTold, Advance
<1>16. PICK seen : seen = advanced \cup skipped
  OBVIOUS
<1>17. {e.position_id : e \in OfKind("Advanced") \cup OfKind("Skipped")} = seen
  BY <1>4, <1>6, <1>7, <1>16
<1>18. ASSUME NEW i \in (idx + 1)..last, i \notin seen PROVE StatusOf(i)' = "Expired"
  <2>1. i \in Ids /\ i > idx /\ pos[i] \in Position
    BY <1>0, <1>2, <1>3, <1>18
  <2>2. i \notin advanced /\ StatusOf(i) # "Cancelled" /\ StatusOf(i) # "Pending"
    BY <1>1, <1>16, <1>18 DEF Pending
  <2>3. StatusOf(i) # "Advanced"
    BY <1>0, <2>1 DEF IInv, CursorSeparates
  <2>4. StatusOf(i) = "Expired"
    BY <2>1, <2>2, <2>3 DEF StatusOf, Position, PositionStatuses
  <2>5. pos'[i] = pos[i]
    BY <1>1, <2>1, <2>2 DEF SetStatus
  <2>. QED BY <2>4, <2>5 DEF StatusOf
<1>19. CursorTold(c) \in 0..idx' /\ \A i \in (CursorTold(c) + 1)..idx' : StatusOf(i)' = "Expired"
  <2>1. CASE seen = {}
    <3>1. CursorTold(c) = c
      BY <1>17, <2>1 DEF CursorTold
    <3>2. ASSUME NEW i \in (c + 1)..idx PROVE StatusOf(i)' = "Expired"
      <4>0. StatusOf(i) = "Expired"
        BY <3>2
      <4>1. i \in Ids /\ i \notin (idx + 1)..last
        BY <1>0 DEF Ids
      <4>2. i \notin advanced
        BY <1>1, <4>1
      <4>3. pos'[i] = pos[i]
        BY <1>1, <4>1, <4>2 DEF SetStatus
      <4>. QED BY <4>0, <4>3 DEF StatusOf
    <3>3. ASSUME NEW i \in (c + 1)..last PROVE StatusOf(i)' = "Expired"
      <4>1. i \in (c + 1)..idx \/ i \in (idx + 1)..last
        BY <1>0, <1>2, <3>3
      <4>. QED BY <1>18, <2>1, <3>2, <4>1
    <3>4. c \in 0..last
      BY <1>0, <1>1, <1>2
    <3>. QED BY <1>1, <3>1, <3>3, <3>4
  <2>2. CASE seen # {}
    <3>1. seen \subseteq (idx + 1)..last
      BY <1>1, <1>16
    <3>2. seen \subseteq 0..last
      BY <1>0, <3>1
    <3>3. \E m \in seen : \A i \in seen : i <= m
      BY <1>2, <2>2, <3>2, LargestUpTo
    <3>4. CursorTold(c) = CHOOSE i \in seen : \A j \in seen : j <= i
      BY <1>17, <2>2 DEF CursorTold
    <3>5. PICK m \in seen : m = CursorTold(c) /\ \A i \in seen : i <= m
      BY <3>3, <3>4
    <3>6. m \in 0..last
      BY <3>2
    <3>7. ASSUME NEW i \in (m + 1)..last PROVE StatusOf(i)' = "Expired"
      <4>1. m \in (idx + 1)..last
        BY <3>1
      <4>2. i \in (idx + 1)..last /\ ~(i <= m)
        BY <1>0, <1>2, <3>7, <4>1
      <4>3. i \notin seen
        BY <3>5, <4>2
      <4>. QED BY <1>18, <4>2, <4>3
    <3>. QED BY <1>1, <3>5, <3>6, <3>7
  <2>. QED BY <2>1, <2>2
<1>. QED BY <1>11, <1>14, <1>15, <1>19 DEF Follows

\* What the auditor knows is inductive.
LEMMA NextAuditInv ==
    ASSUME MaxInits = 1, InitialStatuses \subseteq {"Draft"}, IInv, AuditInv, [AuditNext]_auditVars
    PROVE  AuditInv'
<1>1. CASE UNCHANGED auditVars
  BY <1>1 DEF auditVars, vars, AuditInv, StatusOf, InitialisedOnce
<1>2. CASE AuditNext
  <2>1. PICK c : c = audit.cursor
    OBVIOUS
  <2>2. c \in 0..idx /\ (\A i \in (c + 1)..idx : StatusOf(i) = "Expired") /\ InitialisedOnce
    BY <2>1 DEF AuditInv
  <2>3. Next
    BY <1>2 DEF AuditNext
  <2>4. Follows(c) /\ (inits' = 0 => version' = 1) /\ InitialisedOnce'
    <3>0. ASSUME config # NoConfig PROVE inits # 0
      BY <3>0 DEF IInv, NothingStored
    <3>1. ASSUME NEW a \in Addresses, NEW m \in Capacities, NEW s \in InitialStatuses, NEW r \in Rules,
                 Initialize(a, m, s, r)
          PROVE  Follows(c) /\ (inits' = 0 => version' = 1) /\ InitialisedOnce'
      <4>1. inits = 0 /\ inits' = 1 /\ s = "Draft"
        BY <3>1 DEF Initialize, IInv, TypeOK
      <4>2. version = 1
        BY <4>1 DEF AuditInv
      <4>3. Follows(c)
        BY <2>2, <3>1, <4>1, <4>2, InitializeFollows
      <4>. QED BY <4>1, <4>3 DEF InitialisedOnce
    <3>2. CASE \E a \in Addresses, b \in Addresses : ProposeAdmin(a, b)
      <4>1. Follows(c)
        BY <2>2, <3>2, SilentFollows
      <4>. QED BY <3>2, <4>1 DEF ProposeAdmin, AuditInv, InitialisedOnce
    <3>3. CASE \E a \in Addresses : Upgrade(a)
      <4>1. Follows(c)
        BY <2>2, <3>3, SilentFollows
      <4>. QED BY <3>3, <4>1 DEF Upgrade, AuditInv, InitialisedOnce
    <3>4. ASSUME NEW a \in Addresses, AcceptAdmin(a)
          PROVE  Follows(c) /\ (inits' = 0 => version' = 1) /\ InitialisedOnce'
      <4>1. Follows(c)
        BY <2>2, <3>4, AcceptAdminFollows
      <4>. QED BY <3>4, <4>1 DEF AcceptAdmin, AuditInv, InitialisedOnce
    <3>5. ASSUME NEW a \in Addresses, OpenEnrollment(a) \/ CloseEnrollment(a) \/ Close(a)
          PROVE  Follows(c) /\ (inits' = 0 => version' = 1) /\ InitialisedOnce'
      <4>1. PICK k, st : \/ OpenEnrollment(a) /\ k = "EnrollmentOpened" /\ st = "EnrollmentOpen"
                         \/ CloseEnrollment(a) /\ k = "EnrollmentClosed" /\ st = "EnrollmentClosed"
                         \/ Close(a) /\ k = "QueueClosed" /\ st = "Closed"
        BY <3>5
      <4>2. Follows(c)
        BY <2>2, <4>1, StatusFollows
      <4>. QED BY <3>5, <4>2 DEF OpenEnrollment, CloseEnrollment, Close, AuditInv, InitialisedOnce
    <3>6. ASSUME NEW a \in Addresses, EnrollPosition(a)
          PROVE  Follows(c) /\ (inits' = 0 => version' = 1) /\ InitialisedOnce'
      <4>1. Follows(c)
        BY <2>2, <3>6, EnrollFollows
      <4>. QED BY <3>6, <4>1 DEF EnrollPosition, AuditInv, InitialisedOnce
    <3>7. ASSUME NEW a \in Addresses, NEW i \in Ids, CancelPosition(a, i)
          PROVE  Follows(c) /\ (inits' = 0 => version' = 1) /\ InitialisedOnce'
      <4>1. Follows(c)
        BY <2>2, <3>7, CancelFollows
      <4>. QED BY <3>7, <4>1 DEF CancelPosition, AuditInv, InitialisedOnce
    <3>8. ASSUME NEW a \in Addresses, NEW b \in Batches, Advance(a, b)
          PROVE  Follows(c) /\ (inits' = 0 => version' = 1) /\ InitialisedOnce'
      <4>1. Follows(c)
        BY <2>2, <3>8, AdvanceFollows
      <4>. QED BY <3>8, <4>1 DEF Advance, AuditInv, InitialisedOnce
    <3>9. ASSUME NEW a \in Addresses, NEW S \in SUBSET Ids, ExpireAll(a, S)
          PROVE  Follows(c) /\ (inits' = 0 => version' = 1) /\ InitialisedOnce'
      <4>1. Follows(c)
        BY <2>2, <3>9, ExpireFollows
      <4>. QED BY <3>9, <4>1 DEF ExpireAll, AuditInv, InitialisedOnce
    <3>10. ASSUME NEW a \in Addresses, NEW f \in Ids, NEW t \in Ids, Migrate(a, f, t)
           PROVE  Follows(c) /\ (inits' = 0 => version' = 1) /\ InitialisedOnce'
      <4>1. Follows(c)
        BY <2>2, <3>10, MigrateFollows
      <4>. QED BY <3>0, <3>10, <4>1 DEF Migrate, IsAdmin, InitialisedOnce, AuditInv
    <3>11. \A i \in Ids : {i} \in SUBSET Ids
      OBVIOUS
    <3>. QED
      BY <2>3, <3>1, <3>2, <3>3, <3>4, <3>5, <3>6, <3>7, <3>8, <3>9, <3>10, <3>11
      DEF Next, AdvanceSome, ExpirePosition, ExpirePositionsBatch
  <2>5. /\ audit'.pos = Rebuilt(audit.pos) /\ audit'.status = StatusTold(audit.status)
        /\ audit'.admin = AdminTold(audit.admin) /\ audit'.version = VersionTold(audit.version)
        /\ audit'.cursor = CursorTold(audit.cursor)
    BY <1>2 DEF AuditNext
  <2>6. /\ audit.pos = pos /\ audit.status = config.status /\ audit.admin = config.admin
        /\ audit.version = version
    BY DEF AuditInv
  <2>7. /\ audit'.pos = pos' /\ audit'.status = config'.status /\ audit'.admin = config'.admin
        /\ audit'.version = version'
    BY <2>4, <2>5, <2>6 DEF Follows
  <2>8. audit'.cursor \in 0..idx' /\ \A i \in (audit'.cursor + 1)..idx' : StatusOf(i)' = "Expired"
    BY <2>1, <2>4, <2>5 DEF Follows
  <2>. QED BY <2>4, <2>7, <2>8 DEF AuditInv
<1>. QED BY <1>1, <1>2

\* The events of lib.rs are a complete record: whoever applies them in order holds, after
\* every transaction, each position with its owner and status, the lifecycle status, the
\* administrator, the version and the capacity in use, and knows the cursor up to trailing
\* expired positions.  The two hypotheses are the ones the findings about initialize()
\* show to be needed: it runs once, and with the status that its event stands for.
THEOREM AuditRebuildsHistory ==
    ASSUME MaxInits = 1, InitialStatuses \subseteq {"Draft"}
    PROVE  AuditSpec => []HistoryRebuildable
<1>1. AuditInit => AuditInv
  BY DEF AuditInit, Init, AuditInv, NoConfig, InitialisedOnce
<1>2. AuditInit => Init
  BY DEF AuditInit
<1>3. [AuditNext]_auditVars => [Next]_vars
  BY DEF AuditNext, auditVars
<1>4. IInv /\ AuditInv /\ [AuditNext]_auditVars => AuditInv'
  BY NextAuditInv
<1>5. IInv /\ AuditInv => HistoryRebuildable
  <2> SUFFICES ASSUME IInv, AuditInv PROVE HistoryRebuildable
    OBVIOUS
  <2>1. {i \in Ids : audit.pos[i].status \notin {"Absent", "Cancelled"}} = Occupied
    <3>1. \A i \in Ids : pos[i].status \in PositionStatuses \cup {"Absent"}
      BY DEF IInv, TypeOK, Position, NoPosition
    <3>. QED BY <3>1 DEF AuditInv, Occupied, WithStatus, StatusOf, PositionStatuses
  <2>2. active_count = Cardinality(Occupied)
    BY DEF IInv, SlotAccounting, AuditInv
  <2>3. audit.cursor <= idx
    BY DEF AuditInv
  <2>. QED BY <2>1, <2>2, <2>3 DEF HistoryRebuildable, AuditInv
<1>. QED BY <1>1, <1>2, <1>3, <1>4, <1>5, InitIInv, NextIInv, PTL DEF AuditSpec
=============================================================================
