-------------------------- MODULE EnrollmentProofs --------------------------
(***************************************************************************)
(* Proofs about the enrollment contract, for every set of identities, every *)
(* expiry date, every batch of promotions and every width of the integers.  *)
(***************************************************************************)
EXTENDS Enrollment, FiniteSetTheorems, SequenceTheorems, TLAPS

-----------------------------------------------------------------------------
(* Lemmas                                                                  *)

\* How many identities promote_from_waitlist() takes off the waitlist, and which.
Taken(requested) == IF requested <= Len(waitlist) THEN requested ELSE Len(waitlist)
Promoted(n) == {waitlist[m] : m \in 1..n}
Enrolled == {i \in Identities : IsEnrolled(i)}

\* A new record is a record, not a missing one, and not a cancelled one.
LEMMA NewRecordFacts ==
    ASSUME NEW d \in 0..U32Max, NEW e \in Nat \cup {None}
    PROVE  /\ NewRecord(d, e) \in EnrollmentRecord
           /\ NewRecord(d, e) # NoRecord
           /\ ~NewRecord(d, e).cancelled
BY DEF NewRecord, EnrollmentRecord, NoRecord

\* A stored record is not the missing one.
LEMMA RecordIsThere == ASSUME NEW r \in EnrollmentRecord PROVE r # NoRecord
BY EnrollmentAssumption DEF EnrollmentRecord, NoRecord, None

\* Taking the first n off the waitlist leaves the others, in their order.
LEMMA TakeEffect ==
    ASSUME TypeOK, NEW n \in 0..Len(waitlist)
    PROVE  LET rest == SubSeq(waitlist, n + 1, Len(waitlist)) IN
           /\ rest \in Seq(Identities)
           /\ DOMAIN rest = 1..(Len(waitlist) - n)
           /\ \A m \in 1..(Len(waitlist) - n) : rest[m] = waitlist[n + m]
<1> DEFINE rest == SubSeq(waitlist, n + 1, Len(waitlist))
<1>1. waitlist \in Seq(Identities) /\ Len(waitlist) \in Nat
  BY LenProperties DEF TypeOK
<1>2. \A i \in (n + 1)..Len(waitlist) : waitlist[i] \in Identities
  BY <1>1, ElementOfSeq
<1>3. /\ rest \in Seq(Identities)
      /\ Len(rest) = IF n + 1 <= Len(waitlist) THEN Len(waitlist) - (n + 1) + 1 ELSE 0
      /\ \A i \in 1..(Len(waitlist) - (n + 1) + 1) : rest[i] = waitlist[(n + 1) + i - 1]
  <2>1. n + 1 \in Int /\ Len(waitlist) \in Int
    BY <1>1
  <2>. QED
    BY <1>2, <2>1, SubSeqProperties
<1>4. Len(rest) = Len(waitlist) - n
  BY <1>1, <1>3
<1>5. DOMAIN rest = 1..(Len(waitlist) - n)
  BY <1>3, <1>4, LenProperties
<1>6. \A m \in 1..(Len(waitlist) - n) : rest[m] = waitlist[n + m]
  <2> TAKE m \in 1..(Len(waitlist) - n)
  <2>1. m \in 1..(Len(waitlist) - (n + 1) + 1) /\ (n + 1) + m - 1 = n + m
    BY <1>1
  <2>. QED
    BY <1>3, <2>1
<1>. QED
  BY <1>3, <1>5, <1>6

\* The waitlist holds nobody twice, so n promotions are of n different identities.
LEMMA PromotedCount ==
    ASSUME TypeOK, NEW n \in 0..Len(waitlist)
    PROVE  /\ Promoted(n) \subseteq Identities
           /\ IsFiniteSet(Promoted(n))
           /\ Cardinality(Promoted(n)) = n
<1> DEFINE f == [m \in 1..n |-> waitlist[m]]
<1>1. waitlist \in Seq(Identities) /\ Len(waitlist) \in Nat /\ DOMAIN waitlist = 1..Len(waitlist)
  BY LenProperties DEF TypeOK
<1>2. \A m \in 1..n : m \in DOMAIN waitlist /\ waitlist[m] \in Identities
  BY <1>1, ElementOfSeq
<1>3. \A l, m \in 1..n : waitlist[l] = waitlist[m] => l = m
  BY <1>2 DEF TypeOK
<1>4. f \in Bijection(1..n, Promoted(n))
  BY <1>3 DEF Bijection, Injection, Surjection, IsInjective, Promoted
<1>5. IsFiniteSet(1..n) /\ Cardinality(1..n) = n
  BY <1>1, FS_Interval
<1>6. ExistsBijection(1..n, Promoted(n))
  BY <1>4 DEF ExistsBijection
<1>. QED
  BY <1>2, <1>5, <1>6, FS_Bijection DEF Promoted

\* promote_from_waitlist(), said with these sets.
LEMMA PromoteEffect ==
    ASSUME TypeOK, NEW r \in PromoteCounts, PromoteFromWaitlist(r)
    PROVE  \E n \in 0..Len(waitlist) :
             /\ count + n <= U32Max /\ count' = count + n
             /\ waitlist' = SubSeq(waitlist, n + 1, Len(waitlist))
             /\ record' = [i \in Identities |-> IF i \in Promoted(n) THEN NewRecord(0, None) ELSE record[i]]
             /\ doubled' = doubled + Cardinality({i \in Promoted(n) : IsEnrolled(i)})
             /\ UNCHANGED <<dup_behavior, now>>
<1>1. Len(waitlist) \in Nat /\ r \in Nat
  BY EnrollmentAssumption, LenProperties DEF TypeOK
<1>2. Taken(r) \in 0..Len(waitlist)
  BY <1>1 DEF Taken
<1>. QED
  BY <1>2 DEF PromoteFromWaitlist, Taken, Promoted

-----------------------------------------------------------------------------
(* Type correctness                                                        *)

\* The empty contract is well typed.
LEMMA InitTypeOK == Init => TypeOK
<1> SUFFICES ASSUME Init PROVE TypeOK
  OBVIOUS
<1>1. waitlist \in Seq(Identities) /\ DOMAIN waitlist = {}
  BY EmptySeq, LenProperties DEF Init
<1>. QED
  BY <1>1, EnrollmentAssumption DEF Init, TypeOK, Behaviors

\* A step that changes one record, for another one that is there, keeps the types.
LEMMA RewriteRecord ==
    ASSUME TypeOK, NEW i \in Identities, NEW r \in EnrollmentRecord,
           record' = [record EXCEPT ![i] = r],
           count' \in 0..U32Max, UNCHANGED <<waitlist, dup_behavior, now, doubled>>
    PROVE  TypeOK'
<1>1. record' \in [Identities -> EnrollmentRecord \cup {NoRecord}]
  BY DEF TypeOK
<1>2. \A n \in DOMAIN waitlist : waitlist[n] \in Identities
  BY ElementOfSeq, LenProperties DEF TypeOK
<1>3. \A n \in DOMAIN waitlist : record'[waitlist[n]] # NoRecord
  BY <1>2, RecordIsThere DEF TypeOK
<1>. QED
  BY <1>1, <1>3 DEF TypeOK

\* Every entry point keeps the types, and the waitlist free of duplicates.
LEMMA NextTypeOK == TypeOK /\ [Next]_vars => TypeOK'
<1> SUFFICES ASSUME TypeOK, [Next]_vars PROVE TypeOK'
  OBVIOUS
<1> USE EnrollmentAssumption
<1>1. CASE Tick
  BY <1>1 DEF Tick, TypeOK
<1>2. ASSUME NEW i \in Identities, NEW e \in Expiries, EnrollFresh(i, e)
      PROVE  TypeOK'
  <2> DEFINE d == IF record[i] = NoRecord THEN 0 ELSE record[i].duplicate_count + 1
  <2>1. d \in 0..U32Max
    BY <1>2 DEF EnrollFresh, TypeOK, EnrollmentRecord
  <2>2. NewRecord(d, e) \in EnrollmentRecord
    BY <2>1, NewRecordFacts
  <2>3. count' \in 0..U32Max
    BY <1>2 DEF EnrollFresh, TypeOK
  <2>. QED
    BY <1>2, <2>2, <2>3, RewriteRecord DEF EnrollFresh
<1>3. ASSUME NEW i \in Identities, EnrollWaitlist(i)
      PROVE  TypeOK'
  <2>1. /\ waitlist \in Seq(Identities) /\ Len(waitlist) \in Nat
        /\ DOMAIN waitlist = 1..Len(waitlist)
    BY LenProperties DEF TypeOK
  <2>2. /\ waitlist' \in Seq(Identities)
        /\ DOMAIN waitlist' = 1..(Len(waitlist) + 1)
        /\ \A n \in 1..Len(waitlist) : waitlist'[n] = waitlist[n]
        /\ waitlist'[Len(waitlist) + 1] = i
    <3>1. waitlist' = Append(waitlist, i)
      BY <1>3 DEF EnrollWaitlist
    <3>2. /\ Append(waitlist, i) \in Seq(Identities)
          /\ Len(Append(waitlist, i)) = Len(waitlist) + 1
          /\ \A j \in 1..Len(waitlist) : Append(waitlist, i)[j] = waitlist[j]
          /\ Append(waitlist, i)[Len(waitlist) + 1] = i
      BY <2>1, AppendProperties
    <3>3. DOMAIN Append(waitlist, i) = 1..(Len(waitlist) + 1)
      BY <3>2, LenProperties
    <3>. QED
      BY <3>1, <3>2, <3>3
  <2>3. \A n \in 1..Len(waitlist) : waitlist[n] # i
    BY <1>3, <2>1 DEF EnrollWaitlist, IsOnWaitlist
  <2>4. \A m, n \in DOMAIN waitlist' : waitlist'[m] = waitlist'[n] => m = n
    <3> SUFFICES ASSUME NEW m \in DOMAIN waitlist', NEW n \in DOMAIN waitlist',
                        waitlist'[m] = waitlist'[n]
                 PROVE  m = n
      OBVIOUS
    <3>1. CASE m \in 1..Len(waitlist) /\ n \in 1..Len(waitlist)
      BY <2>1, <2>2, <3>1 DEF TypeOK
    <3>2. CASE m = Len(waitlist) + 1 \/ n = Len(waitlist) + 1
      <4>1. ASSUME m = Len(waitlist) + 1, n \in 1..Len(waitlist) PROVE FALSE
        BY <4>1, <2>2, <2>3
      <4>2. ASSUME n = Len(waitlist) + 1, m \in 1..Len(waitlist) PROVE FALSE
        BY <4>2, <2>2, <2>3
      <4>. QED
        BY <2>1, <2>2, <3>2, <4>1, <4>2
    <3>. QED
      BY <2>1, <2>2, <3>1, <3>2
  <2>5. \A n \in DOMAIN waitlist' : record'[waitlist'[n]] # NoRecord
    <3>1. record' = record /\ record[i] # NoRecord
      BY <1>3 DEF EnrollWaitlist, IsEnrolled
    <3>2. \A n \in DOMAIN waitlist' : n \in 1..Len(waitlist) \/ n = Len(waitlist) + 1
      BY <2>1, <2>2
    <3>. QED
      BY <2>1, <2>2, <3>1, <3>2 DEF TypeOK
  <2>. QED
    BY <1>3, <2>2, <2>4, <2>5 DEF EnrollWaitlist, TypeOK
<1>4. ASSUME NEW i \in Identities, NEW e \in Expiries, EnrollOverride(i, e)
      PROVE  TypeOK'
  <2>1. record[i] \in EnrollmentRecord
    BY <1>4 DEF EnrollOverride, IsEnrolled, TypeOK
  <2>2. record[i].duplicate_count + 1 \in 0..U32Max
    BY <1>4, <2>1 DEF EnrollOverride, EnrollmentRecord
  <2>3. NewRecord(record[i].duplicate_count + 1, e) \in EnrollmentRecord
    BY <2>2, NewRecordFacts
  <2>4. record' = [record EXCEPT ![i] = NewRecord(record[i].duplicate_count + 1, e)]
    BY <1>4 DEF EnrollOverride, TypeOK
  <2>. QED
    BY <1>4, <2>3, <2>4, RewriteRecord DEF EnrollOverride, TypeOK
<1>5. ASSUME NEW i \in Identities, Cancel(i)
      PROVE  TypeOK'
  <2>1. record[i] \in EnrollmentRecord
    BY <1>5 DEF Cancel, IsEnrolled, TypeOK
  <2>2. [record[i] EXCEPT !.cancelled = TRUE] \in EnrollmentRecord
    BY <2>1 DEF EnrollmentRecord
  <2>3. record' = [record EXCEPT ![i] = [record[i] EXCEPT !.cancelled = TRUE]]
    BY <1>5 DEF Cancel, TypeOK
  <2>4. count' \in 0..U32Max
    BY <1>5 DEF Cancel, TypeOK
  <2>. QED
    BY <1>5, <2>2, <2>3, <2>4, RewriteRecord DEF Cancel
<1>6. ASSUME NEW b \in Behaviors, SetDuplicateBehavior(b)
      PROVE  TypeOK'
  BY <1>6 DEF SetDuplicateBehavior, TypeOK
<1>7. ASSUME NEW i \in Identities, FinalizeEnrollment(i)
      PROVE  TypeOK'
  <2>1. record[i] \in EnrollmentRecord
    BY <1>7 DEF FinalizeEnrollment, IsEnrolled, TypeOK
  <2>2. [record[i] EXCEPT !.finalized = TRUE] \in EnrollmentRecord
    BY <2>1 DEF EnrollmentRecord
  <2>3. record' = [record EXCEPT ![i] = [record[i] EXCEPT !.finalized = TRUE]]
    BY <1>7 DEF FinalizeEnrollment, TypeOK
  <2>. QED
    BY <1>7, <2>2, <2>3, RewriteRecord DEF FinalizeEnrollment, TypeOK
<1>8. ASSUME NEW r \in PromoteCounts, PromoteFromWaitlist(r)
      PROVE  TypeOK'
  <2>1. PICK n \in 0..Len(waitlist) :
             /\ count + n <= U32Max /\ count' = count + n
             /\ waitlist' = SubSeq(waitlist, n + 1, Len(waitlist))
             /\ record' = [i \in Identities |-> IF i \in Promoted(n) THEN NewRecord(0, None) ELSE record[i]]
             /\ doubled' = doubled + Cardinality({i \in Promoted(n) : IsEnrolled(i)})
             /\ UNCHANGED <<dup_behavior, now>>
    BY <1>8, PromoteEffect
  <2>2. /\ waitlist \in Seq(Identities) /\ Len(waitlist) \in Nat
        /\ DOMAIN waitlist = 1..Len(waitlist)
    BY LenProperties DEF TypeOK
  <2>3. /\ waitlist' \in Seq(Identities)
        /\ DOMAIN waitlist' = 1..(Len(waitlist) - n)
        /\ \A m \in 1..(Len(waitlist) - n) : waitlist'[m] = waitlist[n + m]
    BY <2>1, TakeEffect
  <2>4. \A l, m \in DOMAIN waitlist' : waitlist'[l] = waitlist'[m] => l = m
    <3> SUFFICES ASSUME NEW l \in DOMAIN waitlist', NEW m \in DOMAIN waitlist',
                        waitlist'[l] = waitlist'[m]
                 PROVE  l = m
      OBVIOUS
    <3>1. n + l \in DOMAIN waitlist /\ n + m \in DOMAIN waitlist
      BY <2>2, <2>3
    <3>2. n + l = n + m
      BY <2>3, <3>1 DEF TypeOK
    <3>. QED
      BY <2>2, <2>3, <3>2
  <2>5. NewRecord(0, None) \in EnrollmentRecord /\ NewRecord(0, None) # NoRecord
    <3>1. 0 \in 0..U32Max /\ None \in Nat \cup {None}
      OBVIOUS
    <3>. QED
      BY <3>1, NewRecordFacts
  <2>6. \A m \in DOMAIN waitlist' : record'[waitlist'[m]] # NoRecord
    <3> SUFFICES ASSUME NEW m \in DOMAIN waitlist' PROVE record'[waitlist'[m]] # NoRecord
      OBVIOUS
    <3>1. m \in 1..(Len(waitlist) - n)
      BY <2>3
    <3>2. n + m \in DOMAIN waitlist
      BY <2>2, <3>1
    <3>3. waitlist'[m] = waitlist[n + m]
      BY <2>3, <3>1
    <3>4. waitlist[n + m] \in Identities /\ record[waitlist[n + m]] # NoRecord
      BY <2>2, <3>2, ElementOfSeq DEF TypeOK
    <3>. QED
      BY <2>1, <2>5, <3>3, <3>4
  <2>7. record' \in [Identities -> EnrollmentRecord \cup {NoRecord}]
    BY <2>1, <2>5 DEF TypeOK
  <2>8. doubled' \in Nat
    <3>1. {i \in Promoted(n) : IsEnrolled(i)} \in SUBSET Promoted(n)
      OBVIOUS
    <3>2. IsFiniteSet({i \in Promoted(n) : IsEnrolled(i)})
      BY <3>1, PromotedCount, FS_Subset
    <3>3. Cardinality({i \in Promoted(n) : IsEnrolled(i)}) \in Nat
      BY <3>2, FS_CardinalityType
    <3>. QED
      BY <2>1, <3>3 DEF TypeOK
  <2>9. count' \in 0..U32Max
    BY <2>1, <2>2 DEF TypeOK
  <2>. QED
    BY <2>1, <2>3, <2>4, <2>6, <2>7, <2>8, <2>9 DEF TypeOK
<1>9. CASE UNCHANGED vars
  BY <1>9 DEF vars, TypeOK
<1>. QED
  BY <1>1, <1>2, <1>3, <1>4, <1>5, <1>6, <1>7, <1>8, <1>9 DEF Next, Enroll, PromoteSome

\* Every entry stays a value of its type, and through duplicate enrolments,
\* cancellations and promotions the waitlist never holds an identity twice, and only
\* identities that have a record.
THEOREM EnrollmentTypesOK == Spec => []TypeOK
<1>. QED
  BY InitTypeOK, NextTypeOK, PTL DEF Spec

-----------------------------------------------------------------------------
(* The count                                                               *)

\* The enrolled identities are finitely many.
LEMMA EnrolledFinite == IsFiniteSet(Enrolled) /\ Cardinality(Enrolled) \in Nat
<1>1. Enrolled \in SUBSET Identities
  BY DEF Enrolled
<1>. QED
  BY <1>1, EnrollmentAssumption, FS_Subset, FS_CardinalityType

\* Rewriting one record keeps the enrolment of the others.
LEMMA OthersKeepEnrolment ==
    ASSUME TypeOK, NEW i \in Identities, NEW r, record' = [record EXCEPT ![i] = r]
    PROVE  Enrolled' = IF r # NoRecord /\ ~r.cancelled THEN Enrolled \cup {i} ELSE Enrolled \ {i}
<1>1. record'[i] = r /\ \A j \in Identities \ {i} : record'[j] = record[j]
  BY DEF TypeOK
<1>2. \A j \in Identities \ {i} : j \in Enrolled' <=> j \in Enrolled
  BY <1>1 DEF Enrolled, IsEnrolled
<1>3. i \in Enrolled' <=> (r # NoRecord /\ ~r.cancelled)
  BY <1>1 DEF Enrolled, IsEnrolled
<1>4. Enrolled' \subseteq Identities /\ Enrolled \subseteq Identities
  BY DEF Enrolled
<1>. QED
  BY <1>2, <1>3, <1>4

\* One step keeps the balance of the count.
LEMMA NextCountDrift == TypeOK /\ CountDrift /\ [Next]_vars => CountDrift'
<1> SUFFICES ASSUME TypeOK, CountDrift, [Next]_vars PROVE count' = Cardinality(Enrolled') + doubled'
  BY DEF CountDrift, Enrolled
<1> USE EnrollmentAssumption
<1>0. /\ count = Cardinality(Enrolled) + doubled
      /\ IsFiniteSet(Enrolled) /\ Cardinality(Enrolled) \in Nat
      /\ doubled \in Nat /\ count \in Nat
  BY EnrolledFinite DEF CountDrift, Enrolled, TypeOK
<1>1. ASSUME record' = record, count' = count, doubled' = doubled
      PROVE  count' = Cardinality(Enrolled') + doubled'
  <2>1. Enrolled' = Enrolled
    BY <1>1 DEF Enrolled, IsEnrolled
  <2>. QED
    BY <1>0, <1>1, <2>1
<1>2. ASSUME NEW i \in Identities, NEW e \in Expiries, EnrollFresh(i, e)
      PROVE  count' = Cardinality(Enrolled') + doubled'
  <2> DEFINE d == IF record[i] = NoRecord THEN 0 ELSE record[i].duplicate_count + 1
  <2>1. d \in 0..U32Max
    BY <1>2 DEF EnrollFresh, TypeOK, EnrollmentRecord
  <2>2. NewRecord(d, e) # NoRecord /\ ~NewRecord(d, e).cancelled
    BY <2>1, NewRecordFacts
  <2>3. record' = [record EXCEPT ![i] = NewRecord(d, e)] /\ count' = count + 1 /\ doubled' = doubled
    BY <1>2 DEF EnrollFresh
  <2> HIDE DEF d
  <2>4. Enrolled' = Enrolled \cup {i} /\ i \notin Enrolled
    BY <1>2, <2>2, <2>3, OthersKeepEnrolment DEF EnrollFresh, Enrolled
  <2>5. Cardinality(Enrolled') = Cardinality(Enrolled) + 1
    BY <1>0, <2>4, FS_AddElement
  <2>. QED
    BY <1>0, <2>3, <2>5
<1>3. ASSUME NEW i \in Identities, NEW e \in Expiries, EnrollOverride(i, e)
      PROVE  count' = Cardinality(Enrolled') + doubled'
  <2>1. record[i] \in EnrollmentRecord
    BY <1>3 DEF EnrollOverride, IsEnrolled, TypeOK
  <2>2. record[i].duplicate_count + 1 \in 0..U32Max
    BY <1>3, <2>1 DEF EnrollOverride, EnrollmentRecord
  <2> DEFINE new == NewRecord(record[i].duplicate_count + 1, e)
  <2>3. new # NoRecord /\ ~new.cancelled
    BY <2>2, NewRecordFacts
  <2>4. record' = [record EXCEPT ![i] = new] /\ count' = count /\ doubled' = doubled
    BY <1>3 DEF EnrollOverride, TypeOK
  <2> HIDE DEF new
  <2>5. Enrolled' = Enrolled
    BY <1>3, <2>3, <2>4, OthersKeepEnrolment DEF EnrollOverride, Enrolled
  <2>. QED
    BY <1>0, <2>4, <2>5
<1>4. ASSUME NEW i \in Identities, Cancel(i)
      PROVE  count' = Cardinality(Enrolled') + doubled'
  <2> DEFINE new == [record[i] EXCEPT !.cancelled = TRUE]
  <2>1. record' = [record EXCEPT ![i] = new] /\ doubled' = doubled
    BY <1>4 DEF Cancel, TypeOK
  <2>2. record[i] \in EnrollmentRecord /\ i \in Enrolled
    BY <1>4 DEF Cancel, IsEnrolled, TypeOK, Enrolled
  <2>3. new.cancelled
    BY <2>2 DEF EnrollmentRecord
  <2> HIDE DEF new
  <2>4. Enrolled' = Enrolled \ {i}
    BY <2>1, <2>3, OthersKeepEnrolment
  <2>5. Cardinality(Enrolled') = Cardinality(Enrolled) - 1 /\ Cardinality(Enrolled') \in Nat
    BY <1>0, <2>2, <2>4, FS_RemoveElement, FS_CardinalityType
  <2>6. count' = count - 1
    BY <1>0, <1>4, <2>5 DEF Cancel
  <2>. QED
    BY <1>0, <2>1, <2>5, <2>6
<1>5. ASSUME NEW i \in Identities, FinalizeEnrollment(i)
      PROVE  count' = Cardinality(Enrolled') + doubled'
  <2> DEFINE new == [record[i] EXCEPT !.finalized = TRUE]
  <2>1. record' = [record EXCEPT ![i] = new] /\ count' = count /\ doubled' = doubled
    BY <1>5 DEF FinalizeEnrollment, TypeOK
  <2>2. record[i] \in EnrollmentRecord /\ i \in Enrolled /\ ~record[i].cancelled
    BY <1>5 DEF FinalizeEnrollment, IsEnrolled, TypeOK, Enrolled
  <2>3. new \in EnrollmentRecord /\ ~new.cancelled
    BY <2>2 DEF EnrollmentRecord
  <2> HIDE DEF new
  <2>4. new # NoRecord
    BY <2>3, RecordIsThere
  <2>5. Enrolled' = Enrolled \cup {i}
    BY <2>1, <2>3, <2>4, OthersKeepEnrolment
  <2>6. Enrolled' = Enrolled
    BY <2>2, <2>5
  <2>. QED
    BY <1>0, <2>1, <2>6
<1>6. ASSUME NEW r \in PromoteCounts, PromoteFromWaitlist(r)
      PROVE  count' = Cardinality(Enrolled') + doubled'
  <2>1. PICK n \in 0..Len(waitlist) :
             /\ count' = count + n
             /\ record' = [i \in Identities |-> IF i \in Promoted(n) THEN NewRecord(0, None) ELSE record[i]]
             /\ doubled' = doubled + Cardinality({i \in Promoted(n) : IsEnrolled(i)})
    BY <1>6, PromoteEffect
  <2>2. Promoted(n) \subseteq Identities /\ IsFiniteSet(Promoted(n)) /\ Cardinality(Promoted(n)) = n
    BY PromotedCount
  <2>3. NewRecord(0, None) # NoRecord /\ ~NewRecord(0, None).cancelled
    <3>1. 0 \in 0..U32Max /\ None \in Nat \cup {None}
      OBVIOUS
    <3>. QED
      BY <3>1, NewRecordFacts
  <2>4. {i \in Promoted(n) : IsEnrolled(i)} = Enrolled \cap Promoted(n)
    BY <2>2 DEF Enrolled
  <2>5. Enrolled' = Enrolled \cup Promoted(n)
    <3>1. \A i \in Identities : i \in Enrolled' <=> i \in Enrolled \/ i \in Promoted(n)
      BY <2>1, <2>3 DEF Enrolled, IsEnrolled
    <3>2. Enrolled' \subseteq Identities /\ Enrolled \subseteq Identities
      BY DEF Enrolled
    <3>. QED
      BY <2>2, <3>1, <3>2
  <2>6. Cardinality(Enrolled \cup Promoted(n))
            = Cardinality(Enrolled) + Cardinality(Promoted(n)) - Cardinality(Enrolled \cap Promoted(n))
    BY <1>0, <2>2, FS_Union
  <2>7. Cardinality(Enrolled \cap Promoted(n)) \in Nat
    <3>1. IsFiniteSet(Enrolled \cap Promoted(n))
      BY <1>0, FS_Intersection
    <3>. QED
      BY <3>1, FS_CardinalityType
  <2>8. n \in Nat
    BY LenProperties DEF TypeOK
  <2>9. doubled' = doubled + Cardinality(Enrolled \cap Promoted(n))
    BY <2>1, <2>4
  <2>10. Cardinality(Enrolled') = Cardinality(Enrolled) + n - Cardinality(Enrolled \cap Promoted(n))
    BY <2>2, <2>5, <2>6
  <2>. QED
    BY <1>0, <2>1, <2>7, <2>8, <2>9, <2>10
<1>. QED
  BY <1>1, <1>2, <1>3, <1>4, <1>5, <1>6
     DEF Next, Enroll, PromoteSome, Tick, EnrollWaitlist, SetDuplicateBehavior, vars

\* What enrollment_count() counts: the identities enrolled now, and one more for every
\* promotion of an identity that was enrolled already.
THEOREM EnrollmentCountDrift == Spec => []CountDrift
<1>1. Init => CountDrift
  <2> SUFFICES ASSUME Init PROVE CountDrift
    OBVIOUS
  <2>1. {i \in Identities : IsEnrolled(i)} = {}
    BY DEF Init, IsEnrolled, NoRecord
  <2>. QED
    BY <2>1, FS_EmptySet DEF Init, CountDrift
<1>. QED
  BY <1>1, EnrollmentTypesOK, NextCountDrift, PTL DEF Spec

-----------------------------------------------------------------------------
(* Promotion in order                                                      *)

\* One step takes nobody off the waitlist unless it enrols them and everybody ahead.
LEMMA LeaveInOrder ==
    ASSUME TypeOK, [Next]_vars, NEW j \in Identities, IsOnWaitlist(j), ~IsOnWaitlist(j)'
    PROVE  /\ IsEnrolled(j)'
           /\ \A i \in Identities : Ahead(i, j) => ~IsOnWaitlist(i)'
<1> USE EnrollmentAssumption
<1>0. /\ waitlist \in Seq(Identities) /\ Len(waitlist) \in Nat
      /\ DOMAIN waitlist = 1..Len(waitlist)
  BY LenProperties DEF TypeOK
<1>1. waitlist' # waitlist
  BY DEF IsOnWaitlist
<1>2. ~(\E i \in Identities : EnrollWaitlist(i))
  <2> SUFFICES ASSUME NEW i \in Identities, EnrollWaitlist(i) PROVE FALSE
    OBVIOUS
  <2>1. PICK n \in 1..Len(waitlist) : waitlist[n] = j
    BY <1>0 DEF IsOnWaitlist
  <2>2. waitlist' = Append(waitlist, i)
    BY DEF EnrollWaitlist
  <2>3. /\ Append(waitlist, i) \in Seq(Identities)
        /\ Len(Append(waitlist, i)) = Len(waitlist) + 1
        /\ \A m \in 1..Len(waitlist) : Append(waitlist, i)[m] = waitlist[m]
    BY <1>0, AppendProperties
  <2>4. n \in DOMAIN waitlist' /\ waitlist'[n] = j
    BY <1>0, <2>1, <2>2, <2>3, LenProperties
  <2>. QED
    BY <2>4 DEF IsOnWaitlist
<1>3. PICK r \in PromoteCounts : PromoteFromWaitlist(r)
  BY <1>1, <1>2 DEF Next, Enroll, PromoteSome, Tick, EnrollFresh, EnrollOverride, Cancel,
                    SetDuplicateBehavior, FinalizeEnrollment, vars
<1>4. PICK n \in 0..Len(waitlist) :
         /\ waitlist' = SubSeq(waitlist, n + 1, Len(waitlist))
         /\ record' = [i \in Identities |-> IF i \in Promoted(n) THEN NewRecord(0, None) ELSE record[i]]
  BY <1>3, PromoteEffect
<1>5. /\ DOMAIN waitlist' = 1..(Len(waitlist) - n)
      /\ \A m \in 1..(Len(waitlist) - n) : waitlist'[m] = waitlist[n + m]
  BY <1>4, TakeEffect
<1>6. \A m \in DOMAIN waitlist : waitlist[m] = j => m <= n
  <2> SUFFICES ASSUME NEW m \in DOMAIN waitlist, waitlist[m] = j, m > n PROVE FALSE
    BY <1>0
  <2>1. m - n \in 1..(Len(waitlist) - n) /\ n + (m - n) = m
    BY <1>0
  <2>2. m - n \in DOMAIN waitlist' /\ waitlist'[m - n] = j
    BY <1>5, <2>1
  <2>. QED
    BY <2>2 DEF IsOnWaitlist
<1>7. IsEnrolled(j)'
  <2>1. j \in Promoted(n)
    BY <1>0, <1>6 DEF IsOnWaitlist, Promoted
  <2>2. 0 \in 0..U32Max /\ None \in Nat \cup {None}
    OBVIOUS
  <2>3. NewRecord(0, None) # NoRecord /\ ~NewRecord(0, None).cancelled
    BY <2>2, NewRecordFacts
  <2>. QED
    BY <1>4, <2>1, <2>3 DEF IsEnrolled
<1>8. ASSUME NEW i \in Identities, Ahead(i, j), IsOnWaitlist(i)'
      PROVE  FALSE
  <2>1. PICK l, m \in DOMAIN waitlist : l < m /\ waitlist[l] = i /\ waitlist[m] = j
    BY <1>8 DEF Ahead
  <2>2. PICK p \in 1..(Len(waitlist) - n) : waitlist[n + p] = i
    BY <1>5, <1>8 DEF IsOnWaitlist
  <2>3. n + p \in DOMAIN waitlist
    BY <1>0
  <2>4. n + p = l
    BY <2>1, <2>2, <2>3 DEF TypeOK
  <2>5. m <= n
    BY <1>6, <2>1
  <2>. QED
    BY <1>0, <2>1, <2>4, <2>5
<1>. QED
  BY <1>7, <1>8

\* Whoever leaves the waitlist was ahead of all who stay on it, and is enrolled.
THEOREM EnrollmentPromotedInOrder == Spec => PromotedInOrder
<1>1. TypeOK /\ [Next]_vars
        => [\A j \in Identities :
              IsOnWaitlist(j) /\ ~IsOnWaitlist(j)' =>
                 /\ IsEnrolled(j)'
                 /\ \A i \in Identities : Ahead(i, j) => ~IsOnWaitlist(i)']_vars
  BY LeaveInOrder
<1>. QED
  BY <1>1, EnrollmentTypesOK, PTL DEF Spec, PromotedInOrder
=============================================================================
