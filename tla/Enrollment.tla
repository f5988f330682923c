----------------------------- MODULE Enrollment -----------------------------
(***************************************************************************)
(* The lineproof-enrollment contract                                        *)
(* (contracts/lineproof-enrollment/src/lib.rs), for one queue_id: the       *)
(* entries of different queues share only dup_behavior, which any caller    *)
(* may replace at any time (the admin argument is asked to sign and is      *)
(* compared with nothing).  Each entry point is one atomic action.          *)
(* enrolled_at and the hash made of it decide no branch and are left out.   *)
(***************************************************************************)
EXTENDS Integers, Sequences, FiniteSets

CONSTANTS
    Identities,
    Expiries,         \* expires_at tried by enroll: a time, or None
    PromoteCounts,    \* count tried by promote_from_waitlist
    U32Max,           \* largest u32; the release profile traps on overflow
    LastTime          \* last tick of the model's clock

None == -1

ASSUME EnrollmentAssumption ==
    /\ IsFiniteSet(Identities)
    /\ Expiries \subseteq Nat \cup {None}
    /\ PromoteCounts \subseteq Nat
    /\ U32Max \in Nat
    /\ LastTime \in Nat

VARIABLES
    record,        \* ("enrollment", queue, identity), NoRecord when absent
    count,         \* ("enroll_cnt", queue)
    waitlist,      \* ("waitlist", queue): a Vec, first come first
    dup_behavior,  \* "dup_behavior" (Reject when absent)
    now,           \* ledger timestamp
    doubled        \* history: promotions of an identity that was enrolled already

vars == <<record, count, waitlist, dup_behavior, now, doubled>>

Behaviors == {"Reject", "GrantWaitingList", "OverrideExpired"}
EnrollmentRecord == [duplicate_count : 0..U32Max, finalized : BOOLEAN,
                     expires_at : Nat \cup {None}, cancelled : BOOLEAN]
NoRecord == [duplicate_count |-> None, finalized |-> FALSE, expires_at |-> None,
             cancelled |-> TRUE]
NewRecord(duplicates, expires_at) ==
    [duplicate_count |-> duplicates, finalized |-> FALSE, expires_at |-> expires_at,
     cancelled |-> FALSE]

Init ==
    /\ record = [i \in Identities |-> NoRecord]
    /\ count = 0
    /\ waitlist = <<>>
    /\ dup_behavior = "Reject"
    /\ now = 0
    /\ doubled = 0

-----------------------------------------------------------------------------
(* Helpers                                                                 *)

IsEnrolled(i) == record[i] # NoRecord /\ ~record[i].cancelled

IsOnWaitlistMutant(i) == waitlist # <<>> /\ waitlist[1] = i
IsOnWaitlist(i) == \E n \in DOMAIN waitlist : waitlist[n] = i

\* now > expires_at, and never when there is no expiry date
IsExpired(i) == record[i].expires_at # None /\ now > record[i].expires_at

Tick ==
    /\ now < LastTime
    /\ now' = now + 1
    /\ UNCHANGED <<record, count, waitlist, dup_behavior, doubled>>

-----------------------------------------------------------------------------
(* Entry points                                                            *)

\* enroll() of an identity with no record, or with a cancelled one.
EnrollFresh(i, expires_at) ==
    /\ ~IsEnrolled(i)
    /\ count < U32Max
    /\ LET duplicates == IF record[i] = NoRecord THEN 0 ELSE record[i].duplicate_count + 1
       IN  /\ duplicates <= U32Max
           /\ record' = [record EXCEPT ![i] = NewRecord(duplicates, expires_at)]
    /\ count' = count + 1
    /\ UNCHANGED <<waitlist, dup_behavior, now, doubled>>

\* enroll() of an enrolled identity under GrantWaitingList.
EnrollWaitlist(i) ==
    /\ IsEnrolled(i)
    /\ dup_behavior = "GrantWaitingList"
    /\ ~IsOnWaitlist(i)
    /\ waitlist' = Append(waitlist, i)
    /\ UNCHANGED <<record, count, dup_behavior, now, doubled>>

\* enroll() of an enrolled identity under OverrideExpired.
EnrollOverride(i, expires_at) ==
    /\ IsEnrolled(i)
    /\ dup_behavior = "OverrideExpired"
    /\ IsExpired(i)
    /\ record[i].duplicate_count < U32Max
    /\ record' = [record EXCEPT ![i] = NewRecord(@.duplicate_count + 1, expires_at)]
    /\ UNCHANGED <<count, waitlist, dup_behavior, now, doubled>>

\* Under Reject the enrolment of an enrolled identity panics.
Enroll(i, expires_at) ==
    \/ EnrollFresh(i, expires_at)
    \/ EnrollWaitlist(i)
    \/ EnrollOverride(i, expires_at)

\* Neither `finalized' nor the waitlist is looked at.
CancelMutant(i) ==
    /\ record[i] # NoRecord
    /\ record' = [record EXCEPT ![i].cancelled = TRUE]
    /\ count' = count - 1
    /\ UNCHANGED <<waitlist, dup_behavior, now, doubled>>
Cancel(i) ==
    /\ IsEnrolled(i)
    /\ record' = [record EXCEPT ![i].cancelled = TRUE]
    /\ count' = IF count > 0 THEN count - 1 ELSE count
    /\ UNCHANGED <<waitlist, dup_behavior, now, doubled>>

SetDuplicateBehavior(behavior) ==
    /\ dup_behavior' = behavior
    /\ UNCHANGED <<record, count, waitlist, now, doubled>>

FinalizeEnrollment(i) ==
    /\ IsEnrolled(i)
    /\ ~record[i].finalized
    /\ record' = [record EXCEPT ![i].finalized = TRUE]
    /\ UNCHANGED <<count, waitlist, dup_behavior, now, doubled>>

\* The first n waiting identities get a new record and a place in the count, also
\* those that hold a record, and those that cancelled theirs while waiting.
PromoteFromWaitlistMutant(requested) ==
    LET n        == IF requested <= Len(waitlist) THEN requested ELSE Len(waitlist)
        kept     == Len(waitlist) - n
        promoted == {waitlist[m] : m \in (kept + 1)..Len(waitlist)}
    IN  /\ count + n <= U32Max
        /\ waitlist' = SubSeq(waitlist, 1, kept)
        /\ record' = [i \in Identities |->
                        IF i \in promoted THEN NewRecord(0, None) ELSE record[i]]
        /\ count' = count + n
        /\ doubled' = doubled + Cardinality({i \in promoted : IsEnrolled(i)})
        /\ UNCHANGED <<dup_behavior, now>>
PromoteFromWaitlist(requested) ==
    LET n        == IF requested <= Len(waitlist) THEN requested ELSE Len(waitlist)
        promoted == {waitlist[m] : m \in 1..n}
    IN  /\ count + n <= U32Max
        /\ waitlist' = SubSeq(waitlist, n + 1, Len(waitlist))
        /\ record' = [i \in Identities |->
                        IF i \in promoted THEN NewRecord(0, None) ELSE record[i]]
        /\ count' = count + n
        /\ doubled' = doubled + Cardinality({i \in promoted : IsEnrolled(i)})
        /\ UNCHANGED <<dup_behavior, now>>

PromoteSome == \E n \in PromoteCounts : PromoteFromWaitlist(n)

Next ==
    \/ Tick
    \/ \E i \in Identities, e \in Expiries : Enroll(i, e)
    \/ \E i \in Identities : Cancel(i)
    \/ \E b \in Behaviors : SetDuplicateBehavior(b)
    \/ \E i \in Identities : FinalizeEnrollment(i)
    \/ PromoteSome

Spec == Init /\ [][Next]_vars

\* An operator who keeps promoting; identities and the clock owe nothing.
FairSpec == Spec /\ WF_vars(PromoteSome)

-----------------------------------------------------------------------------
(* Properties                                                              *)

\* Every storage entry holds a value of its declared type; the waitlist never holds
\* an identity twice, through duplicate enrolments, cancellations and promotions, and
\* only holds identities that have a record.
TypeOK ==
    /\ record \in [Identities -> EnrollmentRecord \cup {NoRecord}]
    /\ count \in 0..U32Max
    /\ waitlist \in Seq(Identities)
    /\ \A m, n \in DOMAIN waitlist : waitlist[m] = waitlist[n] => m = n
    /\ \A n \in DOMAIN waitlist : record[waitlist[n]] # NoRecord
    /\ dup_behavior \in Behaviors
    /\ now \in 0..LastTime
    /\ doubled \in Nat

\* What enrollment_count() really counts: the identities enrolled now, plus one for
\* every promotion of an identity that was enrolled already, which no cancellation
\* ever takes back.  So it never falls short, and the `count > 0' test never fails.
CountDrift ==
    count = Cardinality({i \in Identities : IsEnrolled(i)}) + doubled

\* Whoever leaves the waitlist was ahead of all who stay, and is enrolled.
Ahead(i, j) == \E m, n \in DOMAIN waitlist : m < n /\ waitlist[m] = i /\ waitlist[n] = j
PromotedInOrder ==
    [][\A j \in Identities :
         IsOnWaitlist(j) /\ ~IsOnWaitlist(j)' =>
            /\ IsEnrolled(j)'
            /\ \A i \in Identities : Ahead(i, j) => ~IsOnWaitlist(i)']_vars

\* As long as the operator keeps promoting, nobody waits for ever, unless the
\* enrolment count is exhausted.
EventuallyPromoted ==
    \A i \in Identities : IsOnWaitlist(i) ~> (~IsOnWaitlist(i) \/ count = U32Max)

\* Finalisation locks an enrolment record for good.
FinalizedIsPermanent ==
    [][\A i \in Identities :
         IsEnrolled(i) /\ record[i].finalized => record'[i].finalized]_vars
=============================================================================
