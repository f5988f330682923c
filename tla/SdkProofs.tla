----------------------------- MODULE SdkProofs -----------------------------
(***************************************************************************)
(* Proofs about the SDK's transaction client, for every set of submissions  *)
(* and every limit of retries and polls.  First the steps of the client are *)
(* brought into a few forms: a step of one attempt, the beginning of one,   *)
(* the answer or the failure of a getAccount request, a poll.  Then each    *)
(* form is shown to keep each part of the invariant, and of another for a   *)
(* submission that has the client to itself.                                *)
(***************************************************************************)
EXTENDS SdkSubmit, DataLemmas

AttemptPcs == {"fetch", "prepare", "send", "answer", "over"}
CallPcs == {"idle", "race", "refetch", "sleep", "confirm", "done", "failed"}
AttemptType == [pc : AttemptPcs, seq : Int, epoch : Nat, answer : Answers,
                taken : BOOLEAN, applied : BOOLEAN, lost : BOOLEAN]
CallType == [pc : CallPcs, polls : Nat]
Waiter == Ops \X Nat
FetchType == [open : BOOLEAN, lo : Nat, waiters : Seq(Waiter)]

\* One element of one of several vectors is replaced, or one is appended.
Put(A, o, k, x) == [A EXCEPT ![o] = [A[o] EXCEPT ![k] = x]]
Push(A, o, x) == [A EXCEPT ![o] = Append(A[o], x)]
Replaced(A, Z, o, k, x) ==
    \A p \in Ops : /\ Len(Z[p]) = Len(A[p])
                   /\ \A j \in 1..Len(A[p]) : Z[p][j] = IF p = o /\ j = k THEN x ELSE A[p][j]
Appended(A, Z, o, x) ==
    /\ Len(Z[o]) = Len(A[o]) + 1 /\ Z[o][Len(A[o]) + 1] = x
    /\ \A p \in Ops : p # o => Z[p] = A[p]
    /\ \A j \in 1..Len(A[o]) : Z[o][j] = A[o][j]

\* Replacing one element leaves vectors of the same lengths, and the others alone.
LEMMA ReplaceOne ==
    ASSUME NEW S, NEW A \in [Ops -> Seq(S)], NEW o \in Ops, NEW k \in 1..Len(A[o]), NEW x \in S
    PROVE  Put(A, o, k, x) \in [Ops -> Seq(S)] /\ Replaced(A, Put(A, o, k, x), o, k, x)
<1> DEFINE y == [A[o] EXCEPT ![k] = x]
           Z == Put(A, o, k, x)
<1>1. y \in Seq(S) /\ Len(y) = Len(A[o]) /\ \A j \in 1..Len(A[o]) : y[j] = IF j = k THEN x ELSE A[o][j]
  <2>1. A[o] \in Seq(S)
    OBVIOUS
  <2>. QED BY <2>1
<1>2. Z = [A EXCEPT ![o] = y]
  BY DEF Put
<1> HIDE DEF y, Z
<1>3. Z[o] = y /\ \A p \in Ops : p # o => Z[p] = A[p]
  BY <1>2
<1>. QED BY <1>1, <1>2, <1>3 DEF Replaced, Z

\* Appending one leaves the elements that were there, and the other vectors, alone.
LEMMA AppendOne ==
    ASSUME NEW S, NEW A \in [Ops -> Seq(S)], NEW o \in Ops, NEW x \in S
    PROVE  Push(A, o, x) \in [Ops -> Seq(S)] /\ Appended(A, Push(A, o, x), o, x)
<1> DEFINE y == Append(A[o], x)
           Z == Push(A, o, x)
<1>1. y \in Seq(S) /\ Len(y) = Len(A[o]) + 1 /\ y[Len(A[o]) + 1] = x
      /\ \A j \in 1..Len(A[o]) : y[j] = A[o][j]
  <2>1. A[o] \in Seq(S)
    OBVIOUS
  <2>. QED BY <2>1
<1>2. Z = [A EXCEPT ![o] = y]
  BY DEF Push
<1> HIDE DEF y, Z
<1>3. Z[o] = y /\ \A p \in Ops : p # o => Z[p] = A[p]
  BY <1>2
<1>. QED BY <1>1, <1>2, <1>3 DEF Appended, Z

\* The types of the state; a submission has attempts once it has begun.
SdkType ==
    /\ cache \in Int /\ cache >= NoSeq /\ epoch \in Nat /\ chain \in Nat
    /\ fetches \in Seq(FetchType) /\ inflight \in 0..Len(fetches)
    /\ att \in [Ops -> Seq(AttemptType)]
    /\ call \in [Ops -> CallType]
    /\ \A o \in Ops : call[o].pc = "idle" <=> Len(att[o]) = 0
    /\ \A t \in pool : t[1] \in Ops /\ t[2] \in 1..Len(att[t[1]])

\* What happens to an attempt y on its way through prepare, send and answer, until it is x.
Moves(y, x) ==
    /\ x \in AttemptType /\ x.seq = y.seq /\ x.epoch = y.epoch
    /\ y.lost => x.lost
    /\ x.pc = "fetch" <=> y.pc = "fetch"
    /\ y.pc = "over" => x.pc = "over"
    /\ \/ /\ x.taken = y.taken /\ x.answer = y.answer
          /\ x.pc = y.pc \/ x.pc = "over" \/ (y.pc = "prepare" /\ x.pc = "send")
       \/ y.pc = "send" /\ x.pc = "answer" /\ (x.taken => x.answer = "PENDING")

\* The catch block: the call fails, sleeps, or asks for the account anew.
Caught(o) ==
    \/ /\ \E c \in {"failed", "sleep"} : call' = [call EXCEPT ![o].pc = c]
       /\ UNCHANGED <<cache, fetches, inflight>>
    \/ /\ call' = [call EXCEPT ![o].pc = "refetch"]
       /\ cache' = NoSeq
       /\ fetches' = Append(fetches, [open |-> TRUE, lo |-> chain, waiters |-> <<<<o, 0>>>>])
       /\ inflight' = Len(fetches) + 1

\* What an attempt's step does to its call: nothing, if the call does not wait for it.
Reports(o, k, x) ==
    \/ UNCHANGED <<call, cache, fetches, inflight>>
    \/ /\ Raced(o, k)
       /\ call' = [call EXCEPT ![o].pc = "confirm"]
       /\ UNCHANGED <<cache, fetches, inflight>>
    \/ Raced(o, k) /\ (x.lost \/ (x.pc = "over" /\ ~x.taken)) /\ Caught(o)

\* Where attempt x got its answer from, when the account changes, and after which errors
\* the call sleeps at once.
Details(o, k, x) ==
    /\ x.answer = "bad_seq" /\ att[o][k].answer # "bad_seq" => att[o][k].seq # chain + 1
    /\ \/ chain' = chain /\ (pool' = pool \/ x.taken)
       \/ pool # {} /\ x.taken = att[o][k].taken
    /\ call'[o].pc = "sleep" =>
          call[o].pc = "sleep" \/ x.lost \/ att[o][k].pc = "prepare" \/ x.answer # "bad_seq"

\* A step of one attempt.
AttemptStep(o, k) ==
    /\ epoch' = epoch /\ chain' \in Nat
    /\ k \in 1..Len(att[o])
    /\ att' \in [Ops -> Seq(AttemptType)]
    /\ \E x : Moves(att[o][k], x) /\ Replaced(att, att', o, k, x) /\ Reports(o, k, x) /\ Details(o, k, x)
    /\ \A t \in pool' : t \in pool \/ t = <<o, k>>

\* The catch block of withRetry, whatever the class of the error.
LEMMA HandleErrorCaught ==
    ASSUME NEW o \in Ops, NEW e, HandleError(o, e)
    PROVE  Caught(o)
BY DEF HandleError, Refetch, AskAccount, Caught, NoFetch

\* An attempt that throws is one that is over without being taken, or that got lost.
LEMMA ThrowsReports ==
    ASSUME NEW o \in Ops, NEW k, NEW e, Throws(o, k, e), NEW x, x.lost \/ (x.pc = "over" /\ ~x.taken)
    PROVE  Reports(o, k, x)
BY HandleErrorCaught DEF Throws, Reports

\* After a tx_bad_seq the call does not sleep before the account was read again.
LEMMA BadSeqRefetches ==
    ASSUME SdkType, NEW o \in Ops, NEW k, Throws(o, k, BadSeq), call'[o].pc = "sleep"
    PROVE  call[o].pc = "sleep"
<1>1. ClassifyError(BadSeq) = "RETRYABLE_SEQUENCE"
  BY DEF ClassifyError, ClassifyMessage, BadSeq, NoError
<1>2. CASE Raced(o, k)
  <2>1. call' = [call EXCEPT ![o].pc = "failed"] \/ call' = [call EXCEPT ![o].pc = "refetch"]
    BY <1>1, <1>2 DEF Throws, HandleError, Refetch
  <2>2. PICK C \in [Ops -> CallType] : C = call
    BY DEF SdkType
  <2>3. PICK y \in CallType : y = C[o]
    OBVIOUS
  <2>4. call' = [C EXCEPT ![o] = [y EXCEPT !.pc = "failed"]] \/ call' = [C EXCEPT ![o] = [y EXCEPT !.pc = "refetch"]]
    BY <2>1, <2>2, <2>3
  <2>5. [y EXCEPT !.pc = "failed"].pc = "failed" /\ [y EXCEPT !.pc = "refetch"].pc = "refetch"
    BY DEF CallType
  <2>. QED BY <2>4, <2>5
<1>3. CASE ~Raced(o, k)
  BY <1>3 DEF Throws
<1>. QED BY <1>2, <1>3

\* The fields of an attempt after each of the steps.
LEMMA AttemptFields ==
    ASSUME NEW y \in AttemptType
    PROVE  /\ Moves(y, [y EXCEPT !.lost = TRUE]) /\ [y EXCEPT !.lost = TRUE].lost
           /\ Moves(y, [y EXCEPT !.applied = TRUE])
           /\ y.pc = "prepare" => Moves(y, [y EXCEPT !.pc = "send"])
           /\ y.pc # "fetch" => /\ Moves(y, [y EXCEPT !.pc = "over"])
                                /\ [y EXCEPT !.pc = "over"].pc = "over"
                                /\ [y EXCEPT !.pc = "over"].taken = y.taken
                                /\ Moves(y, [y EXCEPT !.pc = "over", !.lost = TRUE])
                                /\ [y EXCEPT !.pc = "over", !.lost = TRUE].lost
<1>1. Moves(y, [y EXCEPT !.lost = TRUE]) /\ [y EXCEPT !.lost = TRUE].lost
  BY DEF AttemptType, Moves
<1>2. Moves(y, [y EXCEPT !.applied = TRUE])
  BY DEF AttemptType, Moves
<1>3. ASSUME y.pc = "prepare" PROVE Moves(y, [y EXCEPT !.pc = "send"])
  BY <1>3 DEF AttemptType, AttemptPcs, Moves
<1>4. ASSUME y.pc # "fetch"
      PROVE  /\ Moves(y, [y EXCEPT !.pc = "over"])
             /\ [y EXCEPT !.pc = "over"].pc = "over"
             /\ [y EXCEPT !.pc = "over"].taken = y.taken
  BY <1>4 DEF AttemptType, AttemptPcs, Moves
<1>5. ASSUME y.pc # "fetch"
      PROVE  /\ Moves(y, [y EXCEPT !.pc = "over", !.lost = TRUE])
             /\ [y EXCEPT !.pc = "over", !.lost = TRUE].lost
  BY <1>5 DEF AttemptType, AttemptPcs, Moves
<1>. QED BY <1>1, <1>2, <1>3, <1>4, <1>5

\* The fields of an attempt the server has looked at.
LEMMA VerdictFields ==
    ASSUME NEW y \in AttemptType, y.pc = "send", NEW v \in Answers
    PROVE  /\ Moves(y, [y EXCEPT !.pc = "answer", !.answer = v, !.taken = (v = "PENDING")])
           /\ [y EXCEPT !.pc = "answer", !.answer = v, !.taken = (v = "PENDING")].answer = v
           /\ [y EXCEPT !.pc = "answer", !.answer = v, !.taken = (v = "PENDING")].taken = (v = "PENDING")
<1>1. PICK b \in BOOLEAN : b = (v = "PENDING")
  OBVIOUS
<1>2. PICK z \in AttemptType : z = [y EXCEPT !.pc = "answer", !.answer = v]
  BY DEF AttemptType, AttemptPcs
<1>3. z.seq = y.seq /\ z.epoch = y.epoch /\ z.lost = y.lost /\ z.pc = "answer" /\ z.answer = v
  BY <1>2 DEF AttemptType
<1> DEFINE x == [z EXCEPT !.taken = b]
<1>4. x \in AttemptType
  BY DEF AttemptType
<1>5. x.seq = z.seq /\ x.epoch = z.epoch /\ x.lost = z.lost /\ x.pc = z.pc /\ x.answer = z.answer /\ x.taken = b
  BY DEF AttemptType
<1>6. [y EXCEPT !.pc = "answer", !.answer = v, !.taken = (v = "PENDING")] = x
  BY <1>1, <1>2
<1> HIDE DEF x
<1>7. Moves(y, x) /\ x.answer = v /\ x.taken = (v = "PENDING")
  BY <1>1, <1>3, <1>4, <1>5 DEF Moves
<1>. QED BY <1>6, <1>7

\* A step that replaces one attempt by one it may move to is a step of that attempt.
LEMMA AttemptPut ==
    ASSUME SdkType, NEW o \in Ops, NEW k \in 1..Len(att[o]), NEW x, Moves(att[o][k], x),
           att' = [att EXCEPT ![o] = [att[o] EXCEPT ![k] = x]],
           epoch' = epoch, chain' \in Nat, Reports(o, k, x), Details(o, k, x),
           \A t \in pool' : t \in pool \/ t = <<o, k>>
    PROVE  AttemptStep(o, k)
<1>1. x \in AttemptType
  BY DEF Moves
<1>2. PICK A \in [Ops -> Seq(AttemptType)] : A = att
  BY DEF SdkType
<1>3. att' = Put(A, o, k, x) /\ k \in 1..Len(A[o])
  BY <1>2 DEF Put
<1>4. Put(A, o, k, x) \in [Ops -> Seq(AttemptType)] /\ Replaced(A, Put(A, o, k, x), o, k, x)
  BY <1>1, <1>3, ReplaceOne
<1>. QED BY <1>2, <1>3, <1>4 DEF AttemptStep

\* A timer that fires, and a ledger that closes, each change one attempt, too.
LEMMA TimeoutStep ==
    ASSUME SdkType, NEW o \in Ops, Timeout(o)
    PROVE  \E k \in 1..Len(att[o]) : AttemptStep(o, k)
<1>1. PICK k \in 1..Len(att[o]) : k = Tries(o)
  <2>1. Len(att[o]) \in Nat
    BY DEF SdkType
  <2>2. Len(att[o]) # 0
    BY DEF SdkType, Timeout
  <2>. QED BY <2>1, <2>2 DEF Tries
<1>2. PICK y \in AttemptType : y = att[o][k]
  BY DEF SdkType
<1> DEFINE x == [y EXCEPT !.lost = TRUE]
<1>3. /\ att' = [att EXCEPT ![o] = [att[o] EXCEPT ![k] = x]]
      /\ HandleError(o, TimedOut) /\ UNCHANGED <<epoch, chain, pool>> /\ Raced(o, k)
  BY <1>1, <1>2 DEF Timeout, Raced
<1>4. Moves(y, x) /\ x.lost
  BY AttemptFields
<1> HIDE DEF x
<1>5. Reports(o, k, x)
  BY <1>3, <1>4, HandleErrorCaught DEF Reports
<1>6. Moves(att[o][k], x) /\ chain' \in Nat
  BY <1>2, <1>3, <1>4 DEF SdkType
<1>7. Details(o, k, x)
  <2>1. x.answer = y.answer
    BY DEF x, AttemptType
  <2>. QED BY <1>2, <1>3, <1>4, <2>1 DEF Details
<1>8. AttemptStep(o, k)
  BY <1>3, <1>5, <1>6, <1>7, AttemptPut
<1>. QED BY <1>8

\* A ledger that closes marks the attempt it applied.
LEMMA LedgerStep ==
    ASSUME SdkType, LedgerCloses
    PROVE  \E o \in Ops : \E k \in 1..Len(att[o]) : AttemptStep(o, k)
<1>1. PICK t \in pool :
        /\ chain' = chain + 1 /\ pool' = {}
        /\ att' = [att EXCEPT ![t[1]][t[2]].applied = TRUE]
        /\ UNCHANGED <<cache, fetches, inflight, epoch, call>>
  BY DEF LedgerCloses
<1>2. PICK o \in Ops : o = t[1]
  BY DEF SdkType
<1>3. PICK k \in 1..Len(att[o]) : k = t[2]
  BY <1>2 DEF SdkType
<1>4. PICK y \in AttemptType : y = att[o][k]
  BY DEF SdkType
<1> DEFINE x == [y EXCEPT !.applied = TRUE]
<1>5. att' = [att EXCEPT ![o] = [att[o] EXCEPT ![k] = x]]
  BY <1>1, <1>2, <1>3, <1>4
<1>6. Moves(y, x)
  BY AttemptFields
<1> HIDE DEF x
<1>7. Moves(att[o][k], x) /\ chain' \in Nat /\ Reports(o, k, x) /\ epoch' = epoch
  BY <1>1, <1>4, <1>6 DEF SdkType, Reports
<1>8. \A u \in pool' : u \in pool \/ u = <<o, k>>
  BY <1>1
<1>9. Details(o, k, x)
  <2>1. x.answer = y.answer /\ x.taken = y.taken
    BY DEF x, AttemptType
  <2>. QED BY <1>1, <1>4, <2>1 DEF Details
<1>10. AttemptStep(o, k)
  BY <1>5, <1>7, <1>8, <1>9, AttemptPut
<1>. QED BY <1>10

\* The steps of the attempts are steps of that kind.
LEMMA AttemptSteps ==
    ASSUME SdkType, NEW o \in Ops, NEW k \in Attempts,
           \/ Prepared(o, k)
           \/ \E e \in {NetworkError, Malformed} : PrepareFails(o, k, e)
           \/ \E v \in Answers : RpcReceives(o, k, v)
           \/ SendAnswered(o, k)
           \/ SendFails(o, k),
           att[o][k].taken => att[o][k].answer = "PENDING" /\ att[o][k].pc \in {"answer", "over"}
    PROVE  AttemptStep(o, k)
<1>0. k \in 1..Len(att[o])
  <2>1. \E pc : <<o, k>> \in Live(pc)
    BY DEF Prepared, PrepareFails, RpcReceives, SendAnswered, SendFails
  <2>2. k <= Len(att[o])
    BY <2>1 DEF Live, Tries
  <2>3. k \in Nat /\ k >= 1 /\ Len(att[o]) \in Nat
    BY SdkAssumption DEF Attempts, SdkType
  <2>. QED BY <2>2, <2>3
<1>1. PICK y \in AttemptType : y = att[o][k]
  <2>1. att[o] \in Seq(AttemptType)
    BY DEF SdkType
  <2>. QED BY <2>1, <1>0
<1>2. ASSUME NEW x, Moves(y, x), att' = [att EXCEPT ![o] = [att[o] EXCEPT ![k] = x]],
             epoch' = epoch, chain' = chain, Reports(o, k, x), Details(o, k, x),
             \A t \in pool' : t \in pool \/ t = <<o, k>>
      PROVE  AttemptStep(o, k)
  <2>1. Moves(att[o][k], x) /\ chain' \in Nat
    BY <1>1, <1>2 DEF SdkType
  <2>. QED BY <1>0, <1>2, <2>1, AttemptPut
<1>3. CASE Prepared(o, k)
  <2> DEFINE x == [y EXCEPT !.pc = "send"]
  <2>1. /\ y.pc = "prepare" /\ att' = [att EXCEPT ![o] = [att[o] EXCEPT ![k] = x]]
        /\ UNCHANGED <<cache, fetches, inflight, epoch, call, chain, pool>>
    BY <1>1, <1>3 DEF Prepared, Live
  <2>2. Moves(y, x) /\ x.answer = y.answer
    BY <2>1, AttemptFields DEF AttemptType
  <2> HIDE DEF x
  <2>3. Details(o, k, x)
    BY <1>1, <2>1, <2>2 DEF Details
  <2>. QED BY <1>2, <2>1, <2>2, <2>3 DEF Reports
<1>4. ASSUME NEW e, PrepareFails(o, k, e) PROVE AttemptStep(o, k)
  <2> DEFINE x == [y EXCEPT !.pc = "over"]
  <2>1. /\ y.pc = "prepare" /\ att' = [att EXCEPT ![o] = [att[o] EXCEPT ![k] = x]]
        /\ Throws(o, k, e) /\ UNCHANGED <<epoch, chain, pool>>
    BY <1>1, <1>4 DEF PrepareFails, Live
  <2>2. Moves(y, x) /\ x.pc = "over" /\ x.taken = y.taken /\ ~y.taken /\ x.answer = y.answer
    BY <1>1, <2>1, AttemptFields DEF AttemptType
  <2> HIDE DEF x
  <2>3. Reports(o, k, x)
    BY <2>1, <2>2, ThrowsReports
  <2>4. Details(o, k, x)
    BY <1>1, <2>1, <2>2 DEF Details
  <2>. QED BY <1>2, <2>1, <2>2, <2>3, <2>4
<1>5. ASSUME NEW v \in Answers, RpcReceives(o, k, v) PROVE AttemptStep(o, k)
  <2> DEFINE x == [y EXCEPT !.pc = "answer", !.answer = v, !.taken = (v = "PENDING")]
  <2>1. /\ y.pc = "send" /\ att' = [att EXCEPT ![o] = [att[o] EXCEPT ![k] = x]]
        /\ UNCHANGED <<cache, fetches, inflight, epoch, call, chain>>
        /\ pool' = IF v = "PENDING" THEN {<<o, k>>} ELSE pool
    BY <1>1, <1>5 DEF RpcReceives, Live
  <2>2. Moves(y, x) /\ x.answer = v /\ x.taken = (v = "PENDING")
    BY <2>1, VerdictFields
  <2>3. v = "bad_seq" => y.seq # chain + 1
    BY <1>1, <1>5 DEF RpcReceives
  <2> HIDE DEF x
  <2>4. Details(o, k, x)
    BY <1>1, <2>1, <2>2, <2>3 DEF Details
  <2>. QED BY <1>2, <2>1, <2>2, <2>4 DEF Reports
<1>6. CASE SendAnswered(o, k)
  <2> DEFINE x == [y EXCEPT !.pc = "over"]
  <2>1. /\ y.pc = "answer" /\ att' = [att EXCEPT ![o] = [att[o] EXCEPT ![k] = x]]
        /\ UNCHANGED <<epoch, chain, pool>>
    BY <1>1, <1>6 DEF SendAnswered, Live
  <2>2. Moves(y, x) /\ x.pc = "over" /\ x.taken = y.taken /\ x.answer = y.answer
    BY <1>1, <2>1, AttemptFields DEF AttemptType
  <2> HIDE DEF x
  <2>5. Details(o, k, x)
    <3>1. y.answer = "bad_seq" => Throws(o, k, BadSeq)
      BY <1>1, <1>6 DEF SendAnswered
    <3>2. call'[o].pc = "sleep" /\ y.answer = "bad_seq" => call[o].pc = "sleep"
      BY <3>1, BadSeqRefetches
    <3>. QED BY <1>1, <2>1, <2>2, <3>2 DEF Details
  <2>3. CASE y.answer \in {"bad_seq", "bad_auth"}
    <3>1. ~y.taken /\ \E e : Throws(o, k, e)
      BY <1>1, <1>6, <2>3 DEF SendAnswered
    <3>2. Reports(o, k, x)
      BY <2>2, <3>1, ThrowsReports
    <3>. QED BY <1>2, <2>1, <2>2, <2>5, <3>2
  <2>4. CASE y.answer \notin {"bad_seq", "bad_auth"}
    <3>1. /\ call' = IF Raced(o, k) THEN [call EXCEPT ![o].pc = "confirm"] ELSE call
          /\ UNCHANGED <<cache, fetches, inflight>>
      BY <1>1, <1>6, <2>4 DEF SendAnswered
    <3>2. Reports(o, k, x)
      BY <3>1 DEF Reports
    <3>. QED BY <1>2, <2>1, <2>2, <2>5, <3>2
  <2>. QED BY <2>3, <2>4
<1>7. CASE SendFails(o, k)
  <2> DEFINE x == [y EXCEPT !.pc = "over", !.lost = TRUE]
  <2>1. /\ y.pc \in {"send", "answer"} /\ att' = [att EXCEPT ![o] = [att[o] EXCEPT ![k] = x]]
        /\ Throws(o, k, NetworkError) /\ UNCHANGED <<epoch, chain, pool>>
    BY <1>1, <1>7 DEF SendFails, Live
  <2>2. Moves(y, x) /\ x.lost /\ x.answer = y.answer
    BY <2>1, AttemptFields DEF AttemptType
  <2> HIDE DEF x
  <2>3. Reports(o, k, x)
    BY <2>1, <2>2, ThrowsReports
  <2>4. Details(o, k, x)
    BY <1>1, <2>1, <2>2 DEF Details
  <2>. QED BY <1>2, <2>1, <2>2, <2>3, <2>4
<1>. QED BY <1>3, <1>4, <1>5, <1>6, <1>7

\* A new attempt, its number reserved or not.
Reserved(y, c, n) == [y EXCEPT !.pc = "prepare", !.seq = c + 1, !.epoch = n]

\* Its fields.
LEMMA ReservedFields ==
    ASSUME NEW y \in AttemptType, NEW c \in Int, NEW n \in Nat
    PROVE  /\ Reserved(y, c, n) \in AttemptType
           /\ Reserved(y, c, n).pc = "prepare"
           /\ Reserved(y, c, n).seq = c + 1
           /\ Reserved(y, c, n).epoch = n
           /\ Reserved(y, c, n).taken = y.taken
           /\ Reserved(y, c, n).answer = y.answer
           /\ Reserved(y, c, n).lost = y.lost
<1>1. PICK d \in Int : d = c + 1
  OBVIOUS
<1>2. PICK z \in AttemptType : z = [y EXCEPT !.pc = "prepare"]
  BY DEF AttemptType, AttemptPcs
<1>3. PICK u \in AttemptType : u = [z EXCEPT !.seq = d]
  BY DEF AttemptType
<1> DEFINE x == [u EXCEPT !.epoch = n]
<1>4. x \in AttemptType
  BY DEF AttemptType
<1>5. z.pc = "prepare" /\ z.taken = y.taken /\ z.answer = y.answer /\ z.lost = y.lost
  BY <1>2 DEF AttemptType
<1>6. u.pc = z.pc /\ u.seq = d /\ u.taken = z.taken /\ u.answer = z.answer /\ u.lost = z.lost
  BY <1>3 DEF AttemptType
<1>7. x.pc = u.pc /\ x.seq = u.seq /\ x.epoch = n /\ x.taken = u.taken /\ x.answer = u.answer /\ x.lost = u.lost
  BY DEF AttemptType
<1>8. Reserved(y, c, n) = x
  BY <1>1, <1>2, <1>3 DEF Reserved
<1> HIDE DEF x
<1>. QED BY <1>1, <1>4, <1>5, <1>6, <1>7, <1>8

\* A new attempt has no number, and nothing happened to it.
LEMMA NewAttemptFields ==
    /\ NewAttempt \in AttemptType /\ NewAttempt.pc = "fetch" /\ NewAttempt.seq = NoSeq
    /\ ~NewAttempt.taken /\ ~NewAttempt.lost /\ NewAttempt.answer = "none"
BY DEF NewAttempt, AttemptType, AttemptPcs, Answers, NoSeq

\* Whether a number was reserved for attempt x from a cache that held c.
Numbered(x, c, n) == x.pc = "prepare" /\ x.seq = c + 1 /\ x.epoch = n

\* What the beginning of an attempt does.
Begins(o) ==
    /\ UNCHANGED <<epoch, chain, pool>>
    /\ call' = [call EXCEPT ![o].pc = "race"]
    /\ att' \in [Ops -> Seq(AttemptType)]
    /\ \E x \in AttemptType :
          /\ Appended(att, att', o, x) /\ ~x.taken /\ ~x.lost /\ x.answer = "none"
          /\ \/ /\ cache # NoSeq /\ Numbered(x, cache, epoch)
                /\ cache' = cache + 1 /\ UNCHANGED <<fetches, inflight>>
             \/ /\ cache = NoSeq /\ x = NewAttempt /\ cache' = cache
                /\ AskAccount(<<o, Len(att[o]) + 1>>, inflight, fetches)

\* submitFn() starts: a number is reserved from a filled cache, else the attempt waits.
LEMMA BeginStep ==
    ASSUME SdkType, NEW o \in Ops, BeginAttempt(o)
    PROVE  Begins(o)
<1>1. PICK A \in [Ops -> Seq(AttemptType)] : A = att
  BY DEF SdkType
<1>2. ASSUME NEW x \in AttemptType, att' = [att EXCEPT ![o] = Append(@, x)]
      PROVE  att' \in [Ops -> Seq(AttemptType)] /\ Appended(att, att', o, x)
  <2>1. att' = Push(A, o, x)
    BY <1>1, <1>2 DEF Push
  <2>2. Push(A, o, x) \in [Ops -> Seq(AttemptType)] /\ Appended(A, Push(A, o, x), o, x)
    BY AppendOne
  <2>. QED BY <1>1, <2>1, <2>2
<1>3. CASE cache # NoSeq
  <2>1. PICK c \in Int, n \in Nat : c = cache /\ n = epoch
    BY DEF SdkType
  <2>3. PICK y \in AttemptType : y = NewAttempt
    BY NewAttemptFields
  <2> DEFINE x == Reserved(y, c, n)
  <2>2. /\ cache' = cache + 1 /\ att' = [att EXCEPT ![o] = Append(@, x)]
        /\ UNCHANGED <<fetches, inflight, epoch, chain, pool>>
        /\ call' = [call EXCEPT ![o].pc = "race"]
    BY <1>3, <2>1, <2>3 DEF BeginAttempt, Reserve, Reserved
  <2>4. /\ x \in AttemptType /\ x.pc = "prepare" /\ x.seq = c + 1 /\ x.epoch = n
        /\ x.taken = y.taken /\ x.lost = y.lost /\ x.answer = y.answer
    BY ONLY y \in AttemptType, c \in Int, n \in Nat, ReservedFields
  <2> HIDE DEF x
  <2>5. ~x.taken /\ ~x.lost /\ x.answer = "none" /\ Numbered(x, cache, epoch)
    BY <2>1, <2>3, <2>4, NewAttemptFields DEF Numbered
  <2>6. att' \in [Ops -> Seq(AttemptType)] /\ Appended(att, att', o, x)
    BY <1>2, <2>2, <2>4
  <2>. QED BY <1>3, <2>2, <2>4, <2>5, <2>6 DEF Begins
<1>4. CASE cache = NoSeq
  <2>1. PICK x \in AttemptType : x = NewAttempt
    BY NewAttemptFields
  <2>2. /\ cache' = cache /\ att' = [att EXCEPT ![o] = Append(@, x)]
        /\ UNCHANGED <<epoch, chain, pool>>
        /\ call' = [call EXCEPT ![o].pc = "race"]
        /\ AskAccount(<<o, Len(att[o]) + 1>>, inflight, fetches)
    BY <1>4, <2>1 DEF BeginAttempt, Tries
  <2>3. att' \in [Ops -> Seq(AttemptType)] /\ Appended(att, att', o, x)
    BY <1>2, <2>2
  <2>. QED BY <1>4, <2>1, <2>2, <2>3, NewAttemptFields DEF Begins
<1>. QED BY <1>3, <1>4

\* Vectors of waiters.
LEMMA OneMore ==
    ASSUME NEW S, NEW t \in Seq(S), NEW w \in S
    PROVE  Append(t, w) \in Seq(S) /\ <<w>> \in Seq(S)
OBVIOUS

\* The requests after one more waiter: it joined the registered request, or a new one.
LEMMA AskType ==
    ASSUME SdkType, NEW w \in Waiter, AskAccount(w, inflight, fetches)
    PROVE  /\ fetches' \in Seq(FetchType) /\ inflight' \in 0..Len(fetches')
           /\ \/ /\ inflight \in 1..Len(fetches) /\ Len(fetches') = Len(fetches)
                 /\ \A g \in 1..Len(fetches) : g # inflight => fetches'[g] = fetches[g]
                 /\ fetches'[inflight].open = fetches[inflight].open
                 /\ fetches'[inflight].waiters = Append(fetches[inflight].waiters, w)
              \/ /\ Len(fetches') = Len(fetches) + 1
                 /\ \A g \in 1..Len(fetches) : fetches'[g] = fetches[g]
                 /\ fetches'[Len(fetches) + 1].waiters = <<w>>
<1>0. fetches \in Seq(FetchType) /\ inflight \in 0..Len(fetches) /\ chain \in Nat
  BY DEF SdkType
<1>1. CASE inflight # NoFetch
  <2>1. PICK r \in 1..Len(fetches) : r = inflight
    BY <1>0, <1>1 DEF NoFetch
  <2>2. PICK y \in FetchType : y = fetches[r]
    BY <1>0
  <2>3. y.waiters \in Seq(Waiter)
    BY DEF FetchType
  <2>4. PICK z \in Seq(Waiter) : z = Append(y.waiters, w)
    <3>1. Append(y.waiters, w) \in Seq(Waiter)
      BY <2>3, OneMore
    <3>. QED BY ONLY <3>1
  <2> DEFINE x == [y EXCEPT !.waiters = z]
  <2>5. x \in FetchType /\ x.open = y.open /\ x.waiters = z
    BY DEF FetchType
  <2>6. fetches' = [fetches EXCEPT ![r] = x] /\ inflight' = r
    BY <1>1, <2>1, <2>2, <2>4 DEF AskAccount
  <2> HIDE DEF x
  <2>. QED BY <1>0, <2>1, <2>2, <2>4, <2>5, <2>6
<1>2. CASE inflight = NoFetch
  <2> DEFINE x == [open |-> TRUE, lo |-> chain, waiters |-> <<w>>]
  <2>1. fetches' = Append(fetches, x) /\ inflight' = Len(fetches) + 1
    BY <1>2 DEF AskAccount
  <2>2. x \in FetchType /\ x.waiters = <<w>>
    <3>0. <<w>> \in Seq(Waiter) /\ <<>> \in Seq(Waiter)
      OBVIOUS
    <3>1. PICK z \in Seq(Waiter) : z = <<w>>
      BY ONLY <3>0
    <3>2. PICK c \in Nat : c = chain
      BY <1>0
    <3>3. [open |-> TRUE, lo |-> c, waiters |-> z] \in FetchType
      BY DEF FetchType
    <3>. QED BY <3>1, <3>2, <3>3
  <2> HIDE DEF x
  <2>. QED BY <1>0, <2>1, <2>2
<1>. QED BY <1>1, <1>2

\* Calls keep their type when they move.
LEMMA CallMoves ==
    ASSUME NEW C \in [Ops -> CallType], NEW o \in Ops, NEW c \in CallPcs,
           NEW D, D = [C EXCEPT ![o].pc = c]
    PROVE  D \in [Ops -> CallType] /\ D[o].pc = c /\ \A p \in Ops : p # o => D[p] = C[p]
BY DEF CallType

\* The catch block keeps the types, and changes one call.
LEMMA CaughtType ==
    ASSUME SdkType, NEW o \in Ops, Caught(o)
    PROVE  /\ cache' \in Int /\ cache' >= NoSeq
           /\ fetches' \in Seq(FetchType) /\ inflight' \in 0..Len(fetches')
           /\ call' \in [Ops -> CallType]
           /\ call'[o].pc \in {"failed", "sleep", "refetch"} /\ \A p \in Ops : p # o => call'[p] = call[p]
<1>1. PICK C \in [Ops -> CallType] : C = call
  BY DEF SdkType
<1>2. PICK c \in {"failed", "sleep", "refetch"} : call' = [call EXCEPT ![o].pc = c]
  BY DEF Caught
<1>3. call' \in [Ops -> CallType] /\ call'[o].pc = c /\ \A p \in Ops : p # o => call'[p] = call[p]
  BY <1>1, <1>2, CallMoves DEF CallPcs
<1>4. cache' \in Int /\ cache' >= NoSeq
  BY DEF Caught, SdkType, NoSeq
<1>5. fetches' \in Seq(FetchType) /\ inflight' \in 0..Len(fetches')
  <2>1. CASE UNCHANGED <<fetches, inflight>>
    BY <2>1 DEF SdkType
  <2>2. ASSUME NEW x, x = [open |-> TRUE, lo |-> chain, waiters |-> <<<<o, 0>>>>],
               fetches' = Append(fetches, x), inflight' = Len(fetches) + 1
        PROVE  fetches' \in Seq(FetchType) /\ inflight' \in 0..Len(fetches')
    <3>1. PICK w \in Waiter : w = <<o, 0>>
      BY DEF Waiter
    <3>2. x \in FetchType
      BY <2>2, <3>1 DEF FetchType, SdkType
    <3>3. fetches \in Seq(FetchType)
      BY DEF SdkType
    <3>. QED BY ONLY <2>2, <3>2, <3>3
  <2>. QED BY <2>1, <2>2 DEF Caught
<1>. QED BY <1>3, <1>4, <1>5

\* What the answer v of request f does to the attempts: those that wait for it get a
\* number each, from their place among the waiters.
Seated(f, v, o, k) ==
    \E i \in SeatsOf(f, <<o, k>>) :
        /\ att'[o][k] \in AttemptType /\ Numbered(att'[o][k], v + i - 1, epoch + 1)
        /\ att'[o][k].taken = att[o][k].taken /\ att'[o][k].answer = att[o][k].answer
        /\ att'[o][k].lost = att[o][k].lost
AnswerEffect(f, v) ==
    /\ att' \in [Ops -> Seq(AttemptType)]
    /\ \A o \in Ops : Len(att'[o]) = Len(att[o])
    /\ \A o \in Ops : \A k \in 1..Len(att[o]) :
          IF SeatsOf(f, <<o, k>>) = {} THEN att'[o][k] = att[o][k] ELSE Seated(f, v, o, k)

\* The seats of a request are waiters of it.
LEMMA SeatsType ==
    ASSUME SdkType, NEW f \in 1..Len(fetches)
    PROVE  /\ fetches[f] \in FetchType /\ fetches[f].waiters \in Seq(Waiter)
           /\ Seats(f) \in Seq(Waiter) /\ Len(Seats(f)) \in Nat
           /\ \A i \in 1..Len(Seats(f)) : \E j \in 1..Len(fetches[f].waiters) :
                 fetches[f].waiters[j] = Seats(f)[i]
<1>1. fetches[f] \in FetchType
  BY DEF SdkType
<1>2. PICK w \in Seq(Waiter) : w = fetches[f].waiters
  BY <1>1 DEF FetchType
<1>3. Seats(f) = Kept(w, Ops \X Attempts)
  BY <1>2 DEF Seats
<1> DEFINE K == Ops \X Attempts
<1> HIDE DEF K
<1>4. Kept(w, K) \in Seq(Waiter)
  BY KeptFrom
<1>5. ASSUME NEW i \in 1..Len(Kept(w, K)) PROVE \E j \in 1..Len(w) : w[j] = Kept(w, K)[i]
  <2>1. PICK x : x = Kept(w, K)[i]
    OBVIOUS
  <2>2. (\E j \in 1..Len(Kept(w, K)) : Kept(w, K)[j] = x) <=> x \in K /\ \E j \in 1..Len(w) : w[j] = x
    <3>1. w \in Seq(Waiter)
      OBVIOUS
    <3>. QED BY ONLY <3>1, KeptElements, SMTT(30)
  <2>. QED BY <2>1, <2>2
<1>6. Len(Kept(w, K)) \in Nat
  BY <1>4
<1>. QED BY <1>1, <1>2, <1>3, <1>4, <1>5, <1>6 DEF K

\* and there are no more of them.
LEMMA SeatsFit ==
    ASSUME SdkType, NEW f \in 1..Len(fetches)
    PROVE  Len(Seats(f)) <= Len(fetches[f].waiters)
<1>1. PICK w \in Seq(Waiter) : w = fetches[f].waiters
  BY SeatsType
<1>2. PICK K : K = Ops \X Attempts
  OBVIOUS
<1>3. Len(Kept(w, K)) <= Len(w)
  BY KeptSize
<1>. QED BY <1>1, <1>2, <1>3 DEF Seats

\* FetchAnswered has that effect.
LEMMA AnswerStep ==
    ASSUME SdkType, NEW f \in 1..Len(fetches), NEW v \in Nat, FetchAnswered(f, v)
    PROVE  AnswerEffect(f, v)
<1>1. PICK n \in Nat : n = epoch
  BY DEF SdkType
<1> DEFINE New(o, k) == IF SeatsOf(f, <<o, k>>) # {}
                        THEN [Reserve(v + (CHOOSE i \in SeatsOf(f, <<o, k>>) : TRUE) - 1, att[o][k])[2]
                                  EXCEPT !.epoch = n + 1]
                        ELSE att[o][k]
<1>2. att' = [o \in Ops |-> [k \in 1..Len(att[o]) |-> New(o, k)]]
  BY <1>1 DEF FetchAnswered, Tries
<1>3. ASSUME NEW o \in Ops PROVE att[o] \in Seq(AttemptType) /\ Len(att[o]) \in Nat
  BY DEF SdkType
<1>4. ASSUME NEW o \in Ops, NEW k \in 1..Len(att[o])
      PROVE  /\ att[o][k] \in AttemptType /\ New(o, k) \in AttemptType
             /\ IF SeatsOf(f, <<o, k>>) = {} THEN New(o, k) = att[o][k]
                ELSE \E i \in SeatsOf(f, <<o, k>>) :
                        /\ Numbered(New(o, k), v + i - 1, n + 1)
                        /\ New(o, k).taken = att[o][k].taken /\ New(o, k).answer = att[o][k].answer
                        /\ New(o, k).lost = att[o][k].lost
  <2>1. PICK y \in AttemptType : y = att[o][k]
    BY <1>3
  <2>2. CASE SeatsOf(f, <<o, k>>) = {}
    BY <2>1, <2>2
  <2>3. CASE SeatsOf(f, <<o, k>>) # {}
    <3>1. PICK i \in SeatsOf(f, <<o, k>>) : i = CHOOSE j \in SeatsOf(f, <<o, k>>) : TRUE
      BY <2>3
    <3>2. i \in Nat
      BY SeatsType DEF SeatsOf
    <3>3. PICK c \in Int : c = v + i - 1
      BY <3>2
    <3>4. PICK z \in AttemptType : z = Reserved(y, c, n)
      BY ReservedFields
    <3>5. z.pc = "prepare" /\ z.seq = c + 1 /\ z.taken = y.taken /\ z.answer = y.answer /\ z.lost = y.lost
      BY <3>4, ReservedFields
    <3>6. New(o, k) = [z EXCEPT !.epoch = n + 1]
      BY <1>1, <2>1, <2>3, <3>1, <3>3, <3>4 DEF Reserve, Reserved
    <3>7. PICK m \in Nat : m = n + 1
      OBVIOUS
    <3> DEFINE x == [z EXCEPT !.epoch = m]
    <3>8. /\ x \in AttemptType /\ x.pc = z.pc /\ x.seq = z.seq /\ x.epoch = m
          /\ x.taken = z.taken /\ x.answer = z.answer /\ x.lost = z.lost
      BY DEF AttemptType
    <3>9. New(o, k) = x
      BY <3>6, <3>7
    <3> HIDE DEF x, New
    <3>10. Numbered(x, v + i - 1, n + 1)
      BY <3>3, <3>5, <3>7, <3>8 DEF Numbered
    <3>. QED BY <2>1, <2>3, <3>5, <3>8, <3>9, <3>10
  <2>. QED BY <2>2, <2>3
<1> HIDE DEF New
<1>5. ASSUME NEW o \in Ops
      PROVE  /\ att'[o] \in Seq(AttemptType) /\ Len(att'[o]) = Len(att[o])
             /\ \A k \in 1..Len(att[o]) : att'[o][k] = New(o, k)
  <2>1. att'[o] = [k \in 1..Len(att[o]) |-> New(o, k)]
    BY <1>2
  <2>2. \A k \in 1..Len(att[o]) : New(o, k) \in AttemptType
    BY <1>4
  <2>3. PICK m \in Nat : m = Len(att[o])
    BY <1>3
  <2>4. PICK q : q = [k \in 1..m |-> New(o, k)]
    OBVIOUS
  <2>5. q \in [1..m -> AttemptType]
    BY <2>2, <2>3, <2>4
  <2>6. q \in Seq(AttemptType) /\ Len(q) = m
    BY <2>5
  <2>. QED BY <2>1, <2>3, <2>4, <2>6
<1>6. att' \in [Ops -> Seq(AttemptType)]
  <2> DEFINE G(o) == [k \in 1..Len(att[o]) |-> New(o, k)]
  <2>1. att' = [o \in Ops |-> G(o)]
    BY <1>2
  <2> HIDE DEF G
  <2>2. \A o \in Ops : G(o) \in Seq(AttemptType)
    BY <1>5, <2>1
  <2>. QED BY <2>1, <2>2
<1>. QED BY <1>1, <1>4, <1>5, <1>6 DEF AnswerEffect, Seated

\* Request f fails, with whatever error.
Fails(f) == \E e \in FetchErrors : FetchFailed(f, e)

\* What the failure of request f does to the attempts: they are over.
Unseated(o, k) ==
    /\ att'[o][k] \in AttemptType /\ att'[o][k].pc = "over"
    /\ att'[o][k].seq = att[o][k].seq /\ att'[o][k].epoch = att[o][k].epoch
    /\ att'[o][k].taken = att[o][k].taken /\ att'[o][k].answer = att[o][k].answer
    /\ att'[o][k].lost = att[o][k].lost
FailEffect(f) ==
    /\ att' \in [Ops -> Seq(AttemptType)]
    /\ \A o \in Ops : Len(att'[o]) = Len(att[o])
    /\ \A o \in Ops : \A k \in 1..Len(att[o]) :
          IF SeatsOf(f, <<o, k>>) = {} THEN att'[o][k] = att[o][k] ELSE Unseated(o, k)

\* FetchFailed has that effect.
LEMMA FailStep ==
    ASSUME SdkType, NEW f \in 1..Len(fetches), Fails(f)
    PROVE  FailEffect(f)
<1> DEFINE New(o, k) == IF SeatsOf(f, <<o, k>>) # {} THEN [att[o][k] EXCEPT !.pc = "over"] ELSE att[o][k]
<1>2. att' = [o \in Ops |-> [k \in 1..Len(att[o]) |-> New(o, k)]]
  BY DEF Fails, FetchFailed, Tries
<1>3. ASSUME NEW o \in Ops PROVE att[o] \in Seq(AttemptType) /\ Len(att[o]) \in Nat
  BY DEF SdkType
<1>4. ASSUME NEW o \in Ops, NEW k \in 1..Len(att[o])
      PROVE  /\ att[o][k] \in AttemptType /\ New(o, k) \in AttemptType
             /\ IF SeatsOf(f, <<o, k>>) = {} THEN New(o, k) = att[o][k]
                ELSE /\ New(o, k).pc = "over"
                     /\ New(o, k).seq = att[o][k].seq /\ New(o, k).epoch = att[o][k].epoch
                     /\ New(o, k).taken = att[o][k].taken /\ New(o, k).answer = att[o][k].answer
                     /\ New(o, k).lost = att[o][k].lost
  <2>1. PICK y \in AttemptType : y = att[o][k]
    BY <1>3
  <2>2. CASE SeatsOf(f, <<o, k>>) = {}
    BY <2>1, <2>2
  <2>3. CASE SeatsOf(f, <<o, k>>) # {}
    <3> DEFINE x == [y EXCEPT !.pc = "over"]
    <3>1. /\ x \in AttemptType /\ x.pc = "over" /\ x.seq = y.seq /\ x.epoch = y.epoch
          /\ x.taken = y.taken /\ x.answer = y.answer /\ x.lost = y.lost
      BY DEF AttemptType, AttemptPcs
    <3>2. New(o, k) = x
      BY <2>1, <2>3
    <3> HIDE DEF x, New
    <3>. QED BY <2>1, <2>3, <3>1, <3>2
  <2>. QED BY <2>2, <2>3
<1> HIDE DEF New
<1>5. ASSUME NEW o \in Ops
      PROVE  /\ att'[o] \in Seq(AttemptType) /\ Len(att'[o]) = Len(att[o])
             /\ \A k \in 1..Len(att[o]) : att'[o][k] = New(o, k)
  <2>1. att'[o] = [k \in 1..Len(att[o]) |-> New(o, k)]
    BY <1>2
  <2>2. \A k \in 1..Len(att[o]) : New(o, k) \in AttemptType
    BY <1>4
  <2>3. PICK m \in Nat : m = Len(att[o])
    BY <1>3
  <2>4. PICK q : q = [k \in 1..m |-> New(o, k)]
    OBVIOUS
  <2>5. q \in [1..m -> AttemptType]
    BY <2>2, <2>3, <2>4
  <2>6. q \in Seq(AttemptType) /\ Len(q) = m
    BY <2>5
  <2>. QED BY <2>1, <2>3, <2>4, <2>6
<1>6. att' \in [Ops -> Seq(AttemptType)]
  <2> DEFINE G(o) == [k \in 1..Len(att[o]) |-> New(o, k)]
  <2>1. att' = [o \in Ops |-> G(o)]
    BY <1>2
  <2> HIDE DEF G
  <2>2. \A o \in Ops : G(o) \in Seq(AttemptType)
    BY <1>5, <2>1
  <2>. QED BY <2>1, <2>2
<1>. QED BY <1>4, <1>5, <1>6 DEF FailEffect, Unseated

\* The calls after an answer: who asked anew sleeps; after a failure: it has failed, and
\* who waited for a number sleeps or has failed.
LEMMA FetchCalls ==
    ASSUME SdkType, NEW f \in 1..Len(fetches),
           Fails(f) \/ \E v \in Nat : FetchAnswered(f, v)
    PROVE  /\ call' \in [Ops -> CallType]
           /\ fetches' \in Seq(FetchType) /\ Len(fetches') = Len(fetches) /\ ~fetches'[f].open
           /\ \A g \in 1..Len(fetches) : g # f => fetches'[g] = fetches[g]
           /\ inflight' = NoFetch /\ chain' = chain /\ pool' = pool
           /\ \A o \in Ops :
                 IF o \in RefetchersOf(f) THEN call'[o].pc \in {"sleep", "failed"}
                 ELSE \/ call'[o] = call[o]
                      \/ /\ call[o].pc = "race" /\ SeatsOf(f, <<o, Tries(o)>>) # {} /\ Fails(f)
                         /\ call'[o].pc \in {"sleep", "failed"}
<1>1. PICK C \in [Ops -> CallType] : C = call
  BY DEF SdkType
<1>2. ASSUME NEW y \in CallType, NEW c \in {"sleep", "failed"}
      PROVE  [y EXCEPT !.pc = c] \in CallType /\ [y EXCEPT !.pc = c].pc = c
  BY DEF CallType, CallPcs
<1>3. PICK D : D = [o \in Ops |-> IF o \in RefetchersOf(f) THEN [C[o] EXCEPT !.pc = "sleep"] ELSE C[o]]
  OBVIOUS
<1>0. PICK e \in FetchErrors : Fails(f) => FetchFailed(f, e)
  BY DEF Fails, FetchErrors
<1>4. PICK E : E = [o \in Ops |->
          IF o \in RefetchersOf(f) THEN [C[o] EXCEPT !.pc = "failed"]
          ELSE IF C[o].pc = "race" /\ SeatsOf(f, <<o, Tries(o)>>) # {}
          THEN IF ClassifyError(e) = "TERMINAL_INVALID" \/ Tries(o) > MaxRetries
               THEN [C[o] EXCEPT !.pc = "failed"]
               ELSE [C[o] EXCEPT !.pc = "sleep"]
          ELSE C[o]]
  OBVIOUS
<1>5. (Fails(f) /\ call' = E) \/ call' = D
  BY <1>0, <1>1, <1>3, <1>4 DEF FetchFailed, FetchAnswered
<1>6. D \in [Ops -> CallType] /\ \A o \in Ops :
         IF o \in RefetchersOf(f) THEN D[o].pc = "sleep" ELSE D[o] = C[o]
  BY <1>2, <1>3
<1>7. E \in [Ops -> CallType] /\ \A o \in Ops :
         IF o \in RefetchersOf(f) THEN E[o].pc = "failed"
         ELSE \/ E[o] = C[o]
              \/ C[o].pc = "race" /\ SeatsOf(f, <<o, Tries(o)>>) # {} /\ E[o].pc \in {"sleep", "failed"}
  BY <1>2, <1>4
<1>8. /\ fetches' \in Seq(FetchType) /\ Len(fetches') = Len(fetches) /\ ~fetches'[f].open
      /\ \A g \in 1..Len(fetches) : g # f => fetches'[g] = fetches[g]
  <2>1. fetches' = [fetches EXCEPT ![f] = Closed]
    BY DEF Fails, FetchFailed, FetchAnswered
  <2>2. Closed \in FetchType /\ ~Closed.open
    BY DEF Closed, FetchType
  <2>3. fetches \in Seq(FetchType)
    BY DEF SdkType
  <2>. QED BY <2>1, <2>2, <2>3
<1>9. inflight' = NoFetch /\ chain' = chain /\ pool' = pool
  BY DEF Fails, FetchFailed, FetchAnswered
<1>. QED BY <1>1, <1>5, <1>6, <1>7, <1>8, <1>9

\* A poll of awaitTransaction changes its own call only.
PollEffect(o) ==
    /\ call' \in [Ops -> CallType]
    /\ call[o].pc = "confirm" /\ call'[o].pc \in {"done", "failed", "confirm"}
    /\ \A p \in Ops : p # o => call'[p] = call[p]
    /\ UNCHANGED <<cache, fetches, inflight, epoch, att, chain, pool>>

\* Poll has that effect.
LEMMA PollStep ==
    ASSUME SdkType, NEW o \in Ops, NEW outcome \in PollOutcomes, Poll(o, outcome)
    PROVE  PollEffect(o)
<1>1. PICK C \in [Ops -> CallType] : C = call
  BY DEF SdkType
<1>2. PICK y \in CallType : y = C[o]
  OBVIOUS
<1>3. y.pc = "confirm" /\ UNCHANGED <<cache, fetches, inflight, epoch, att, chain, pool>>
  BY <1>1, <1>2 DEF Poll
<1>4. PICK x \in CallType : call' = [C EXCEPT ![o] = x] /\ x.pc \in {"done", "failed", "confirm"}
  <2>1. [y EXCEPT !.pc = "done"] \in CallType /\ [y EXCEPT !.pc = "done"].pc = "done"
    BY DEF CallType, CallPcs
  <2>2. [y EXCEPT !.pc = "failed"] \in CallType /\ [y EXCEPT !.pc = "failed"].pc = "failed"
    BY DEF CallType, CallPcs
  <2>3. [y EXCEPT !.polls = y.polls + 1] \in CallType /\ [y EXCEPT !.polls = y.polls + 1].pc = y.pc
    <3>1. PICK n \in Nat : n = y.polls + 1
      BY DEF CallType
    <3>2. [y EXCEPT !.polls = n] \in CallType /\ [y EXCEPT !.polls = n].pc = y.pc
      BY DEF CallType, CallPcs
    <3>. QED BY <3>1, <3>2
  <2>4. \/ call' = [C EXCEPT ![o] = [y EXCEPT !.pc = "done"]]
        \/ call' = [C EXCEPT ![o] = [y EXCEPT !.pc = "failed"]]
        \/ call' = [C EXCEPT ![o] = [y EXCEPT !.polls = y.polls + 1]]
    <3>1. call' = [C EXCEPT ![o] =
             CASE outcome = "SUCCESS" -> [y EXCEPT !.pc = "done"]
               [] outcome \in {"FAILED", "throws"} -> [y EXCEPT !.pc = "failed"]
               [] outcome = "NOT_FOUND" -> IF y.polls + 1 >= MaxPolls THEN [y EXCEPT !.pc = "failed"]
                                           ELSE [y EXCEPT !.polls = y.polls + 1]]
      BY <1>1, <1>2 DEF Poll
    <3>2. CASE outcome = "SUCCESS"
      BY <3>1, <3>2
    <3>3. CASE outcome \in {"FAILED", "throws"}
      BY <3>1, <3>3
    <3>4. CASE outcome = "NOT_FOUND"
      BY <3>1, <3>4
    <3>. QED BY <3>2, <3>3, <3>4 DEF PollOutcomes
  <2>. QED BY <1>3, <2>1, <2>2, <2>3, <2>4
<1>. QED BY <1>1, <1>2, <1>3, <1>4 DEF PollEffect

\* What happens to a submission that starts in the turn of a refresh: its attempt is over.
Spoiled(o) ==
    /\ call[o].pc = "idle" /\ call'[o].pc \in {"sleep", "failed"}
    /\ Len(att[o]) = 0 /\ Len(att'[o]) = 1
    /\ att'[o][1].pc = "over" /\ att'[o][1].seq = NoSeq /\ att'[o][1].answer = "none"
    /\ ~att'[o][1].taken /\ ~att'[o][1].lost
\* A refresh of the sequence number forgets the cached one, and asks for nobody.
RefreshEffect ==
    /\ cache' = NoSeq /\ UNCHANGED <<epoch, chain, pool>>
    /\ fetches' \in Seq(FetchType) /\ Len(fetches') = Len(fetches) + 1 /\ inflight' = Len(fetches) + 1
    /\ \A g \in 1..Len(fetches) : fetches'[g] = fetches[g]
    /\ fetches'[Len(fetches) + 1].lo = chain /\ fetches'[Len(fetches) + 1].waiters = <<>>
    /\ att' \in [Ops -> Seq(AttemptType)] /\ call' \in [Ops -> CallType]
    /\ \A o \in Ops : (att'[o] = att[o] /\ call'[o] = call[o]) \/ Spoiled(o)

\* An attempt that is over before it did anything.
LEMMA SpoiledFields ==
    \E y \in AttemptType : /\ y = [NewAttempt EXCEPT !.pc = "over"]
                           /\ y.pc = "over" /\ y.seq = NoSeq /\ y.answer = "none"
                           /\ ~y.taken /\ ~y.lost
<1>1. PICK z \in AttemptType : z = NewAttempt
  BY NewAttemptFields
<1> DEFINE y == [z EXCEPT !.pc = "over"]
<1>2. /\ y \in AttemptType /\ y.pc = "over" /\ y.seq = z.seq /\ y.answer = z.answer
      /\ y.taken = z.taken /\ y.lost = z.lost
  BY DEF AttemptType, AttemptPcs
<1>3. y = [NewAttempt EXCEPT !.pc = "over"]
  BY <1>1
<1> HIDE DEF y
<1>. QED BY <1>1, <1>2, <1>3, NewAttemptFields

\* Both ways to refresh have that effect.
LEMMA RefreshStep ==
    ASSUME SdkType, RefreshAccountSequence \/ \E o \in Ops : RefreshDuringStart(o)
    PROVE  RefreshEffect
<1>1. Refresh /\ UNCHANGED <<epoch, chain, pool>>
  BY DEF RefreshAccountSequence, RefreshDuringStart
<1>2. /\ fetches' \in Seq(FetchType) /\ Len(fetches') = Len(fetches) + 1
      /\ \A g \in 1..Len(fetches) : fetches'[g] = fetches[g]
      /\ fetches'[Len(fetches) + 1].lo = chain /\ fetches'[Len(fetches) + 1].waiters = <<>>
  <2>0. <<>> \in Seq(Waiter)
    OBVIOUS
  <2>1. PICK z \in Seq(Waiter) : z = <<>>
    BY ONLY <2>0
  <2>2. PICK c \in Nat : c = chain
    BY DEF SdkType
  <2>3. PICK y : y = [open |-> TRUE, lo |-> c, waiters |-> z]
    OBVIOUS
  <2>4. y \in FetchType /\ y.lo = c /\ y.waiters = z
    BY <2>3 DEF FetchType
  <2>5. fetches' = Append(fetches, y)
    BY <1>1, <2>1, <2>2, <2>3 DEF Refresh
  <2>6. fetches \in Seq(FetchType)
    BY DEF SdkType
  <2>7. /\ fetches' \in Seq(FetchType) /\ Len(fetches') = Len(fetches) + 1
        /\ fetches'[Len(fetches) + 1] = y /\ \A g \in 1..Len(fetches) : fetches'[g] = fetches[g]
    BY ONLY <2>4, <2>5, <2>6
  <2>. QED BY <2>1, <2>2, <2>4, <2>7
<1>3. CASE RefreshAccountSequence
  <2>1. UNCHANGED <<att, call>>
    BY <1>3 DEF RefreshAccountSequence
  <2>. QED BY <1>1, <1>2, <2>1 DEF RefreshEffect, Refresh, SdkType
<1>4. ASSUME NEW o \in Ops, RefreshDuringStart(o) PROVE RefreshEffect
  <2>1. PICK A \in [Ops -> Seq(AttemptType)], C \in [Ops -> CallType] : A = att /\ C = call
    BY DEF SdkType
  <2>2. PICK y \in AttemptType : /\ y = [NewAttempt EXCEPT !.pc = "over"]
                                 /\ y.pc = "over" /\ y.seq = NoSeq /\ y.answer = "none"
                                 /\ ~y.taken /\ ~y.lost
    BY SpoiledFields
  <2>3. PICK c \in {"sleep", "failed"} : call' = [C EXCEPT ![o].pc = c]
    <3>1. PICK c : c = IF MaxRetries = 0 THEN "failed" ELSE "sleep"
      OBVIOUS
    <3>2. c \in {"sleep", "failed"}
      BY <3>1
    <3>3. call' = [C EXCEPT ![o].pc = c]
      BY <1>4, <2>1, <3>1 DEF RefreshDuringStart
    <3>. QED BY <3>2, <3>3
  <2>4. call' \in [Ops -> CallType] /\ call'[o].pc = c /\ \A p \in Ops : p # o => call'[p] = C[p]
    <3>1. PICK z \in CallType : z = [C[o] EXCEPT !.pc = c] /\ z.pc = c
      <4>1. PICK u \in CallType : u = C[o]
        OBVIOUS
      <4>2. [u EXCEPT !.pc = c] \in CallType /\ [u EXCEPT !.pc = c].pc = c
        BY DEF CallType, CallPcs
      <4>. QED BY <4>1, <4>2
    <3>2. call' = [C EXCEPT ![o] = z]
      BY <2>3, <3>1
    <3>. QED BY <3>1, <3>2
  <2>5. att' = Push(A, o, y)
    BY <1>4, <2>1, <2>2 DEF RefreshDuringStart, Push
  <2>6. att' \in [Ops -> Seq(AttemptType)] /\ Appended(A, att', o, y)
    BY <2>5, AppendOne
  <2>7. call[o].pc = "idle" /\ Len(att[o]) = 0
    BY <1>4 DEF RefreshDuringStart, SdkType
  <2>8. Spoiled(o)
    <3>1. Len(att'[o]) = 1 /\ att'[o][1] = y
      BY <2>1, <2>6, <2>7 DEF Appended
    <3>. QED BY <2>2, <2>4, <2>7, <3>1 DEF Spoiled
  <2>9. \A p \in Ops : p # o => att'[p] = att[p] /\ call'[p] = call[p]
    BY <2>1, <2>4, <2>6 DEF Appended
  <2>. QED BY <1>1, <1>2, <2>4, <2>6, <2>8, <2>9 DEF RefreshEffect, Refresh
<1>. QED BY <1>3, <1>4

-----------------------------------------------------------------------------
\* Every number reserved since the last reading of the account is at most the cached one,
\* and those of earlier readings carry an earlier epoch: so the next one is new.
SeqBound ==
    \A o \in Ops : \A k \in 1..Len(att[o]) :
        att[o][k].seq # NoSeq =>
            /\ att[o][k].epoch <= epoch
            /\ att[o][k].epoch = epoch /\ cache # NoSeq => att[o][k].seq <= cache
SeqDistinct ==
    \A o, p \in Ops : \A k \in 1..Len(att[o]), l \in 1..Len(att[p]) :
        /\ att[o][k].seq # NoSeq /\ att[o][k].seq = att[p][l].seq
        /\ att[o][k].epoch = att[p][l].epoch
        => o = p /\ k = l

\* An attempt the network has taken was answered PENDING.  An attempt that is not the one
\* its call waits for is over, and was not taken, unless it got lost.
TakenInv ==
    \A o \in Ops : \A k \in 1..Len(att[o]) :
        att[o][k].taken => att[o][k].answer = "PENDING" /\ att[o][k].pc \in {"answer", "over"}
GivenUpInv ==
    \A o \in Ops : \A k \in 1..Len(att[o]) :
        ~att[o][k].lost /\ (k < Len(att[o]) \/ call[o].pc \in {"sleep", "refetch"})
            => ~att[o][k].taken /\ att[o][k].pc = "over"

\* Who waits for an open request: an attempt that has no number yet, or a call that asked
\* anew; and it waits for one request only.
Waits(w) ==
    IF w[2] = 0 THEN call[w[1]].pc = "refetch"
    ELSE w[2] \in 1..Len(att[w[1]]) /\ att[w[1]][w[2]].pc = "fetch"
WaitInv ==
    /\ \A f \in 1..Len(fetches) : fetches[f].open =>
          \A i \in 1..Len(fetches[f].waiters) : Waits(fetches[f].waiters[i])
    /\ \A f, g \in 1..Len(fetches) : f # g /\ fetches[f].open /\ fetches[g].open =>
          \A i \in 1..Len(fetches[f].waiters), j \in 1..Len(fetches[g].waiters) :
              fetches[f].waiters[i] # fetches[g].waiters[j]

SdkInv == SdkType /\ SeqBound /\ SeqDistinct /\ TakenInv /\ GivenUpInv /\ WaitInv

\* The steps of the client and of the network, by what they do to its state.
LEMMA StepCases ==
    ASSUME SdkType, TakenInv, [Next]_vars
    PROVE  \/ \E o \in Ops : \E k \in 1..Len(att[o]) : AttemptStep(o, k)
           \/ \E o \in Ops : call[o].pc \in {"idle", "sleep"} /\ Begins(o)
           \/ \E o \in Ops : PollEffect(o)
           \/ \E f \in 1..Len(fetches), v \in Nat : FetchAnswered(f, v)
           \/ \E f \in 1..Len(fetches) : Fails(f)
           \/ RefreshEffect
           \/ UNCHANGED vars
<1>1. ASSUME NEW o \in Ops, Start(o) \/ SleepOver(o)
      PROVE  call[o].pc \in {"idle", "sleep"} /\ Begins(o)
  BY <1>1, BeginStep DEF Start, SleepOver
<1>2. ASSUME NEW o \in Ops, NEW k \in Attempts,
             \/ Prepared(o, k)
             \/ \E e \in {NetworkError, Malformed} : PrepareFails(o, k, e)
             \/ \E v \in Answers : RpcReceives(o, k, v)
             \/ SendAnswered(o, k)
             \/ SendFails(o, k)
      PROVE  \E j \in 1..Len(att[o]) : AttemptStep(o, j)
  <2>1. k \in 1..Len(att[o])
    <3>1. \E pc : <<o, k>> \in Live(pc)
      BY <1>2 DEF Prepared, PrepareFails, RpcReceives, SendAnswered, SendFails
    <3>2. k <= Len(att[o])
      BY <3>1 DEF Live, Tries
    <3>3. k \in Nat /\ k >= 1 /\ Len(att[o]) \in Nat
      BY SdkAssumption DEF Attempts, SdkType
    <3>. QED BY <3>2, <3>3
  <2>2. att[o][k].taken => att[o][k].answer = "PENDING" /\ att[o][k].pc \in {"answer", "over"}
    BY <2>1 DEF TakenInv
  <2>. QED BY <1>2, <2>1, <2>2, AttemptSteps
<1>3. \A v \in 0..NetSeq : v \in Nat
  OBVIOUS
<1>4. Quiet => UNCHANGED vars
  BY DEF Quiet
<1>. QED
  BY <1>1, <1>2, <1>3, <1>4, TimeoutStep, LedgerStep, PollStep, RefreshStep DEF Next, Fails

\* The invariant holds when the client is created.
LEMMA SdkInitInv == Init => SdkInv
<1>. SUFFICES ASSUME Init PROVE SdkInv
  OBVIOUS
<1>1. cache \in Int /\ cache >= NoSeq /\ epoch \in Nat /\ chain \in Nat
  BY SdkAssumption DEF Init, NoSeq
<1>2. fetches \in Seq(FetchType) /\ inflight \in 0..Len(fetches) /\ Len(fetches) = 0 /\ pool = {}
  BY DEF Init, NoFetch
<1>3. att \in [Ops -> Seq(AttemptType)] /\ \A o \in Ops : Len(att[o]) = 0
  BY DEF Init
<1>4. call \in [Ops -> CallType] /\ \A o \in Ops : call[o].pc = "idle"
  BY DEF Init, CallType, CallPcs
<1>5. SdkType
  BY <1>1, <1>2, <1>3, <1>4 DEF SdkType
<1>. QED
  BY <1>2, <1>3, <1>5 DEF SdkInv, SeqBound, SeqDistinct, TakenInv, GivenUpInv, WaitInv

\* What a step of an attempt does to the calls and the requests.
LEMMA ReportsType ==
    ASSUME SdkType, NEW o \in Ops, NEW k \in 1..Len(att[o]), NEW x, Reports(o, k, x)
    PROVE  /\ cache' \in Int /\ cache' >= NoSeq /\ (cache' = cache \/ cache' = NoSeq)
           /\ fetches' \in Seq(FetchType) /\ inflight' \in 0..Len(fetches')
           /\ call' \in [Ops -> CallType]
           /\ \A p \in Ops : p # o => call'[p] = call[p]
           /\ \/ call'[o] = call[o] /\ fetches' = fetches
              \/ /\ call[o].pc = "race" /\ k = Len(att[o])
                 /\ \/ call'[o].pc = "confirm" /\ fetches' = fetches
                    \/ (x.lost \/ (x.pc = "over" /\ ~x.taken)) /\ call'[o].pc \in {"failed", "sleep"} /\ fetches' = fetches
                    \/ /\ x.lost \/ (x.pc = "over" /\ ~x.taken)
                       /\ call'[o].pc = "refetch"
                       /\ fetches' = Append(fetches, [open |-> TRUE, lo |-> chain, waiters |-> <<<<o, 0>>>>])
<1>1. CASE UNCHANGED <<call, cache, fetches, inflight>>
  BY <1>1 DEF SdkType
<1>2. CASE Raced(o, k) /\ call' = [call EXCEPT ![o].pc = "confirm"] /\ UNCHANGED <<cache, fetches, inflight>>
  <2>1. PICK C \in [Ops -> CallType] : C = call
    BY DEF SdkType
  <2>2. call' \in [Ops -> CallType] /\ call'[o].pc = "confirm" /\ \A p \in Ops : p # o => call'[p] = call[p]
    BY <1>2, <2>1, CallMoves DEF CallPcs
  <2>. QED BY <1>2, <2>2 DEF Raced, Tries, SdkType
<1>3. CASE Raced(o, k) /\ (x.lost \/ (x.pc = "over" /\ ~x.taken)) /\ Caught(o)
  <2>1. /\ cache' \in Int /\ cache' >= NoSeq
        /\ fetches' \in Seq(FetchType) /\ inflight' \in 0..Len(fetches')
        /\ call' \in [Ops -> CallType] /\ \A p \in Ops : p # o => call'[p] = call[p]
    BY <1>3, CaughtType
  <2>2. PICK C \in [Ops -> CallType] : C = call
    BY DEF SdkType
  <2>3. CASE /\ \E c \in {"failed", "sleep"} : call' = [call EXCEPT ![o].pc = c]
             /\ UNCHANGED <<cache, fetches, inflight>>
    <3>1. call'[o].pc \in {"failed", "sleep"}
      BY <2>2, <2>3, CallMoves DEF CallPcs
    <3>. QED BY <1>3, <2>1, <2>3, <3>1 DEF Raced, Tries
  <2>4. CASE /\ call' = [call EXCEPT ![o].pc = "refetch"]
             /\ cache' = NoSeq
             /\ fetches' = Append(fetches, [open |-> TRUE, lo |-> chain, waiters |-> <<<<o, 0>>>>])
    <3>1. call'[o].pc = "refetch"
      BY <2>2, <2>4, CallMoves DEF CallPcs
    <3>. QED BY <1>3, <2>1, <2>4, <3>1 DEF Raced, Tries
  <2>. QED BY <1>3, <2>3, <2>4 DEF Caught
<1>. QED BY <1>1, <1>2, <1>3 DEF Reports

\* The types after each of the steps.
LEMMA TypeAttempt ==
    ASSUME SdkType, NEW o \in Ops, NEW k \in 1..Len(att[o]), AttemptStep(o, k)
    PROVE  SdkType'
<1>1. PICK x : Moves(att[o][k], x) /\ Replaced(att, att', o, k, x) /\ Reports(o, k, x)
  BY DEF AttemptStep
<1>2. /\ cache' \in Int /\ cache' >= NoSeq
      /\ fetches' \in Seq(FetchType) /\ inflight' \in 0..Len(fetches')
      /\ call' \in [Ops -> CallType]
      /\ \A p \in Ops : p # o => call'[p] = call[p]
      /\ \/ call'[o] = call[o]
         \/ call[o].pc = "race" /\ call'[o].pc # "idle"
  BY <1>1, ReportsType
<1>3. \A p \in Ops : Len(att'[p]) = Len(att[p])
  BY <1>1 DEF Replaced
<1>4. \A p \in Ops : call'[p].pc = "idle" <=> Len(att'[p]) = 0
  BY <1>2, <1>3 DEF SdkType
<1>5. \A t \in pool' : t[1] \in Ops /\ t[2] \in 1..Len(att'[t[1]])
  BY <1>3 DEF SdkType, AttemptStep
<1>. QED BY <1>2, <1>4, <1>5 DEF SdkType, AttemptStep

\* The types after an attempt has begun.
LEMMA TypeBegin ==
    ASSUME SdkType, NEW o \in Ops, Begins(o)
    PROVE  SdkType'
<1>1. PICK x \in AttemptType :
          /\ Appended(att, att', o, x)
          /\ \/ /\ cache # NoSeq /\ cache' = cache + 1 /\ UNCHANGED <<fetches, inflight>>
             \/ /\ cache = NoSeq /\ cache' = cache
                /\ AskAccount(<<o, Len(att[o]) + 1>>, inflight, fetches)
  BY DEF Begins
<1>2. PICK C \in [Ops -> CallType] : C = call
  BY DEF SdkType
<1>3. call' \in [Ops -> CallType] /\ call'[o].pc = "race" /\ \A p \in Ops : p # o => call'[p] = call[p]
  <2>1. call' = [C EXCEPT ![o].pc = "race"] /\ "race" \in CallPcs
    BY <1>2 DEF CallPcs, Begins
  <2>2. PICK D : D = call'
    OBVIOUS
  <2>. QED BY <1>2, <2>1, <2>2, CallMoves
<1>4. Len(att[o]) \in Nat
  BY DEF SdkType
<1>5. fetches' \in Seq(FetchType) /\ inflight' \in 0..Len(fetches')
  <2>1. CASE UNCHANGED <<fetches, inflight>>
    BY <2>1 DEF SdkType
  <2>2. CASE AskAccount(<<o, Len(att[o]) + 1>>, inflight, fetches)
    <3>1. PICK n \in Nat : n = Len(att[o]) + 1
      BY <1>4
    <3>2. PICK w \in Waiter : w = <<o, n>>
      BY DEF Waiter
    <3>. QED BY <2>2, <3>1, <3>2, AskType
  <2>. QED BY <1>1, <2>1, <2>2
<1>6. cache' \in Int /\ cache' >= NoSeq
  BY <1>1 DEF SdkType, NoSeq
<1>7. Len(att'[o]) = Len(att[o]) + 1 /\ \A p \in Ops : p # o => att'[p] = att[p]
  BY <1>1 DEF Appended
<1>8. \A p \in Ops : call'[p].pc = "idle" <=> Len(att'[p]) = 0
  <2>1. Len(att'[o]) # 0
    BY <1>4, <1>7
  <2>. QED BY <1>3, <1>7, <2>1 DEF SdkType
<1>9. \A t \in pool' : t[1] \in Ops /\ t[2] \in 1..Len(att'[t[1]])
  <2>1. ASSUME NEW t \in pool PROVE t[1] \in Ops /\ t[2] \in 1..Len(att'[t[1]])
    <3>1. t[1] \in Ops /\ t[2] \in 1..Len(att[t[1]])
      BY DEF SdkType
    <3>2. CASE t[1] = o
      BY <1>4, <1>7, <3>1, <3>2
    <3>3. CASE t[1] # o
      BY <1>7, <3>1, <3>3
    <3>. QED BY <3>2, <3>3
  <2>. QED BY <2>1 DEF Begins
<1>. QED BY <1>3, <1>5, <1>6, <1>8, <1>9 DEF SdkType, Begins

\* The types after a request was answered or has failed.
LEMMA TypeFetch ==
    ASSUME SdkType, NEW f \in 1..Len(fetches),
           Fails(f) \/ \E v \in Nat : FetchAnswered(f, v),
           \A o \in RefetchersOf(f) : call[o].pc # "idle"
    PROVE  SdkType'
<1>1. /\ call' \in [Ops -> CallType]
      /\ fetches' \in Seq(FetchType) /\ Len(fetches') = Len(fetches)
      /\ inflight' = NoFetch /\ chain' = chain /\ pool' = pool
      /\ \A o \in Ops : IF o \in RefetchersOf(f) THEN call'[o].pc \in {"sleep", "failed"}
                         ELSE \/ call'[o] = call[o]
                              \/ call[o].pc = "race" /\ call'[o].pc \in {"sleep", "failed"}
  BY FetchCalls
<1>2. att' \in [Ops -> Seq(AttemptType)] /\ \A o \in Ops : Len(att'[o]) = Len(att[o])
  <2>1. CASE Fails(f)
    BY <2>1, FailStep DEF FailEffect
  <2>2. ASSUME NEW v \in Nat, FetchAnswered(f, v)
        PROVE  att' \in [Ops -> Seq(AttemptType)] /\ \A o \in Ops : Len(att'[o]) = Len(att[o])
    <3>1. AnswerEffect(f, v)
      BY <2>2, AnswerStep
    <3>. QED BY <3>1 DEF AnswerEffect
  <2>. QED BY <2>1, <2>2
<1>3. cache' \in Int /\ cache' >= NoSeq /\ epoch' \in Nat
  <2>1. CASE Fails(f)
    BY <2>1 DEF Fails, FetchFailed, SdkType
  <2>2. ASSUME NEW v \in Nat, FetchAnswered(f, v) PROVE cache' \in Int /\ cache' >= NoSeq /\ epoch' \in Nat
    <3>1. PICK n \in Nat, m \in Nat : n = Len(Seats(f)) /\ m = epoch
      BY SeatsType DEF SdkType
    <3>2. cache' = v + n /\ epoch' = m + 1
      BY <2>2, <3>1 DEF FetchAnswered
    <3>. QED BY ONLY <3>2, v \in Nat, n \in Nat, m \in Nat DEF NoSeq
  <2>. QED BY <2>1, <2>2
<1>4. \A o \in Ops : call'[o].pc = "idle" <=> Len(att'[o]) = 0
  BY <1>1, <1>2 DEF SdkType
<1>5. inflight' \in 0..Len(fetches')
  BY <1>1 DEF NoFetch
<1>6. \A t \in pool' : t[1] \in Ops /\ t[2] \in 1..Len(att'[t[1]])
  BY <1>1, <1>2 DEF SdkType
<1>. QED BY <1>1, <1>2, <1>3, <1>4, <1>5, <1>6 DEF SdkType

-----------------------------------------------------------------------------
\* The parts of the invariant about the attempts.
AttemptsInv == SeqBound /\ SeqDistinct /\ TakenInv /\ GivenUpInv

\* The attempts, their numbers and the calls as plain values, so that one lemma serves the
\* steps that leave every attempt's number alone.
SameNumbers ==
    /\ epoch' = epoch /\ (cache' = cache \/ cache' = NoSeq)
    /\ \A p \in Ops : /\ Len(att'[p]) = Len(att[p])
                      /\ \A j \in 1..Len(att[p]) : /\ att'[p][j].seq = att[p][j].seq
                                                   /\ att'[p][j].epoch = att[p][j].epoch

\* Such steps keep the numbers bounded and distinct.
LEMMA NumbersKept ==
    ASSUME SeqBound, SeqDistinct, SameNumbers
    PROVE  SeqBound' /\ SeqDistinct'
<1>1. SeqBound'
  BY DEF SeqBound, SameNumbers
<1>2. SeqDistinct'
  <2>. SUFFICES ASSUME NEW o \in Ops, NEW p \in Ops, NEW k \in 1..Len(att'[o]), NEW l \in 1..Len(att'[p]),
                      att'[o][k].seq # NoSeq, att'[o][k].seq = att'[p][l].seq, att'[o][k].epoch = att'[p][l].epoch
               PROVE  o = p /\ k = l
    BY DEF SeqDistinct, NoSeq
  <2>1. /\ k \in 1..Len(att[o]) /\ l \in 1..Len(att[p])
        /\ att[o][k].seq # NoSeq /\ att[o][k].seq = att[p][l].seq /\ att[o][k].epoch = att[p][l].epoch
    BY DEF SameNumbers
  <2>. QED BY <2>1 DEF SeqDistinct
<1>. QED BY <1>1, <1>2

\* A step of an attempt keeps them.
LEMMA AttemptsAttempt ==
    ASSUME SdkType, AttemptsInv, NEW o \in Ops, NEW k \in 1..Len(att[o]), AttemptStep(o, k)
    PROVE  AttemptsInv'
<1>1. PICK x : Moves(att[o][k], x) /\ Replaced(att, att', o, k, x) /\ Reports(o, k, x)
  BY DEF AttemptStep
<1>2. \A p \in Ops : Len(att'[p]) = Len(att[p])
  BY <1>1 DEF Replaced
<1>3. \A p \in Ops : \A j \in 1..Len(att[p]) : att'[p][j] = IF p = o /\ j = k THEN x ELSE att[p][j]
  BY <1>1 DEF Replaced
<1>4. SeqBound' /\ SeqDistinct'
  <2>1. cache' = cache \/ cache' = NoSeq
    BY <1>1, ReportsType
  <2>2. SameNumbers
    BY <1>1, <1>2, <1>3, <2>1 DEF SameNumbers, AttemptStep, Moves
  <2>. QED BY <2>2, NumbersKept DEF AttemptsInv
<1>5. TakenInv'
  <2>. SUFFICES ASSUME NEW p \in Ops, NEW j \in 1..Len(att'[p]), att'[p][j].taken
               PROVE  att'[p][j].answer = "PENDING" /\ att'[p][j].pc \in {"answer", "over"}
    BY DEF TakenInv
  <2>1. j \in 1..Len(att[p])
    BY <1>2
  <2>2. CASE p = o /\ j = k
    <3>1. att'[p][j] = x
      BY <1>3, <2>1, <2>2
    <3>2. att[o][k].taken => att[o][k].answer = "PENDING" /\ att[o][k].pc \in {"answer", "over"}
      BY DEF AttemptsInv, TakenInv
    <3>. QED BY <1>1, <3>1, <3>2 DEF Moves
  <2>3. CASE ~(p = o /\ j = k)
    <3>1. att'[p][j] = att[p][j]
      BY <1>3, <2>1, <2>3
    <3>. QED BY <2>1, <3>1 DEF AttemptsInv, TakenInv
  <2>. QED BY <2>2, <2>3
<1>6. GivenUpInv'
  <2>. SUFFICES ASSUME NEW p \in Ops, NEW j \in 1..Len(att'[p]), ~att'[p][j].lost,
                      j < Len(att'[p]) \/ call'[p].pc \in {"sleep", "refetch"}
               PROVE  ~att'[p][j].taken /\ att'[p][j].pc = "over"
    BY DEF GivenUpInv
  <2>0. j \in 1..Len(att[p]) /\ Len(att'[p]) = Len(att[p])
    BY <1>2
  <2>1. /\ \A q \in Ops : q # o => call'[q] = call[q]
        /\ \/ call'[o] = call[o]
           \/ call[o].pc = "race" /\ k = Len(att[o]) /\ call'[o].pc = "confirm"
           \/ call[o].pc = "race" /\ k = Len(att[o]) /\ (x.lost \/ (x.pc = "over" /\ ~x.taken))
    BY <1>1, ReportsType
  <2>2. ASSUME ~att[p][j].lost, j < Len(att[p]) \/ call[p].pc \in {"sleep", "refetch"}
        PROVE  ~att[p][j].taken /\ att[p][j].pc = "over"
    BY <2>0, <2>2 DEF AttemptsInv, GivenUpInv
  <2>3. CASE p = o /\ j = k
    <3>1. att'[p][j] = x
      BY <1>3, <2>0, <2>3
    <3>2. ~x.lost /\ ~att[p][j].lost
      BY <1>1, <2>3, <3>1 DEF Moves
    <3>3. CASE x.pc = "over" /\ ~x.taken
      BY <3>1, <3>3
    <3>4. CASE ~(x.pc = "over" /\ ~x.taken)
      <4>1. j < Len(att[p]) \/ call[p].pc \in {"sleep", "refetch"}
        BY <2>0, <2>1, <2>3, <3>2, <3>4
      <4>2. ~att[o][k].taken /\ att[o][k].pc = "over"
        BY <2>2, <2>3, <3>2, <4>1
      <4>. QED BY <1>1, <3>1, <4>2 DEF Moves
    <3>. QED BY <3>3, <3>4
  <2>4. CASE ~(p = o /\ j = k)
    <3>1. att'[p][j] = att[p][j]
      BY <1>3, <2>0, <2>4
    <3>2. j < Len(att[p]) \/ call[p].pc \in {"sleep", "refetch"}
      <4>1. CASE p # o
        BY <2>0, <2>1, <4>1
      <4>2. CASE p = o /\ call'[o] = call[o]
        BY <2>0, <4>2
      <4>3. CASE p = o /\ k = Len(att[o])
        <5>1. j # k /\ Len(att[p]) \in Nat
          BY <2>4, <4>3 DEF SdkType
        <5>. QED BY <2>0, <4>3, <5>1
      <4>. QED BY <2>1, <4>1, <4>2, <4>3
    <3>. QED BY <2>2, <3>1, <3>2
  <2>. QED BY <2>3, <2>4
<1>. QED BY <1>4, <1>5, <1>6 DEF AttemptsInv

\* The beginning of an attempt keeps them: the number it reserves is above all others.
LEMMA AttemptsBegin ==
    ASSUME SdkType, AttemptsInv, NEW o \in Ops, call[o].pc \in {"idle", "sleep"}, Begins(o)
    PROVE  AttemptsInv'
<1>1. PICK x \in AttemptType :
          /\ Appended(att, att', o, x) /\ ~x.taken /\ ~x.lost
          /\ \/ /\ cache # NoSeq /\ Numbered(x, cache, epoch) /\ cache' = cache + 1
             \/ /\ cache = NoSeq /\ x.seq = NoSeq /\ cache' = cache
  BY NewAttemptFields DEF Begins
<1>2. PICK n \in Nat : n = Len(att[o])
  BY DEF SdkType
<1>3. /\ Len(att'[o]) = n + 1 /\ att'[o][n + 1] = x
      /\ \A p \in Ops : p # o => att'[p] = att[p]
      /\ \A j \in 1..n : att'[o][j] = att[o][j]
  BY <1>1, <1>2 DEF Appended
<1>4. ASSUME NEW p \in Ops, NEW j \in 1..Len(att'[p])
      PROVE  \/ p = o /\ j = n + 1 /\ att'[p][j] = x
             \/ j \in 1..Len(att[p]) /\ att'[p][j] = att[p][j] /\ (p = o => j <= n)
  <2>1. CASE p = o
    BY <1>2, <1>3, <2>1
  <2>2. CASE p # o
    BY <1>3, <2>2
  <2>. QED BY <2>1, <2>2
<1>5. ASSUME NEW p \in Ops, NEW j \in 1..Len(att[p]) PROVE att[p][j] \in AttemptType
  <2>1. att[p] \in Seq(AttemptType)
    BY DEF SdkType
  <2>. QED BY <2>1
<1>6. cache \in Int /\ cache >= NoSeq /\ epoch \in Nat /\ epoch' = epoch
  BY DEF SdkType, Begins
<1>7. ASSUME NEW p \in Ops, NEW j \in 1..Len(att[p]), att[p][j].seq # NoSeq
      PROVE  /\ att[p][j].epoch <= epoch
             /\ att[p][j].epoch = epoch /\ cache # NoSeq => att[p][j].seq <= cache
             /\ att[p][j].seq \in Int
  BY <1>5, <1>7 DEF AttemptsInv, SeqBound, AttemptType
<1>8. SeqBound'
  <2>. SUFFICES ASSUME NEW p \in Ops, NEW j \in 1..Len(att'[p]), att'[p][j].seq # NoSeq
               PROVE  /\ att'[p][j].epoch <= epoch'
                      /\ att'[p][j].epoch = epoch' /\ cache' # NoSeq => att'[p][j].seq <= cache'
    BY DEF SeqBound, NoSeq
  <2>1. CASE att'[p][j] = x
    BY <1>1, <1>6, <2>1 DEF Numbered
  <2>2. CASE j \in 1..Len(att[p]) /\ att'[p][j] = att[p][j]
    <3>1. PICK s, m : s \in Int /\ s = att[p][j].seq /\ m = att[p][j].epoch
      BY <1>7, <2>2
    <3>2. m <= epoch /\ (m = epoch /\ cache # NoSeq => s <= cache)
      BY <1>7, <2>2, <3>1
    <3>3. cache' = cache \/ (cache # NoSeq /\ cache' = cache + 1)
      BY <1>1
    <3>. QED BY <1>6, <2>2, <3>1, <3>2, <3>3
  <2>. QED BY <1>4, <2>1, <2>2
<1>9. SeqDistinct'
  <2>. SUFFICES ASSUME NEW p \in Ops, NEW q \in Ops, NEW k \in 1..Len(att'[p]), NEW l \in 1..Len(att'[q]),
                      att'[p][k].seq # NoSeq, att'[p][k].seq = att'[q][l].seq, att'[p][k].epoch = att'[q][l].epoch
               PROVE  p = q /\ k = l
    BY DEF SeqDistinct, NoSeq
  <2>1. ASSUME NEW r \in Ops, NEW j \in 1..Len(att[r]), att[r][j].seq # NoSeq, att[r][j].seq = x.seq,
               att[r][j].epoch = x.epoch
        PROVE  FALSE
    <3>1. cache # NoSeq /\ x.seq = cache + 1 /\ x.epoch = epoch
      BY <1>1, <2>1 DEF Numbered
    <3>2. x.seq <= cache
      BY <1>7, <2>1, <3>1
    <3>. QED BY <1>6, <3>1, <3>2
  <2>2. CASE att'[p][k] = x /\ p = o /\ k = n + 1
    BY <1>4, <2>1, <2>2
  <2>3. CASE att'[q][l] = x /\ q = o /\ l = n + 1
    <3>1. CASE k \in 1..Len(att[p]) /\ att'[p][k] = att[p][k]
      BY <2>1, <2>3, <3>1
    <3>. QED BY <1>4, <2>3, <3>1
  <2>4. CASE /\ k \in 1..Len(att[p]) /\ att'[p][k] = att[p][k]
             /\ l \in 1..Len(att[q]) /\ att'[q][l] = att[q][l]
    BY <2>4 DEF AttemptsInv, SeqDistinct
  <2>. QED BY <1>4, <2>2, <2>3, <2>4
<1>10. TakenInv'
  <2>. SUFFICES ASSUME NEW p \in Ops, NEW j \in 1..Len(att'[p]), att'[p][j].taken
               PROVE  att'[p][j].answer = "PENDING" /\ att'[p][j].pc \in {"answer", "over"}
    BY DEF TakenInv
  <2>. QED BY <1>1, <1>4 DEF AttemptsInv, TakenInv
<1>11. GivenUpInv'
  <2>. SUFFICES ASSUME NEW p \in Ops, NEW j \in 1..Len(att'[p]), ~att'[p][j].lost,
                      j < Len(att'[p]) \/ call'[p].pc \in {"sleep", "refetch"}
               PROVE  ~att'[p][j].taken /\ att'[p][j].pc = "over"
    BY DEF GivenUpInv
  <2>1. PICK C \in [Ops -> CallType] : C = call
    BY DEF SdkType
  <2>2. call'[o].pc = "race" /\ \A q \in Ops : q # o => call'[q] = call[q]
    BY <2>1, CallMoves DEF CallPcs, Begins
  <2>3. CASE p # o
    <3>1. att'[p] = att[p] /\ call'[p] = call[p]
      BY <1>3, <2>2, <2>3
    <3>. QED BY <3>1 DEF AttemptsInv, GivenUpInv
  <2>4. CASE p = o
    <3>1. j \in 1..n /\ att'[o][j] = att[o][j]
      BY <1>3, <2>2, <2>4
    <3>2. call[o].pc = "sleep"
      <4>1. Len(att[o]) # 0
        BY <1>2, <3>1
      <4>. QED BY <4>1 DEF SdkType
    <3>. QED BY <1>2, <2>4, <3>1, <3>2 DEF AttemptsInv, GivenUpInv
  <2>. QED BY <2>3, <2>4
<1>. QED BY <1>8, <1>9, <1>10, <1>11 DEF AttemptsInv

\* An attempt with a seat waits for its number.
LEMMA SeatWaits ==
    ASSUME SdkType, WaitInv, NEW f \in 1..Len(fetches), fetches[f].open,
           NEW o, NEW k, NEW i \in SeatsOf(f, <<o, k>>)
    PROVE  /\ i \in 1..Len(Seats(f)) /\ Seats(f)[i] = <<o, k>>
           /\ o \in Ops /\ k \in 1..Len(att[o]) /\ att[o][k].pc = "fetch"
           /\ \E j \in 1..Len(fetches[f].waiters) : fetches[f].waiters[j] = <<o, k>>
<1>1. i \in 1..Len(Seats(f)) /\ Seats(f)[i] = <<o, k>>
  BY DEF SeatsOf
<1>2. PICK j \in 1..Len(fetches[f].waiters) : fetches[f].waiters[j] = <<o, k>>
  BY <1>1, SeatsType
<1>3. <<o, k>> \in Ops \X Attempts
  <2>1. PICK w \in Seq(Waiter) : w = fetches[f].waiters
    BY SeatsType
  <2>2. PICK K : K = Ops \X Attempts
    OBVIOUS
  <2>3. PICK y : y = <<o, k>>
    OBVIOUS
  <2>4. Seats(f) = Kept(w, K)
    BY <2>1, <2>2 DEF Seats
  <2>5. (\E m \in 1..Len(Kept(w, K)) : Kept(w, K)[m] = y) <=> y \in K /\ \E m \in 1..Len(w) : w[m] = y
    BY KeptElements
  <2>. QED BY <1>1, <2>2, <2>3, <2>4, <2>5
<1>4. o \in Ops /\ k \in Attempts
  BY <1>3
<1>5. k # 0
  BY <1>4 DEF Attempts
<1>6. PICK y : y = <<o, k>>
  OBVIOUS
<1>7. Waits(y) /\ y[1] = o /\ y[2] = k
  BY <1>2, <1>6 DEF WaitInv
<1>8. k \in 1..Len(att[o]) /\ att[o][k].pc = "fetch"
  BY <1>5, <1>7 DEF Waits
<1>. QED BY <1>1, <1>2, <1>4, <1>8

\* A call that asked anew waits for the answer.
LEMMA RefetcherWaits ==
    ASSUME WaitInv, NEW f \in 1..Len(fetches), fetches[f].open, NEW o \in RefetchersOf(f)
    PROVE  o \in Ops /\ call[o].pc = "refetch"
<1>1. o \in Ops
  BY DEF RefetchersOf
<1>2. PICK j \in 1..Len(fetches[f].waiters) : fetches[f].waiters[j] = <<o, 0>>
  BY DEF RefetchersOf
<1>3. PICK y : y = <<o, 0>>
  OBVIOUS
<1>4. Waits(y) /\ y[1] = o /\ y[2] = 0
  BY <1>2, <1>3 DEF WaitInv
<1>. QED BY <1>1, <1>4 DEF Waits

\* An answer keeps them: its numbers are of a new epoch, one for each seat.
LEMMA AttemptsAnswered ==
    ASSUME SdkType, AttemptsInv, WaitInv, NEW f \in 1..Len(fetches), NEW v \in Nat, FetchAnswered(f, v)
    PROVE  AttemptsInv'
<1>1. AnswerEffect(f, v)
  BY AnswerStep
<1>2. fetches[f].open
  BY DEF FetchAnswered
<1>3. PICK m \in Nat, n \in Nat : m = Len(Seats(f)) /\ n = epoch
  BY SeatsType DEF SdkType
<1>4. cache' = v + m /\ epoch' = n + 1
  BY <1>3 DEF FetchAnswered
<1>5. \A o \in Ops : Len(att'[o]) = Len(att[o])
  BY <1>1 DEF AnswerEffect
<1> DEFINE Old(o, k) == att'[o][k] = att[o][k]
           New(o, k, i) == /\ i \in 1..m /\ Seats(f)[i] = <<o, k>> /\ att[o][k].pc = "fetch"
                           /\ att'[o][k].pc = "prepare" /\ att'[o][k].seq = v + i /\ att'[o][k].epoch = n + 1
                           /\ att'[o][k].taken = att[o][k].taken /\ att'[o][k].lost = att[o][k].lost
<1>6. ASSUME NEW o \in Ops, NEW k \in 1..Len(att[o])
      PROVE  Old(o, k) \/ \E i \in 1..m : New(o, k, i)
  <2>1. CASE SeatsOf(f, <<o, k>>) = {}
    BY <1>1, <2>1 DEF AnswerEffect
  <2>2. CASE SeatsOf(f, <<o, k>>) # {}
    <3>1. PICK i \in SeatsOf(f, <<o, k>>) :
             /\ Numbered(att'[o][k], v + i - 1, n + 1)
             /\ att'[o][k].taken = att[o][k].taken /\ att'[o][k].lost = att[o][k].lost
      BY <1>1, <1>3, <2>2 DEF AnswerEffect, Seated
    <3>2. i \in 1..m /\ Seats(f)[i] = <<o, k>> /\ att[o][k].pc = "fetch"
      BY <1>2, <1>3, SeatWaits
    <3>3. att'[o][k].pc = "prepare" /\ att'[o][k].seq = (v + i - 1) + 1 /\ att'[o][k].epoch = n + 1
      BY <3>1 DEF Numbered
    <3>4. (v + i - 1) + 1 = v + i
      BY ONLY v \in Nat, <3>2
    <3>. QED BY <3>1, <3>2, <3>3, <3>4
  <2>. QED BY <2>1, <2>2
<1>7. ASSUME NEW o \in Ops, NEW k \in 1..Len(att[o]), att[o][k].seq # NoSeq
      PROVE  att[o][k].epoch <= n /\ att[o][k].epoch \in Nat
  <2>1. att[o] \in Seq(AttemptType)
    BY DEF SdkType
  <2>2. att[o][k] \in AttemptType
    BY <2>1
  <2>. QED BY <1>3, <1>7, <2>2 DEF AttemptsInv, SeqBound, AttemptType
<1>8. SeqBound'
  <2>. SUFFICES ASSUME NEW p \in Ops, NEW j \in 1..Len(att'[p]), att'[p][j].seq # NoSeq
               PROVE  /\ att'[p][j].epoch <= epoch'
                      /\ att'[p][j].epoch = epoch' => att'[p][j].seq <= cache'
    BY DEF SeqBound, NoSeq
  <2>0. j \in 1..Len(att[p])
    BY <1>5
  <2>1. CASE Old(p, j)
    <3>1. PICK e \in Nat : e = att'[p][j].epoch /\ e <= n
      BY <1>7, <2>0, <2>1
    <3>. QED BY <1>4, <3>1
  <2>2. ASSUME NEW i \in 1..m, New(p, j, i)
        PROVE  /\ att'[p][j].epoch <= epoch'
               /\ att'[p][j].epoch = epoch' => att'[p][j].seq <= cache'
    BY <1>4, <2>2
  <2>. QED BY <1>6, <2>0, <2>1, <2>2, ZenonT(40)
<1>9. SeqDistinct'
  <2>. SUFFICES ASSUME NEW p \in Ops, NEW q \in Ops, NEW k \in 1..Len(att'[p]), NEW l \in 1..Len(att'[q]),
                      att'[p][k].seq # NoSeq, att'[p][k].seq = att'[q][l].seq, att'[p][k].epoch = att'[q][l].epoch
               PROVE  p = q /\ k = l
    BY DEF SeqDistinct, NoSeq
  <2>0. k \in 1..Len(att[p]) /\ l \in 1..Len(att[q])
    BY <1>5
  <2>1. ASSUME NEW r \in Ops, NEW j \in 1..Len(att[r]), Old(r, j), att'[r][j].seq # NoSeq PROVE att'[r][j].epoch # n + 1
    <3>1. PICK e \in Nat : e = att'[r][j].epoch /\ e <= n
      BY <1>7, <2>1
    <3>. QED BY <3>1
  <2>2. CASE Old(p, k) /\ Old(q, l)
    BY <2>0, <2>2 DEF AttemptsInv, SeqDistinct
  <2>3. ASSUME NEW i \in 1..m, New(p, k, i), Old(q, l) PROVE FALSE
    BY <2>0, <2>1, <2>3
  <2>4. ASSUME NEW i \in 1..m, New(q, l, i), Old(p, k) PROVE FALSE
    BY <2>0, <2>1, <2>4
  <2>5. ASSUME NEW i \in 1..m, New(p, k, i), NEW j \in 1..m, New(q, l, j) PROVE p = q /\ k = l
    <3>1. v + i = v + j
      BY <2>5
    <3>2. i = j
      BY ONLY <3>1, v \in Nat, m \in Nat, i \in 1..m, j \in 1..m
    <3>3. <<p, k>> = <<q, l>>
      BY <2>5, <3>2
    <3>. QED BY <3>3
  <2> HIDE DEF Old, New
  <2>. QED BY <1>6, <2>0, <2>2, <2>3, <2>4, <2>5
<1>10. TakenInv'
  <2>. SUFFICES ASSUME NEW p \in Ops, NEW j \in 1..Len(att'[p]), att'[p][j].taken
               PROVE  att'[p][j].answer = "PENDING" /\ att'[p][j].pc \in {"answer", "over"}
    BY DEF TakenInv
  <2>0. j \in 1..Len(att[p])
    BY <1>5
  <2>1. CASE Old(p, j)
    BY <2>0, <2>1 DEF AttemptsInv, TakenInv
  <2>2. ASSUME NEW i \in 1..m, New(p, j, i) PROVE FALSE
    BY <2>0, <2>2 DEF AttemptsInv, TakenInv
  <2>. QED BY <1>6, <2>0, <2>1, <2>2
<1>11. GivenUpInv'
  <2>. SUFFICES ASSUME NEW p \in Ops, NEW j \in 1..Len(att'[p]), ~att'[p][j].lost,
                      j < Len(att'[p]) \/ call'[p].pc \in {"sleep", "refetch"}
               PROVE  ~att'[p][j].taken /\ att'[p][j].pc = "over"
    BY DEF GivenUpInv
  <2>0. j \in 1..Len(att[p]) /\ Len(att'[p]) = Len(att[p])
    BY <1>5
  <2>1. j < Len(att[p]) \/ call[p].pc \in {"sleep", "refetch"}
    <3>1. CASE p \in RefetchersOf(f)
      BY <1>2, <3>1, RefetcherWaits
    <3>2. CASE p \notin RefetchersOf(f)
      <4>1. call'[p] = call[p]
        BY <3>2 DEF FetchAnswered
      <4>. QED BY <2>0, <4>1
    <3>. QED BY <3>1, <3>2
  <2>2. ~att[p][j].lost => ~att[p][j].taken /\ att[p][j].pc = "over"
    BY <2>0, <2>1 DEF AttemptsInv, GivenUpInv
  <2>3. CASE Old(p, j)
    BY <2>2, <2>3
  <2>4. ASSUME NEW i \in 1..m, New(p, j, i) PROVE FALSE
    BY <2>2, <2>4
  <2>. QED BY <1>6, <2>0, <2>3, <2>4, ZenonT(40)
<1>. QED BY <1>8, <1>9, <1>10, <1>11 DEF AttemptsInv

\* A failed request keeps them: who waited for it had not been sent.
LEMMA AttemptsFailed ==
    ASSUME SdkType, AttemptsInv, WaitInv, NEW f \in 1..Len(fetches), Fails(f)
    PROVE  AttemptsInv'
<1>1. FailEffect(f)
  BY FailStep
<1>2. fetches[f].open /\ cache' = cache /\ epoch' = epoch
  BY DEF Fails, FetchFailed
<1>3. \A o \in Ops : Len(att'[o]) = Len(att[o])
  BY <1>1 DEF FailEffect
<1> DEFINE New(o, k) == /\ SeatsOf(f, <<o, k>>) # {} /\ att[o][k].pc = "fetch"
                        /\ att'[o][k].pc = "over"
                        /\ att'[o][k].seq = att[o][k].seq /\ att'[o][k].epoch = att[o][k].epoch
                        /\ att'[o][k].taken = att[o][k].taken /\ att'[o][k].lost = att[o][k].lost
<1>4. ASSUME NEW o \in Ops, NEW k \in 1..Len(att[o])
      PROVE  (att'[o][k] = att[o][k] /\ SeatsOf(f, <<o, k>>) = {}) \/ New(o, k)
  <2>1. CASE SeatsOf(f, <<o, k>>) = {}
    BY <1>1, <2>1 DEF FailEffect
  <2>2. CASE SeatsOf(f, <<o, k>>) # {}
    <3>1. att[o][k].pc = "fetch"
      BY <1>2, <2>2, SeatWaits
    <3>. QED BY <1>1, <2>2, <3>1 DEF FailEffect, Unseated
  <2>. QED BY <2>1, <2>2
<1>5. SeqBound' /\ SeqDistinct'
  <2>1. SameNumbers
    BY <1>2, <1>3, <1>4 DEF SameNumbers
  <2>. QED BY <2>1, NumbersKept DEF AttemptsInv
<1>6. ASSUME NEW o \in Ops, NEW k \in 1..Len(att[o]), New(o, k) PROVE ~att'[o][k].taken
  BY <1>6 DEF AttemptsInv, TakenInv
<1>7. TakenInv'
  <2>. SUFFICES ASSUME NEW p \in Ops, NEW j \in 1..Len(att'[p]), att'[p][j].taken
               PROVE  att'[p][j].answer = "PENDING" /\ att'[p][j].pc \in {"answer", "over"}
    BY DEF TakenInv
  <2>0. j \in 1..Len(att[p])
    BY <1>3
  <2>1. att'[p][j] = att[p][j]
    BY <1>4, <1>6, <2>0
  <2>. QED BY <2>0, <2>1 DEF AttemptsInv, TakenInv
<1>8. GivenUpInv'
  <2>. SUFFICES ASSUME NEW p \in Ops, NEW j \in 1..Len(att'[p]), ~att'[p][j].lost,
                      j < Len(att'[p]) \/ call'[p].pc \in {"sleep", "refetch"}
               PROVE  ~att'[p][j].taken /\ att'[p][j].pc = "over"
    BY DEF GivenUpInv
  <2>0. j \in 1..Len(att[p]) /\ Len(att'[p]) = Len(att[p]) /\ Len(att[p]) \in Nat
    BY <1>3 DEF SdkType
  <2>1. CASE New(p, j)
    BY <1>6, <2>0, <2>1
  <2>2. CASE att'[p][j] = att[p][j] /\ SeatsOf(f, <<p, j>>) = {}
    <3>1. j < Len(att[p]) \/ call[p].pc \in {"sleep", "refetch"}
      <4>1. CASE p \in RefetchersOf(f)
        BY <1>2, <4>1, RefetcherWaits
      <4>2. CASE call'[p] = call[p]
        BY <2>0, <4>2
      <4>3. CASE SeatsOf(f, <<p, Tries(p)>>) # {}
        <5>1. j # Len(att[p])
          BY <2>2, <4>3 DEF Tries
        <5>. QED BY <2>0, <5>1
      <4>. QED BY <4>1, <4>2, <4>3, FetchCalls
    <3>. QED BY <2>0, <2>2, <3>1 DEF AttemptsInv, GivenUpInv
  <2>. QED BY <1>4, <2>0, <2>1, <2>2
<1>. QED BY <1>5, <1>7, <1>8 DEF AttemptsInv

-----------------------------------------------------------------------------
\* Whoever waits goes on waiting.
StillWaits == \A w \in Waiter : Waits(w) => Waits(w)'

\* The waiters of a request.
LEMMA WaitersType ==
    ASSUME SdkType, NEW f \in 1..Len(fetches)
    PROVE  /\ fetches[f].waiters \in Seq(Waiter)
           /\ \A i \in 1..Len(fetches[f].waiters) : fetches[f].waiters[i] \in Waiter
<1>1. PICK w \in Seq(Waiter) : w = fetches[f].waiters
  BY SeatsType
<1>2. \A i \in 1..Len(w) : w[i] \in Waiter
  OBVIOUS
<1>. QED BY <1>1, <1>2

\* If no request changes and whoever waits goes on waiting, that part of the invariant is kept.
LEMMA WaitSame ==
    ASSUME SdkType, WaitInv, StillWaits, fetches' = fetches
    PROVE  WaitInv'
<1>1. ASSUME NEW f \in 1..Len(fetches), fetches[f].open, NEW i \in 1..Len(fetches[f].waiters)
      PROVE  Waits(fetches[f].waiters[i])'
  <2>1. PICK w \in Waiter : w = fetches[f].waiters[i]
    BY WaitersType
  <2>2. Waits(w)
    BY <1>1, <2>1 DEF WaitInv
  <2>3. w' = fetches'[f].waiters[i]
    BY <2>1
  <2>4. Waits(w)'
    BY <2>2 DEF StillWaits
  <2>. QED BY <2>3, <2>4 DEF Waits
<1>. QED BY <1>1 DEF WaitInv

\* A newcomer w joins one request.
Joins(w) ==
    \/ /\ inflight \in 1..Len(fetches) /\ Len(fetches') = Len(fetches)
       /\ \A g \in 1..Len(fetches) : g # inflight => fetches'[g] = fetches[g]
       /\ fetches'[inflight].open = fetches[inflight].open
       /\ fetches'[inflight].waiters = Append(fetches[inflight].waiters, w)
    \/ /\ Len(fetches') = Len(fetches) + 1
       /\ \A g \in 1..Len(fetches) : fetches'[g] = fetches[g]
       /\ fetches'[Len(fetches) + 1].waiters = <<w>>

\* If one that did not wait joins a request, it is kept, too.
LEMMA WaitJoin ==
    ASSUME SdkType, WaitInv, StillWaits, NEW w \in Waiter, ~Waits(w), Waits(w)', Joins(w)
    PROVE  WaitInv'
<1> DEFINE In(f, u) == \E i \in 1..Len(fetches[f].waiters) : fetches[f].waiters[i] = u
           InNew(f, u) == \E i \in 1..Len(fetches'[f].waiters) : fetches'[f].waiters[i] = u
<1>1. PICK r \in Nat : \A g \in 1..Len(fetches') :
          IF g = r THEN \A u : InNew(g, u) => u = w \/ (g \in 1..Len(fetches) /\ In(g, u) /\ fetches[g].open = fetches'[g].open)
          ELSE g \in 1..Len(fetches) /\ fetches'[g] = fetches[g]
  <2>0. Len(fetches) \in Nat
    BY DEF SdkType
  <2>1. CASE /\ inflight \in 1..Len(fetches) /\ Len(fetches') = Len(fetches)
             /\ \A g \in 1..Len(fetches) : g # inflight => fetches'[g] = fetches[g]
             /\ fetches'[inflight].open = fetches[inflight].open
             /\ fetches'[inflight].waiters = Append(fetches[inflight].waiters, w)
    <3>1. PICK r \in 1..Len(fetches) : r = inflight
      BY <2>1
    <3>2. PICK q \in Seq(Waiter) : q = fetches[r].waiters
      BY WaitersType
    <3>3. Len(Append(q, w)) = Len(q) + 1 /\ \A i \in 1..(Len(q) + 1) : Append(q, w)[i] = IF i = Len(q) + 1 THEN w ELSE q[i]
      OBVIOUS
    <3>4. fetches'[r].waiters = Append(q, w)
      BY <2>1, <3>1, <3>2
    <3>5. ASSUME NEW u, InNew(r, u) PROVE u = w \/ In(r, u)
      <4>1. PICK i \in 1..(Len(q) + 1) : Append(q, w)[i] = u
        BY <3>3, <3>4, <3>5
      <4>2. CASE i = Len(q) + 1
        BY <3>3, <4>1, <4>2
      <4>3. CASE i \in 1..Len(q)
        BY <3>2, <3>3, <4>1, <4>3
      <4>4. Len(q) \in Nat
        OBVIOUS
      <4>. QED BY <4>1, <4>2, <4>3, <4>4
    <3>6. r \in Nat
      BY <2>0
    <3> HIDE DEF In, InNew
    <3>. QED BY <2>1, <3>1, <3>5, <3>6
  <2>2. CASE /\ Len(fetches') = Len(fetches) + 1
             /\ \A g \in 1..Len(fetches) : fetches'[g] = fetches[g]
             /\ fetches'[Len(fetches) + 1].waiters = <<w>>
    <3>1. PICK r \in Nat : r = Len(fetches) + 1
      BY <2>0
    <3>2. fetches'[r].waiters = <<w>>
      BY <2>2, <3>1
    <3>3. ASSUME NEW u, InNew(r, u) PROVE u = w
      BY <3>2, <3>3
    <3>4. \A g \in 1..Len(fetches') : g = r \/ g \in 1..Len(fetches)
      BY <2>0, <2>2, <3>1
    <3> HIDE DEF In, InNew
    <3>. QED BY <2>2, <3>3, <3>4
  <2>. QED BY <2>1, <2>2 DEF Joins
<1>2. ASSUME NEW g \in 1..Len(fetches'), fetches'[g].open, NEW u, InNew(g, u)
      PROVE  (u = w /\ g = r) \/ (g \in 1..Len(fetches) /\ fetches[g].open /\ In(g, u))
  <2>1. CASE g = r
    <3> HIDE DEF In, InNew
    <3>. QED BY <1>1, <1>2, <2>1
  <2>2. CASE g # r
    BY <1>1, <1>2, <2>2
  <2>. QED BY <2>1, <2>2
<1>3. ASSUME NEW g \in 1..Len(fetches), fetches[g].open, NEW u, In(g, u) PROVE u \in Waiter /\ Waits(u)
  BY <1>3, WaitersType DEF WaitInv
<1>4. ASSUME NEW g \in 1..Len(fetches'), fetches'[g].open, NEW u, InNew(g, u) PROVE Waits(u)'
  <2>1. CASE u = w
    BY <2>1
  <2>2. CASE g \in 1..Len(fetches) /\ fetches[g].open /\ In(g, u)
    <3>1. u \in Waiter /\ Waits(u)
      <4> HIDE DEF In
      <4>. QED BY <1>3, <2>2
    <3>. QED BY <3>1 DEF StillWaits
  <2> HIDE DEF In, InNew
  <2>. QED BY <1>2, <1>4, <2>1, <2>2
<1>5. ASSUME NEW f \in 1..Len(fetches'), NEW g \in 1..Len(fetches'), f # g, fetches'[f].open, fetches'[g].open,
             NEW u, InNew(f, u), InNew(g, u)
      PROVE  FALSE
  <2>1. ASSUME NEW h \in 1..Len(fetches), fetches[h].open, In(h, w) PROVE FALSE
    <3> HIDE DEF In
    <3>. QED BY <1>3, <2>1
  <2>2. ASSUME f \in 1..Len(fetches), fetches[f].open, In(f, u), g \in 1..Len(fetches), fetches[g].open, In(g, u)
        PROVE  FALSE
    BY <1>5, <2>2 DEF WaitInv
  <2> HIDE DEF In, InNew
  <2>. QED BY <1>2, <1>5, <2>1, <2>2
<1>6. (\A f \in 1..Len(fetches) : fetches[f].open =>
          \A i \in 1..Len(fetches[f].waiters) : Waits(fetches[f].waiters[i]))'
  <2>1. ASSUME NEW f \in 1..Len(fetches'), fetches'[f].open, NEW i \in 1..Len(fetches'[f].waiters)
        PROVE  Waits(fetches[f].waiters[i])'
    <3>1. PICK u : u = fetches'[f].waiters[i]
      OBVIOUS
    <3>2. Waits(u)'
      BY <1>4, <2>1, <3>1
    <3>. QED BY <3>1, <3>2 DEF Waits
  <2>. QED BY <2>1
<1>7. (\A f, g \in 1..Len(fetches) : f # g /\ fetches[f].open /\ fetches[g].open =>
          \A i \in 1..Len(fetches[f].waiters), j \in 1..Len(fetches[g].waiters) :
              fetches[f].waiters[i] # fetches[g].waiters[j])'
  BY <1>5
<1>. QED BY <1>6, <1>7 DEF WaitInv

\* Its parts after each of the steps.
LEMMA WaitAttempt ==
    ASSUME SdkType, WaitInv, NEW o \in Ops, NEW k \in 1..Len(att[o]), AttemptStep(o, k)
    PROVE  WaitInv'
<1>1. PICK x : Moves(att[o][k], x) /\ Replaced(att, att', o, k, x) /\ Reports(o, k, x)
  BY DEF AttemptStep
<1>2. \A p \in Ops : /\ Len(att'[p]) = Len(att[p])
                     /\ \A j \in 1..Len(att[p]) : att'[p][j].pc = "fetch" <=> att[p][j].pc = "fetch"
  BY <1>1 DEF Replaced, Moves
<1>3. /\ \A p \in Ops : p # o => call'[p] = call[p]
      /\ \/ call'[o] = call[o] /\ fetches' = fetches
         \/ call[o].pc = "race" /\ fetches' = fetches
         \/ /\ call[o].pc = "race" /\ call'[o].pc = "refetch"
            /\ fetches' = Append(fetches, [open |-> TRUE, lo |-> chain, waiters |-> <<<<o, 0>>>>])
  BY <1>1, ReportsType
<1>4. StillWaits
  <2>. SUFFICES ASSUME NEW w \in Waiter, Waits(w) PROVE Waits(w)'
    BY DEF StillWaits
  <2>1. w[1] \in Ops
    BY DEF Waiter
  <2>2. CASE w[2] = 0
    BY <1>3, <2>1, <2>2 DEF Waits
  <2>3. CASE w[2] # 0
    BY <1>2, <2>1, <2>3 DEF Waits
  <2>. QED BY <2>2, <2>3
<1>5. CASE fetches' = fetches
  BY <1>4, <1>5, WaitSame
<1>6. CASE /\ call[o].pc = "race" /\ call'[o].pc = "refetch"
           /\ fetches' = Append(fetches, [open |-> TRUE, lo |-> chain, waiters |-> <<<<o, 0>>>>])
  <2>1. PICK w \in Waiter : w = <<o, 0>>
    BY DEF Waiter
  <2>2. w[1] = o /\ w[2] = 0
    BY <2>1
  <2>3. ~Waits(w) /\ Waits(w)'
    BY <1>6, <2>2 DEF Waits
  <2>4. Joins(w)
    <3>1. PICK y : y = [open |-> TRUE, lo |-> chain, waiters |-> <<w>>]
      OBVIOUS
    <3>2. y.waiters = <<w>> /\ fetches' = Append(fetches, y)
      BY <1>6, <2>1, <3>1
    <3>3. fetches \in Seq(FetchType)
      BY DEF SdkType
    <3>4. /\ Len(fetches') = Len(fetches) + 1 /\ fetches'[Len(fetches) + 1] = y
          /\ \A g \in 1..Len(fetches) : fetches'[g] = fetches[g]
      BY ONLY <3>2, <3>3
    <3>. QED BY <3>2, <3>4 DEF Joins
  <2>. QED BY <1>4, <2>3, <2>4, WaitJoin
<1>. QED BY <1>3, <1>5, <1>6

\* After an attempt has begun: it joins a request under a number it never had.
LEMMA WaitBegin ==
    ASSUME SdkType, WaitInv, NEW o \in Ops, call[o].pc \in {"idle", "sleep"}, Begins(o)
    PROVE  WaitInv'
<1>1. PICK x \in AttemptType :
          /\ Appended(att, att', o, x)
          /\ \/ UNCHANGED fetches
             \/ x = NewAttempt /\ AskAccount(<<o, Len(att[o]) + 1>>, inflight, fetches)
  BY DEF Begins
<1>2. PICK n \in Nat : n = Len(att[o]) + 1
  BY DEF SdkType
<1>3. /\ Len(att'[o]) = n /\ att'[o][n] = x
      /\ \A p \in Ops : p # o => att'[p] = att[p]
      /\ \A j \in 1..Len(att[o]) : att'[o][j] = att[o][j]
  BY <1>1, <1>2 DEF Appended
<1>4. Len(att[o]) \in Nat
  BY DEF SdkType
<1>5. StillWaits
  <2>. SUFFICES ASSUME NEW w \in Waiter, Waits(w) PROVE Waits(w)'
    BY DEF StillWaits
  <2>1. w[1] \in Ops
    BY DEF Waiter
  <2>2. CASE w[2] = 0
    <3>1. w[1] # o
      BY <2>2 DEF Waits
    <3>2. call'[w[1]] = call[w[1]]
      BY <2>1, <3>1 DEF Begins, SdkType
    <3>. QED BY <2>2, <3>2 DEF Waits
  <2>3. CASE w[2] # 0
    <3>1. CASE w[1] = o
      <4>1. w[2] \in 1..Len(att[o]) /\ att[o][w[2]].pc = "fetch"
        BY <2>3, <3>1 DEF Waits
      <4>2. w[2] \in 1..Len(att'[o]) /\ att'[o][w[2]] = att[o][w[2]]
        BY <1>2, <1>3, <1>4, <4>1
      <4>. QED BY <2>3, <3>1, <4>1, <4>2 DEF Waits
    <3>2. CASE w[1] # o
      BY <1>3, <2>1, <2>3, <3>2 DEF Waits
    <3>. QED BY <3>1, <3>2
  <2>. QED BY <2>2, <2>3
<1>6. CASE UNCHANGED fetches
  BY <1>5, <1>6, WaitSame
<1>7. CASE x = NewAttempt /\ AskAccount(<<o, Len(att[o]) + 1>>, inflight, fetches)
  <2>1. PICK w \in Waiter : w = <<o, n>>
    BY DEF Waiter
  <2>2. w[1] = o /\ w[2] = n
    BY <2>1
  <2>3. AskAccount(w, inflight, fetches)
    BY <1>2, <1>7, <2>1
  <2>4. Joins(w)
    BY <2>3, AskType DEF Joins
  <2>5. n # 0 /\ n \notin 1..Len(att[o]) /\ n \in 1..Len(att'[o])
    BY <1>2, <1>3, <1>4
  <2>6. att'[o][n].pc = "fetch"
    BY <1>3, <1>7, NewAttemptFields
  <2>7. ~Waits(w) /\ Waits(w)'
    BY <2>2, <2>5, <2>6 DEF Waits
  <2>. QED BY <1>5, <2>4, <2>7, WaitJoin
<1>. QED BY <1>1, <1>6, <1>7

\* After a request was answered or has failed: its waiters wait for no other.
LEMMA WaitFetch ==
    ASSUME SdkType, WaitInv, NEW f \in 1..Len(fetches),
           Fails(f) \/ \E v \in Nat : FetchAnswered(f, v)
    PROVE  WaitInv'
<1>1. /\ Len(fetches') = Len(fetches) /\ ~fetches'[f].open
      /\ \A g \in 1..Len(fetches) : g # f => fetches'[g] = fetches[g]
      /\ \A o \in Ops : o \notin RefetchersOf(f) => call'[o] = call[o] \/ call[o].pc = "race"
  BY FetchCalls
<1>2. fetches[f].open
  BY DEF Fails, FetchFailed, FetchAnswered
<1>3. ASSUME NEW o \in Ops, NEW k \in 1..Len(att[o]), SeatsOf(f, <<o, k>>) = {}
      PROVE  Len(att'[o]) = Len(att[o]) /\ att'[o][k] = att[o][k]
  <2>1. CASE Fails(f)
    <3>1. FailEffect(f)
      BY <2>1, FailStep
    <3>. QED BY <1>3, <3>1 DEF FailEffect
  <2>2. ASSUME NEW v \in Nat, FetchAnswered(f, v) PROVE Len(att'[o]) = Len(att[o]) /\ att'[o][k] = att[o][k]
    <3>1. AnswerEffect(f, v)
      BY <2>2, AnswerStep
    <3>. QED BY <1>3, <3>1 DEF AnswerEffect
  <2>. QED BY <2>1, <2>2
<1>4. ASSUME NEW g \in 1..Len(fetches), g # f, fetches[g].open, NEW i \in 1..Len(fetches[g].waiters)
      PROVE  Waits(fetches[g].waiters[i])'
  <2>1. PICK w \in Waiter : w = fetches[g].waiters[i]
    BY WaitersType
  <2>2. Waits(w)
    BY <1>4, <2>1 DEF WaitInv
  <2>3. \A j \in 1..Len(fetches[f].waiters) : fetches[f].waiters[j] # w
    BY <1>2, <1>4, <2>1 DEF WaitInv
  <2>4. PICK o \in Ops, k \in Nat : w = <<o, k>>
    BY DEF Waiter
  <2>5. w[1] = o /\ w[2] = k
    BY <2>4
  <2>6. Waits(w)'
    <3>1. CASE k = 0
      <4>1. o \notin RefetchersOf(f)
        BY <2>3, <2>4, <3>1 DEF RefetchersOf
      <4>2. call[o].pc = "refetch"
        BY <2>2, <2>5, <3>1 DEF Waits
      <4>3. call'[o] = call[o]
        BY <1>1, <4>1, <4>2
      <4>. QED BY <2>5, <3>1, <4>2, <4>3 DEF Waits
    <3>2. CASE k # 0
      <4>1. k \in 1..Len(att[o]) /\ att[o][k].pc = "fetch"
        BY <2>2, <2>5, <3>2 DEF Waits
      <4>2. SeatsOf(f, <<o, k>>) = {}
        <5>1. ASSUME NEW j \in SeatsOf(f, <<o, k>>) PROVE FALSE
          <6>1. j \in 1..Len(Seats(f)) /\ Seats(f)[j] = w
            BY <2>4 DEF SeatsOf
          <6>2. \E m \in 1..Len(fetches[f].waiters) : fetches[f].waiters[m] = w
            BY <6>1, SeatsType
          <6>. QED BY <2>3, <6>2
        <5>. QED BY <5>1
      <4>3. Len(att'[o]) = Len(att[o]) /\ att'[o][k] = att[o][k]
        BY <1>3, <4>1, <4>2
      <4>. QED BY <2>5, <3>2, <4>1, <4>3 DEF Waits
    <3>. QED BY <3>1, <3>2
  <2>7. fetches'[g] = fetches[g]
    BY <1>1, <1>4
  <2>. QED BY <2>1, <2>6, <2>7 DEF Waits
<1>5. (\A g \in 1..Len(fetches) : fetches[g].open =>
          \A i \in 1..Len(fetches[g].waiters) : Waits(fetches[g].waiters[i]))'
  <2>1. ASSUME NEW g \in 1..Len(fetches'), fetches'[g].open, NEW i \in 1..Len(fetches'[g].waiters)
        PROVE  Waits(fetches[g].waiters[i])'
    <3>1. g \in 1..Len(fetches) /\ g # f
      BY <1>1, <2>1
    <3>2. fetches'[g] = fetches[g]
      BY <1>1, <3>1
    <3>3. i \in 1..Len(fetches[g].waiters) /\ fetches[g].open
      BY <2>1, <3>2
    <3>. QED BY <1>4, <3>1, <3>3
  <2>. QED BY <2>1
<1>6. (\A h, g \in 1..Len(fetches) : h # g /\ fetches[h].open /\ fetches[g].open =>
          \A i \in 1..Len(fetches[h].waiters), j \in 1..Len(fetches[g].waiters) :
              fetches[h].waiters[i] # fetches[g].waiters[j])'
  BY <1>1, SMTT(30) DEF WaitInv
<1>. QED BY <1>5, <1>6 DEF WaitInv

\* A poll keeps the invariant.
LEMMA PollKeeps ==
    ASSUME SdkInv, NEW o \in Ops, PollEffect(o)
    PROVE  SdkInv'
<1>1. SdkType'
  BY DEF SdkInv, SdkType, PollEffect
<1>2. SeqBound' /\ SeqDistinct' /\ TakenInv'
  BY DEF SdkInv, PollEffect, SeqBound, SeqDistinct, TakenInv
<1>3. GivenUpInv'
  BY DEF SdkInv, PollEffect, GivenUpInv
<1>4. WaitInv'
  <2>1. StillWaits
    BY DEF StillWaits, Waits, PollEffect, Waiter
  <2>. QED BY <2>1, WaitSame DEF SdkInv, PollEffect
<1>. QED BY <1>1, <1>2, <1>3, <1>4 DEF SdkInv

\* A refresh keeps the types,
LEMMA TypeRefresh ==
    ASSUME SdkType, RefreshEffect
    PROVE  SdkType'
<1>1. ASSUME NEW o \in Ops PROVE call'[o].pc = "idle" <=> Len(att'[o]) = 0
  <2>1. CASE att'[o] = att[o] /\ call'[o] = call[o]
    BY <2>1 DEF SdkType
  <2>2. CASE Spoiled(o)
    <3>1. call'[o].pc # "idle" /\ Len(att'[o]) # 0
      BY <2>2 DEF Spoiled
    <3>. QED BY <3>1
  <2>. QED BY <2>1, <2>2 DEF RefreshEffect
<1>2. \A t \in pool' : t[1] \in Ops /\ t[2] \in 1..Len(att'[t[1]])
  BY DEF SdkType, RefreshEffect, Spoiled
<1>3. Len(fetches) \in Nat
  BY DEF SdkType
<1>. QED BY <1>1, <1>2, <1>3 DEF SdkType, RefreshEffect, NoSeq

\* and the parts about the attempts.
LEMMA AttemptsRefresh ==
    ASSUME SdkType, AttemptsInv, RefreshEffect
    PROVE  AttemptsInv'
<1>1. ASSUME NEW o \in Ops, NEW k \in 1..Len(att'[o])
      PROVE  \/ k \in 1..Len(att[o]) /\ att'[o] = att[o] /\ call'[o] = call[o]
             \/ att'[o][k].seq = NoSeq /\ ~att'[o][k].taken /\ att'[o][k].pc = "over"
  BY DEF RefreshEffect, Spoiled
<1>2. epoch' = epoch /\ cache' = NoSeq
  BY DEF RefreshEffect
<1>3. SeqBound'
  BY <1>1, <1>2 DEF AttemptsInv, SeqBound, NoSeq
<1>4. SeqDistinct'
  <2>. SUFFICES ASSUME NEW o \in Ops, NEW p \in Ops, NEW k \in 1..Len(att'[o]), NEW l \in 1..Len(att'[p]),
                      att'[o][k].seq # NoSeq, att'[o][k].seq = att'[p][l].seq, att'[o][k].epoch = att'[p][l].epoch
               PROVE  o = p /\ k = l
    BY DEF SeqDistinct, NoSeq
  <2>1. /\ k \in 1..Len(att[o]) /\ att'[o] = att[o]
        /\ l \in 1..Len(att[p]) /\ att'[p] = att[p]
    BY <1>1
  <2>. QED BY <2>1 DEF AttemptsInv, SeqDistinct
<1>5. TakenInv'
  BY <1>1 DEF AttemptsInv, TakenInv
<1>6. GivenUpInv'
  BY <1>1 DEF AttemptsInv, GivenUpInv
<1>. QED BY <1>3, <1>4, <1>5, <1>6 DEF AttemptsInv

\* Nobody waits for the request of a refresh.
LEMMA WaitRefresh ==
    ASSUME SdkType, WaitInv, RefreshEffect
    PROVE  WaitInv'
<1>1. StillWaits
  <2>. SUFFICES ASSUME NEW w \in Waiter, Waits(w) PROVE Waits(w)'
    BY DEF StillWaits
  <2>1. w[1] \in Ops
    BY DEF Waiter
  <2>2. att'[w[1]] = att[w[1]] /\ call'[w[1]] = call[w[1]]
    BY <2>1 DEF RefreshEffect, Spoiled, Waits
  <2>. QED BY <2>2 DEF Waits
<1>2. ASSUME NEW g \in 1..Len(fetches'), NEW i \in 1..Len(fetches'[g].waiters)
      PROVE  g \in 1..Len(fetches) /\ fetches'[g] = fetches[g]
  <2>1. Len(fetches) \in Nat /\ Len(fetches') = Len(fetches) + 1
    BY DEF SdkType, RefreshEffect
  <2>2. CASE g = Len(fetches) + 1
    <3>1. fetches'[g].waiters = <<>>
      BY <2>2 DEF RefreshEffect
    <3>. QED BY <3>1
  <2>3. CASE g # Len(fetches) + 1
    BY <2>1, <2>3 DEF RefreshEffect
  <2>. QED BY <2>2, <2>3
<1>3. ASSUME NEW g \in 1..Len(fetches'), fetches'[g].open, NEW i \in 1..Len(fetches'[g].waiters)
      PROVE  Waits(fetches[g].waiters[i])'
  <2>1. g \in 1..Len(fetches) /\ fetches'[g] = fetches[g]
    BY <1>2
  <2>2. PICK w \in Waiter : w = fetches[g].waiters[i]
    BY <2>1, WaitersType
  <2>3. Waits(w)'
    BY <1>1, <1>3, <2>1, <2>2 DEF WaitInv, StillWaits
  <2>. QED BY <2>1, <2>2, <2>3 DEF Waits
<1>4. ASSUME NEW f \in 1..Len(fetches'), NEW g \in 1..Len(fetches'), f # g, fetches'[f].open, fetches'[g].open,
             NEW i \in 1..Len(fetches'[f].waiters), NEW j \in 1..Len(fetches'[g].waiters)
      PROVE  fetches'[f].waiters[i] # fetches'[g].waiters[j]
  <2>1. /\ f \in 1..Len(fetches) /\ fetches'[f] = fetches[f]
        /\ g \in 1..Len(fetches) /\ fetches'[g] = fetches[g]
    BY <1>2
  <2>. QED BY <1>4, <2>1 DEF WaitInv
<1>. QED BY <1>3, <1>4 DEF WaitInv

\* Every step keeps the invariant.
LEMMA SdkStep == SdkInv /\ [Next]_vars => SdkInv'
<1>. SUFFICES ASSUME SdkInv, [Next]_vars PROVE SdkInv'
  OBVIOUS
<1>0. SdkType /\ AttemptsInv /\ WaitInv /\ TakenInv
  BY DEF SdkInv, AttemptsInv
<1>1. ASSUME NEW o \in Ops, NEW k \in 1..Len(att[o]), AttemptStep(o, k) PROVE SdkInv'
  BY <1>0, <1>1, TypeAttempt, AttemptsAttempt, WaitAttempt DEF SdkInv, AttemptsInv
<1>2. ASSUME NEW o \in Ops, call[o].pc \in {"idle", "sleep"}, Begins(o) PROVE SdkInv'
  BY <1>0, <1>2, TypeBegin, AttemptsBegin, WaitBegin DEF SdkInv, AttemptsInv
<1>3. ASSUME NEW f \in 1..Len(fetches), Fails(f) \/ \E v \in Nat : FetchAnswered(f, v) PROVE SdkInv'
  <2>1. fetches[f].open
    BY <1>3 DEF Fails, FetchFailed, FetchAnswered
  <2>2. \A o \in RefetchersOf(f) : call[o].pc # "idle"
    BY <1>0, <2>1, RefetcherWaits
  <2>3. SdkType'
    BY <1>0, <1>3, <2>2, TypeFetch
  <2>4. AttemptsInv'
    BY <1>0, <1>3, AttemptsAnswered, AttemptsFailed
  <2>5. WaitInv'
    BY <1>0, <1>3, WaitFetch
  <2>. QED BY <2>3, <2>4, <2>5 DEF SdkInv, AttemptsInv
<1>4. CASE UNCHANGED vars
  <2>0. UNCHANGED <<cache, fetches, inflight, epoch, att, call, chain, pool>>
    BY <1>4 DEF vars
  <2>1. SdkType' = SdkType
    BY <2>0 DEF SdkType
  <2>2. SeqBound' = SeqBound /\ SeqDistinct' = SeqDistinct
    BY <2>0 DEF SeqBound, SeqDistinct
  <2>3. TakenInv' = TakenInv /\ GivenUpInv' = GivenUpInv
    BY <2>0 DEF TakenInv, GivenUpInv
  <2>4. WaitInv'
    <3>1. StillWaits
      BY <2>0 DEF StillWaits, Waits
    <3>. QED BY <1>0, <2>0, <3>1, WaitSame
  <2>. QED BY <2>1, <2>2, <2>3, <2>4 DEF SdkInv
<1>5. CASE RefreshEffect
  BY <1>0, <1>5, TypeRefresh, AttemptsRefresh, WaitRefresh DEF SdkInv, AttemptsInv
<1>. QED BY <1>0, <1>1, <1>2, <1>3, <1>4, <1>5, StepCases, PollKeeps

\* An earlier attempt that was taken was given up.
LEMMA RepeatsFromInv == SdkInv => RepeatsOnlyWhatItLost
<1>. SUFFICES ASSUME SdkInv, NEW o \in Ops, NEW k \in Taken(o), NEW n \in Taken(o), k < n
             PROVE  att[o][k].lost
  BY DEF RepeatsOnlyWhatItLost
<1>1. k \in 1..Len(att[o]) /\ n \in 1..Len(att[o]) /\ att[o][k].taken /\ Len(att[o]) \in Nat
  BY DEF Taken, Tries, SdkInv, SdkType
<1>2. k < Len(att[o])
  BY <1>1
<1>. QED BY <1>1, <1>2 DEF SdkInv, GivenUpInv

\* The invariant contains that the numbers are distinct.
LEMMA DistinctFromInv == SdkInv => SequencesDistinct
<1>. SUFFICES ASSUME SdkInv, NEW a \in Ops \X Attempts, NEW b \in Ops \X Attempts,
                    a[2] <= Tries(a[1]), b[2] <= Tries(b[1]),
                    att[a[1]][a[2]].seq # NoSeq, att[a[1]][a[2]].epoch = att[b[1]][b[2]].epoch,
                    att[a[1]][a[2]].seq = att[b[1]][b[2]].seq
             PROVE  a = b
  BY DEF SequencesDistinct
<1>1. PICK o \in Ops, k \in Attempts : a = <<o, k>>
  OBVIOUS
<1>2. PICK p \in Ops, l \in Attempts : b = <<p, l>>
  OBVIOUS
<1>3. a[1] = o /\ a[2] = k /\ b[1] = p /\ b[2] = l
  BY <1>1, <1>2
<1>4. k \in Nat /\ k >= 1 /\ l \in Nat /\ l >= 1 /\ Len(att[o]) \in Nat /\ Len(att[p]) \in Nat
  BY SdkAssumption DEF Attempts, SdkInv, SdkType
<1>5. k \in 1..Len(att[o]) /\ l \in 1..Len(att[p])
  BY <1>3, <1>4 DEF Tries
<1>6. o = p /\ k = l
  BY <1>3, <1>5 DEF SdkInv, SeqDistinct
<1>. QED BY <1>1, <1>2, <1>6

\* Concurrent submissions that share one client never build two transactions with one
\* sequence number from one reading of the account (reserveSourceAccount on the shared
\* cache), for every number of submissions, retries and readings.
THEOREM SdkSequencesDistinct == Spec => []SequencesDistinct
<1>1. Init => SdkInv
  BY SdkInitInv
<1>2. SdkInv /\ [Next]_vars => SdkInv'
  BY SdkStep
<1>3. SdkInv => SequencesDistinct
  BY DistinctFromInv
<1>. QED BY <1>1, <1>2, <1>3, PTL DEF Spec

\* withRetry sends a transaction again although the network has taken it only after the
\* attempt timed out or its answer got lost, for every number of submissions and retries.
THEOREM SdkRepeatsOnlyWhatItLost == Spec => []RepeatsOnlyWhatItLost
<1>1. Init => SdkInv
  BY SdkInitInv
<1>2. SdkInv /\ [Next]_vars => SdkInv'
  BY SdkStep
<1>3. SdkInv => RepeatsOnlyWhatItLost
  BY RepeatsFromInv
<1>. QED BY <1>1, <1>2, <1>3, PTL DEF Spec

-----------------------------------------------------------------------------
(* A submission that has the client to itself                              *)

\* Submission o has the client to itself, and no attempt of it got lost.
Alone(o) ==
    /\ \A p \in Ops : p # o => Len(att[p]) = 0
    /\ \A k \in 1..Len(att[o]) : ~att[o][k].lost

\* Until an attempt is taken the account is as it was, and so is every reading of it.
Untaken(o) == \A k \in 1..Len(att[o]) : ~att[o][k].taken
ReadFirst == \A f \in 1..Len(fetches) : fetches[f].open => fetches[f].lo = FirstSeq
Untouched(o) == Untaken(o) => chain = FirstSeq /\ pool = {} /\ ReadFirst
\* At most one of its attempts, or its refetch, waits for a request.
Sparse == \A f \in 1..Len(fetches) : fetches[f].open => Len(fetches[f].waiters) <= 1
\* An attempt has an answer only once it was sent.
Unanswered(o) ==
    \A k \in 1..Len(att[o]) : att[o][k].pc \in {"fetch", "prepare", "send"} => att[o][k].answer = "none"
\* When the call sleeps after a tx_bad_seq the cache is right, or a refresh emptied it.
Reread(o) ==
    call[o].pc = "sleep" /\ Len(att[o]) # 0 /\ att[o][Len(att[o])].answer = "bad_seq" =>
        cache \in {FirstSeq, NoSeq}
\* So the attempt after it has the next number of the account, or none.
Right(x) == x.answer # "bad_seq" /\ (x.seq = FirstSeq + 1 \/ x.pc \in {"fetch", "over"})
NextNumber(o) ==
    \A k \in 1..Len(att[o]) : k # 1 /\ att[o][k - 1].answer = "bad_seq" => Right(att[o][k])
Healed(o) == Untouched(o) /\ Sparse /\ Unanswered(o) /\ Reread(o) /\ NextNumber(o)
HealInv == \A o \in Ops : Alone(o) => Healed(o)

\* A request that is open after one was joined or made was open before, or reads the account
\* as it is.
Readings(lo) ==
    \A g \in 1..Len(fetches') : fetches'[g].open =>
        \/ g \in 1..Len(fetches) /\ fetches[g].open /\ fetches'[g].lo = fetches[g].lo
        \/ fetches'[g].lo = lo

\* If nobody waited for the open requests one request may get one newcomer.
Joined ==
    \A g \in 1..Len(fetches') : fetches'[g].open =>
        \/ g \in 1..Len(fetches) /\ fetches'[g] = fetches[g]
        \/ g \in 1..Len(fetches) /\ fetches[g].open /\ Len(fetches'[g].waiters) = Len(fetches[g].waiters) + 1
        \/ Len(fetches'[g].waiters) = 1

\* Appending a request.
LEMMA ReadingAppended ==
    ASSUME SdkType, NEW w \in Waiter, NEW x, x = [open |-> TRUE, lo |-> chain, waiters |-> <<w>>],
           fetches' = Append(fetches, x)
    PROVE  /\ Readings(chain)
           /\ \A g \in 1..Len(fetches') :
                 \/ g \in 1..Len(fetches) /\ fetches'[g] = fetches[g]
                 \/ Len(fetches'[g].waiters) = 1
<1>1. fetches \in Seq(FetchType) /\ Len(fetches) \in Nat
  BY DEF SdkType
<1>2. x.lo = chain
  OBVIOUS
<1>3. PICK F, y : F = fetches /\ y = x
  OBVIOUS
<1>4. x \in FetchType
  <2>0. <<w>> \in Seq(Waiter)
    OBVIOUS
  <2>1. PICK z \in Seq(Waiter) : z = <<w>>
    BY ONLY <2>0
  <2>2. PICK c \in Nat : c = chain
    BY DEF SdkType
  <2>3. [open |-> TRUE, lo |-> c, waiters |-> z] \in FetchType
    BY DEF FetchType
  <2>. QED BY <2>1, <2>2, <2>3
<1>5. Len(Append(F, y)) = Len(F) + 1 /\ Append(F, y)[Len(F) + 1] = y
      /\ \A g \in 1..Len(F) : Append(F, y)[g] = F[g]
  BY ONLY <1>1, <1>3, <1>4
<1>6. ASSUME NEW g \in 1..Len(fetches') PROVE g = Len(fetches) + 1 \/ g \in 1..Len(fetches)
  BY <1>1, <1>3, <1>5
<1>7. /\ fetches'[Len(fetches) + 1].lo = chain
      /\ \A g \in 1..Len(fetches) : fetches'[g] = fetches[g]
  BY <1>2, <1>3, <1>5
<1>8. Len(fetches'[Len(fetches) + 1].waiters) = 1
  <2>1. x.waiters = <<w>> /\ Len(<<w>>) = 1
    OBVIOUS
  <2>. QED BY <1>3, <1>5, <2>1
<1>. QED BY <1>6, <1>7, <1>8 DEF Readings

\* fetchAccountSequence() joins the registered request or makes one.
LEMMA AskReads ==
    ASSUME SdkType, NEW w \in Waiter, AskAccount(w, inflight, fetches)
    PROVE  Readings(chain) /\ Joined
<1>0. fetches \in Seq(FetchType) /\ inflight \in 0..Len(fetches) /\ chain \in Nat
  BY DEF SdkType
<1>1. CASE inflight # NoFetch
  <2>1. PICK r \in 1..Len(fetches) : r = inflight
    BY <1>0, <1>1 DEF NoFetch
  <2>2. PICK y \in FetchType : y = fetches[r]
    BY <1>0
  <2>3. PICK z : z = Append(y.waiters, w) /\ Len(z) = Len(y.waiters) + 1
    <3>1. PICK u \in Seq(Waiter) : u = y.waiters
      BY DEF FetchType
    <3>2. Len(Append(u, w)) = Len(u) + 1
      BY ONLY u \in Seq(Waiter), w \in Waiter
    <3>. QED BY <3>1, <3>2
  <2> DEFINE x == [y EXCEPT !.waiters = z]
  <2>4. x.open = y.open /\ x.lo = y.lo /\ x.waiters = z
    BY DEF FetchType
  <2>5. fetches' = [fetches EXCEPT ![r] = x]
    BY <1>1, <2>1, <2>2, <2>3 DEF AskAccount
  <2> HIDE DEF x
  <2>6. Len(fetches') = Len(fetches) /\ \A g \in 1..Len(fetches) : fetches'[g] = IF g = r THEN x ELSE fetches[g]
    BY <1>0, <2>5
  <2>. QED BY <2>2, <2>3, <2>4, <2>6 DEF Readings, Joined
<1>2. CASE inflight = NoFetch
  <2>1. fetches' = Append(fetches, [open |-> TRUE, lo |-> chain, waiters |-> <<w>>])
    BY <1>2 DEF AskAccount
  <2>. QED BY <2>1, ReadingAppended DEF Joined
<1>. QED BY <1>1, <1>2

\* Requests that were made while the account was untouched read its first number.
LEMMA OpenedReads ==
    ASSUME ReadFirst, Readings(FirstSeq)
    PROVE  ReadFirst'
BY DEF ReadFirst, Readings

\* A submission that is alone was alone before.
LEMMA AloneBefore ==
    ASSUME NEW o \in Ops, Alone(o)', \A p \in Ops : Len(att[p]) \in Nat /\ Len(att'[p]) \in Nat,
           \A p \in Ops : Len(att[p]) <= Len(att'[p]),
           \A k \in 1..Len(att[o]) : att[o][k].lost => att'[o][k].lost
    PROVE  Alone(o)
<1>1. ASSUME NEW p \in Ops, p # o PROVE Len(att[p]) = 0
  <2>1. Len(att'[p]) = 0
    BY <1>1 DEF Alone
  <2>. QED BY <2>1
<1>2. ASSUME NEW k \in 1..Len(att[o]) PROVE ~att[o][k].lost
  <2>1. k \in 1..Len(att'[o])
    OBVIOUS
  <2>. QED BY <2>1 DEF Alone
<1>. QED BY <1>1, <1>2 DEF Alone

\* The attempts of a submission that is alone, up to the one its call waits for, are over
\* and not taken.
LEMMA OverAndUntaken ==
    ASSUME SdkInv, NEW o \in Ops, Alone(o), NEW k \in 1..Len(att[o]),
           k < Len(att[o]) \/ call[o].pc \in {"sleep", "refetch"}
    PROVE  ~att[o][k].taken /\ att[o][k].pc = "over"
BY DEF SdkInv, GivenUpInv, Alone

\* The client is created with nothing begun.
LEMMA HealInit == Init => HealInv
<1>. SUFFICES ASSUME Init, NEW o \in Ops PROVE Healed(o)
  BY DEF HealInv
<1>1. Len(att[o]) = 0 /\ Len(fetches) = 0 /\ chain = FirstSeq /\ pool = {} /\ call[o].pc = "idle"
  BY DEF Init
<1>. QED BY <1>1 DEF Healed, Untouched, Untaken, ReadFirst, Sparse, Unanswered, Reread, NextNumber

\* A step of an attempt.
LEMMA HealAttempt ==
    ASSUME SdkInv, HealInv, NEW p \in Ops, NEW k \in 1..Len(att[p]), AttemptStep(p, k),
           NEW o \in Ops, Alone(o)'
    PROVE  Healed(o)'
<1>1. PICK x : /\ Moves(att[p][k], x) /\ Replaced(att, att', p, k, x)
               /\ Reports(p, k, x) /\ Details(p, k, x)
  BY DEF AttemptStep
<1>2. \A q \in Ops : Len(att'[q]) = Len(att[q]) /\ Len(att[q]) \in Nat
  BY <1>1 DEF Replaced, SdkInv, SdkType
<1>3. \A q \in Ops : \A j \in 1..Len(att[q]) : att'[q][j] = IF q = p /\ j = k THEN x ELSE att[q][j]
  BY <1>1 DEF Replaced
<1>4. p = o
  BY <1>2 DEF Alone
<1>5. PICK y, n : y = att[o][k] /\ n = Len(att[o])
  OBVIOUS
<1>6. att'[o][k] = x /\ n \in Nat /\ k \in 1..n /\ \A j \in 1..n : j # k => att'[o][j] = att[o][j]
  BY <1>2, <1>3, <1>4, <1>5
<1>7. Moves(y, x) /\ Reports(o, k, x) /\ Details(o, k, x)
  BY <1>1, <1>4, <1>5
<1>8. Alone(o)
  <2>1. \A j \in 1..Len(att[o]) : att[o][j].lost => att'[o][j].lost
    BY <1>5, <1>6, <1>7 DEF Moves
  <2>. QED BY <1>2, <2>1, AloneBefore
<1>9. Untouched(o) /\ Sparse /\ Unanswered(o) /\ Reread(o) /\ NextNumber(o)
  BY <1>8 DEF HealInv, Healed
<1>10. ~x.lost
  BY <1>2, <1>5, <1>6 DEF Alone
<1>11. y.taken => y.answer = "PENDING" /\ y.pc \in {"answer", "over"}
  BY <1>4, <1>5 DEF SdkInv, TakenInv
<1>12. ~x.taken => ~y.taken
  BY <1>7, <1>11 DEF Moves
<1>13. ASSUME \A j \in 1..n : ~att'[o][j].taken PROVE \A j \in 1..n : ~att[o][j].taken
  BY <1>5, <1>6, <1>12, <1>13
<1>14. k < n => y.pc = "over" /\ x.pc = "over" /\ x.answer = y.answer
  <2>1. k < n => y.pc = "over"
    BY <1>4, <1>5, <1>8, OverAndUntaken
  <2>. QED BY <1>7, <2>1 DEF Moves
<1>20. ASSUME fetches' # fetches
       PROVE  /\ Readings(chain)
              /\ \A g \in 1..Len(fetches') :
                    \/ g \in 1..Len(fetches) /\ fetches'[g] = fetches[g]
                    \/ Len(fetches'[g].waiters) = 1
  <2>1. fetches' = Append(fetches, [open |-> TRUE, lo |-> chain, waiters |-> <<<<o, 0>>>>])
    BY <1>4, <1>7, <1>20, ReportsType DEF SdkInv
  <2>2. <<o, 0>> \in Waiter
    BY DEF Waiter
  <2>3. PICK w \in Waiter : w = <<o, 0>>
    BY <2>2
  <2>. QED BY <2>1, <2>3, ReadingAppended DEF SdkInv
<1>15. Untouched(o)'
  <2>. SUFFICES ASSUME \A j \in 1..n : ~att'[o][j].taken PROVE chain' = FirstSeq /\ pool' = {} /\ ReadFirst'
    BY <1>2, <1>5 DEF Untouched, Untaken
  <2>1. chain = FirstSeq /\ pool = {} /\ ReadFirst /\ ~x.taken
    BY <1>5, <1>6, <1>9, <1>13 DEF Untouched, Untaken
  <2>2. chain' = FirstSeq /\ pool' = {}
    BY <1>7, <2>1 DEF Details
  <2>3. ReadFirst'
    <3>1. CASE fetches' = fetches
      BY <2>1, <3>1 DEF ReadFirst
    <3>2. CASE fetches' # fetches
      BY <1>20, <2>1, <3>2, OpenedReads
    <3>. QED BY <3>1, <3>2
  <2>. QED BY <2>2, <2>3
<1>21. Sparse'
  <2>1. CASE fetches' = fetches
    BY <1>9, <2>1 DEF Sparse
  <2>2. CASE fetches' # fetches
    <3>. SUFFICES ASSUME NEW g \in 1..Len(fetches'), fetches'[g].open PROVE Len(fetches'[g].waiters) <= 1
      BY DEF Sparse
    <3>1. CASE g \in 1..Len(fetches) /\ fetches'[g] = fetches[g]
      BY <1>9, <3>1 DEF Sparse
    <3>2. CASE Len(fetches'[g].waiters) = 1
      BY ONLY <3>2
    <3>. QED BY <1>20, <2>2, <3>1, <3>2
  <2>. QED BY <2>1, <2>2
<1>16. y.pc \in {"fetch", "prepare", "send"} => y.answer = "none"
  BY <1>5, <1>6, <1>9 DEF Unanswered
<1>17. Unanswered(o)'
  <2>1. x.pc \in {"fetch", "prepare", "send"} => x.answer = "none"
    BY <1>7, <1>16 DEF Moves
  <2>2. ASSUME NEW j \in 1..n, att'[o][j].pc \in {"fetch", "prepare", "send"} PROVE att'[o][j].answer = "none"
    BY <1>5, <1>6, <1>9, <2>1, <2>2 DEF Unanswered
  <2>. QED BY <1>2, <1>5, <2>2 DEF Unanswered
<1>18. Reread(o)'
  <2>. SUFFICES ASSUME call'[o].pc = "sleep", n # 0, att'[o][n].answer = "bad_seq"
               PROVE  cache' \in {FirstSeq, NoSeq}
    BY <1>2, <1>5 DEF Reread, NoSeq
  <2>1. call[o].pc = "sleep"
    <3>1. CASE k = n
      <4>1. x.answer = "bad_seq" /\ x.answer # "none"
        BY <1>6, <3>1
      <4>2. y.pc # "prepare"
        BY <1>7, <1>16, <4>1 DEF Moves
      <4>. QED BY <1>5, <1>7, <1>10, <4>1, <4>2 DEF Details
    <3>2. CASE k # n
      <4>1. call'[o] = call[o]
        BY <1>4, <1>5, <1>7, <3>2, ReportsType DEF SdkInv
      <4>. QED BY <4>1
    <3>. QED BY <3>1, <3>2
  <2>2. cache' = cache
    <3>1. ~Raced(o, k)
      BY <2>1 DEF Raced
    <3>. QED BY <1>7, <3>1 DEF Reports
  <2>3. att[o][n].answer = "bad_seq"
    <3>1. CASE k = n
      <4>1. y.pc = "over"
        BY <1>5, <1>6, <1>8, <2>1, OverAndUntaken
      <4>. QED BY <1>5, <1>6, <1>7, <3>1, <4>1 DEF Moves
    <3>2. CASE k # n
      <4>1. n \in 1..n
        BY <1>6
      <4>. QED BY <1>6, <3>2, <4>1
    <3>. QED BY <3>1, <3>2
  <2>. QED BY <1>5, <1>9, <2>1, <2>2, <2>3 DEF Reread
<1>19. NextNumber(o)'
  <2>. SUFFICES ASSUME NEW j \in 1..n, j # 1, att'[o][j - 1].answer = "bad_seq"
               PROVE  Right(att'[o][j])
    BY <1>2, <1>5 DEF NextNumber, Right
  <2>1. PICK i \in 1..n : i = j - 1 /\ i < n /\ i # j
    BY <1>6
  <2>2. att[o][i].answer = "bad_seq"
    <3>1. CASE i = k
      BY <1>5, <1>6, <1>14, <2>1, <3>1
    <3>2. CASE i # k
      BY <1>6, <2>1, <3>2
    <3>. QED BY <3>1, <3>2
  <2>3. Right(att[o][j])
    BY <1>5, <1>9, <2>1, <2>2 DEF NextNumber
  <2>4. CASE j # k
    BY <1>6, <2>3, <2>4
  <2>5. CASE j = k
    <3>1. y.answer # "bad_seq" /\ (y.seq = FirstSeq + 1 \/ y.pc \in {"fetch", "over"})
      BY <1>5, <2>3, <2>5 DEF Right
    <3>2. x.seq = FirstSeq + 1 \/ x.pc \in {"fetch", "over"}
      BY <1>7, <3>1 DEF Moves
    <3>3. ASSUME x.answer = "bad_seq" PROVE FALSE
      <4>1. y.pc = "send" /\ ~y.taken /\ k = n
        <5>1. y.pc = "send"
          BY <1>7, <3>1, <3>3 DEF Moves
        <5>. QED BY <1>6, <1>11, <1>14, <5>1
      <4>2. \A l \in 1..n : ~att[o][l].taken
        <5>1. ASSUME NEW l \in 1..n, l # k PROVE ~att[o][l].taken
          <6>1. l < n
            BY <1>6, <4>1, <5>1
          <6>. QED BY <1>5, <1>8, <6>1, OverAndUntaken
        <5>. QED BY <1>5, <4>1, <5>1
      <4>3. chain = FirstSeq
        BY <1>5, <1>9, <4>2 DEF Untouched, Untaken
      <4>. QED BY <1>5, <1>7, <3>1, <3>3, <4>1, <4>3 DEF Details
    <3>. QED BY <1>6, <2>5, <3>2, <3>3 DEF Right
  <2>. QED BY <2>4, <2>5
<1>. QED BY <1>15, <1>17, <1>18, <1>19, <1>21 DEF Healed

\* The beginning of an attempt: nothing was taken so far, and after a tx_bad_seq the cache
\* holds the account's number.
LEMMA HealBegin ==
    ASSUME SdkInv, HealInv, NEW p \in Ops, call[p].pc \in {"idle", "sleep"}, Begins(p),
           NEW o \in Ops, Alone(o)'
    PROVE  Healed(o)'
<1>1. PICK x \in AttemptType :
          /\ Appended(att, att', p, x) /\ ~x.taken /\ ~x.lost /\ x.answer = "none"
          /\ \/ /\ cache # NoSeq /\ Numbered(x, cache, epoch) /\ fetches' = fetches
             \/ /\ cache = NoSeq /\ x.pc = "fetch"
                /\ AskAccount(<<p, Len(att[p]) + 1>>, inflight, fetches)
  BY NewAttemptFields DEF Begins
<1>2. \A q \in Ops : Len(att[q]) \in Nat
  BY DEF SdkInv, SdkType
<1>3. p = o
  <2>1. Len(att'[p]) = Len(att[p]) + 1
    BY <1>1 DEF Appended
  <2>. QED BY <1>2, <2>1 DEF Alone
<1>4. PICK n \in Nat : n = Len(att[o])
  BY <1>2
<1>5. /\ Len(att'[o]) = n + 1 /\ att'[o][n + 1] = x
      /\ \A j \in 1..n : att'[o][j] = att[o][j]
      /\ \A q \in Ops : q # o => att'[q] = att[q]
  BY <1>1, <1>3, <1>4 DEF Appended
<1>6. Alone(o)
  <2>1. \A q \in Ops : Len(att[q]) <= Len(att'[q]) /\ Len(att'[q]) \in Nat
    BY <1>2, <1>4, <1>5
  <2>2. \A j \in 1..Len(att[o]) : att[o][j].lost => att'[o][j].lost
    BY <1>4, <1>5
  <2>. QED BY <1>2, <2>1, <2>2, AloneBefore
<1>7. Untouched(o) /\ Sparse /\ Unanswered(o) /\ Reread(o) /\ NextNumber(o)
  BY <1>6 DEF HealInv, Healed
<1>8. n # 0 => call[o].pc = "sleep"
  BY <1>3, <1>4 DEF SdkInv, SdkType
<1>9. \A j \in 1..n : ~att[o][j].taken /\ att[o][j].pc = "over"
  <2>. SUFFICES ASSUME NEW j \in 1..n PROVE ~att[o][j].taken /\ att[o][j].pc = "over"
    OBVIOUS
  <2>1. n # 0
    OBVIOUS
  <2>. QED BY <1>4, <1>6, <1>8, <2>1, OverAndUntaken
<1>10. chain = FirstSeq /\ pool = {} /\ ReadFirst /\ chain' = chain /\ pool' = pool /\ call'[o].pc = "race"
  <2>1. PICK C \in [Ops -> CallType] : C = call
    BY DEF SdkInv, SdkType
  <2>2. call' = [C EXCEPT ![o].pc = "race"]
    BY <1>3, <2>1 DEF Begins
  <2>3. call'[o].pc = "race"
    BY <2>2, CallMoves DEF CallPcs
  <2>4. chain' = chain /\ pool' = pool
    BY DEF Begins
  <2>. QED BY <1>4, <1>7, <1>9, <2>3, <2>4 DEF Untouched, Untaken
<1>16. fetches' = fetches \/ (Readings(chain) /\ Joined)
  <2>1. CASE fetches' # fetches
    <3>1. PICK w \in Waiter : w = <<p, Len(att[p]) + 1>>
      <4>1. <<p, Len(att[p]) + 1>> \in Waiter
        BY <1>2 DEF Waiter
      <4>. QED BY <4>1
    <3>. QED BY <1>1, <2>1, <3>1, AskReads DEF SdkInv
  <2>. QED BY <2>1
<1>11. Untouched(o)'
  <2>1. ReadFirst'
    <3>1. CASE fetches' = fetches
      BY <1>10, <3>1 DEF ReadFirst
    <3>2. CASE fetches' # fetches
      BY <1>10, <1>16, <3>2, OpenedReads
    <3>. QED BY <3>1, <3>2
  <2>. QED BY <1>10, <2>1 DEF Untouched
<1>17. ASSUME NEW f \in 1..Len(fetches), fetches[f].open PROVE Len(fetches[f].waiters) = 0
  <2>1. Len(fetches[f].waiters) \in Nat
    BY WaitersType DEF SdkInv
  <2>2. ASSUME NEW i \in 1..Len(fetches[f].waiters) PROVE FALSE
    <3>1. PICK w \in Waiter : w = fetches[f].waiters[i]
      BY WaitersType DEF SdkInv
    <3>2. w[1] \in Ops
      BY DEF Waiter
    <3>3. Waits(w)
      BY <1>17, <3>1 DEF SdkInv, WaitInv
    <3>4. CASE w[1] = o
      <4>1. w[2] # 0
        BY <1>3, <3>3, <3>4 DEF Waits
      <4>. QED BY <1>4, <1>9, <3>3, <3>4, <4>1 DEF Waits
    <3>5. CASE w[1] # o
      <4>1. Len(att[w[1]]) = 0 /\ call[w[1]].pc = "idle"
        BY <1>6, <3>2, <3>5 DEF Alone, SdkInv, SdkType
      <4>. QED BY <3>3, <4>1 DEF Waits
    <3>. QED BY <3>4, <3>5
  <2>. QED BY <2>1, <2>2
<1>18. Sparse'
  <2>1. CASE fetches' = fetches
    BY <1>7, <2>1 DEF Sparse
  <2>2. CASE Joined
    <3>. SUFFICES ASSUME NEW g \in 1..Len(fetches'), fetches'[g].open PROVE Len(fetches'[g].waiters) <= 1
      BY DEF Sparse
    <3>1. CASE g \in 1..Len(fetches) /\ fetches'[g] = fetches[g]
      BY <1>7, <3>1 DEF Sparse
    <3>2. CASE /\ g \in 1..Len(fetches) /\ fetches[g].open
               /\ Len(fetches'[g].waiters) = Len(fetches[g].waiters) + 1
      BY <1>17, <3>2
    <3>3. CASE Len(fetches'[g].waiters) = 1
      BY ONLY <3>3
    <3>. QED BY <2>2, <3>1, <3>2, <3>3 DEF Joined
  <2>. QED BY <1>16, <2>1, <2>2
<1>12. \A j \in 1..(n + 1) : j = n + 1 \/ j \in 1..n
  OBVIOUS
<1>13. Unanswered(o)'
  BY <1>1, <1>4, <1>5, <1>7, <1>12 DEF Unanswered
<1>14. Reread(o)'
  BY <1>10 DEF Reread
<1>15. NextNumber(o)'
  <2>. SUFFICES ASSUME NEW j \in 1..(n + 1), j # 1, att'[o][j - 1].answer = "bad_seq"
               PROVE  Right(att'[o][j])
    BY <1>5 DEF NextNumber, Right
  <2>1. PICK i \in 1..n : i = j - 1
    OBVIOUS
  <2>2. att[o][i].answer = "bad_seq"
    BY <1>5, <2>1
  <2>3. CASE j \in 1..n
    BY <1>4, <1>5, <1>7, <2>1, <2>2, <2>3 DEF NextNumber
  <2>4. CASE j = n + 1
    <3>1. i = n /\ n # 0
      BY <2>1, <2>4
    <3>2. cache \in {FirstSeq, NoSeq}
      BY <1>4, <1>7, <1>8, <2>2, <3>1 DEF Reread
    <3>4. x.pc = "fetch" \/ x.seq = FirstSeq + 1
      BY <1>1, <3>2 DEF Numbered
    <3>. QED BY <1>1, <1>5, <2>4, <3>4 DEF Right
  <2>. QED BY <1>12, <2>3, <2>4
<1>. QED BY <1>11, <1>13, <1>14, <1>15, <1>18 DEF Healed

\* A poll.
LEMMA HealPoll ==
    ASSUME SdkInv, HealInv, NEW p \in Ops, PollEffect(p), NEW o \in Ops, Alone(o)'
    PROVE  Healed(o)'
<1>1. UNCHANGED <<cache, fetches, att, chain, pool>>
  BY DEF PollEffect
<1>2. Alone(o)
  BY <1>1 DEF Alone
<1>3. call'[o].pc = "sleep" => call[o].pc = "sleep"
  BY DEF PollEffect
<1>4. Untouched(o) /\ Sparse /\ Unanswered(o) /\ Reread(o) /\ NextNumber(o)
  BY <1>2 DEF HealInv, Healed
<1>. QED BY <1>1, <1>3, <1>4 DEF Healed, Untouched, Untaken, ReadFirst, Sparse, Unanswered, Reread, NextNumber

\* The answer or the failure of a request: it touches attempts without a number only, and
\* what it leaves in the cache while the call waits or sleeps is the account's number.
LEMMA HealFetch ==
    ASSUME SdkInv, HealInv, NEW f \in 1..Len(fetches),
           Fails(f) \/ \E v \in Nat : FetchAnswered(f, v), NEW o \in Ops, Alone(o)'
    PROVE  Healed(o)'
<1>0. SdkType /\ WaitInv
  BY DEF SdkInv
<1>1. fetches[f].open
  BY DEF Fails, FetchFailed, FetchAnswered
<1>2. /\ \A q \in Ops : Len(att'[q]) = Len(att[q])
      /\ \A q \in Ops : \A j \in 1..Len(att[q]) :
            \/ att'[q][j] = att[q][j]
            \/ /\ SeatsOf(f, <<q, j>>) # {}
               /\ att'[q][j].taken = att[q][j].taken /\ att'[q][j].answer = att[q][j].answer
               /\ att'[q][j].lost = att[q][j].lost
  <2>1. CASE Fails(f)
    <3>1. FailEffect(f)
      BY <1>0, <2>1, FailStep
    <3>. QED BY <3>1 DEF FailEffect, Unseated
  <2>2. ASSUME NEW v \in Nat, FetchAnswered(f, v)
        PROVE  /\ \A q \in Ops : Len(att'[q]) = Len(att[q])
               /\ \A q \in Ops : \A j \in 1..Len(att[q]) :
                     \/ att'[q][j] = att[q][j]
                     \/ /\ SeatsOf(f, <<q, j>>) # {}
                        /\ att'[q][j].taken = att[q][j].taken /\ att'[q][j].answer = att[q][j].answer
                        /\ att'[q][j].lost = att[q][j].lost
    <3>1. AnswerEffect(f, v)
      BY <1>0, <2>2, AnswerStep
    <3>. QED BY <3>1 DEF AnswerEffect, Seated
  <2>. QED BY <2>1, <2>2
<1>3. PICK n \in Nat : n = Len(att[o])
  BY <1>0 DEF SdkType
<1>4. /\ Len(att'[o]) = n
      /\ \A j \in 1..n : /\ att'[o][j].taken = att[o][j].taken /\ att'[o][j].answer = att[o][j].answer
                         /\ att'[o][j].lost = att[o][j].lost
                         /\ att'[o][j] = att[o][j] \/ att[o][j].pc = "fetch"
  <2>1. ASSUME NEW j \in 1..n, SeatsOf(f, <<o, j>>) # {} PROVE att[o][j].pc = "fetch"
    <3>1. PICK i : i \in SeatsOf(f, <<o, j>>)
      BY <2>1
    <3>. QED BY <1>0, <1>1, <3>1, SeatWaits
  <2>. QED BY <1>2, <1>3, <2>1
<1>5. Alone(o)
  <2>1. \A q \in Ops : Len(att[q]) <= Len(att'[q]) /\ Len(att'[q]) \in Nat /\ Len(att[q]) \in Nat
    BY <1>0, <1>2 DEF SdkType
  <2>. QED BY <1>3, <1>4, <2>1, AloneBefore
<1>6. Untouched(o) /\ Sparse /\ Unanswered(o) /\ Reread(o) /\ NextNumber(o)
  BY <1>5 DEF HealInv, Healed
<1>7. /\ chain' = chain /\ pool' = pool /\ Len(fetches') = Len(fetches) /\ ~fetches'[f].open
      /\ \A g \in 1..Len(fetches) : g # f => fetches'[g] = fetches[g]
      /\ IF o \in RefetchersOf(f) THEN call'[o].pc \in {"sleep", "failed"}
         ELSE \/ call'[o] = call[o]
              \/ call[o].pc = "race" /\ SeatsOf(f, <<o, Tries(o)>>) # {} /\ Fails(f)
  BY <1>0, FetchCalls
<1>8. Untouched(o)' /\ Sparse'
  <2>1. (\A j \in 1..n : ~att'[o][j].taken) => chain' = FirstSeq /\ pool' = {} /\ ReadFirst
    BY <1>3, <1>4, <1>6, <1>7 DEF Untouched, Untaken
  <2>2. (ReadFirst => ReadFirst') /\ Sparse'
    BY <1>6, <1>7 DEF ReadFirst, Sparse
  <2>. QED BY <1>4, <2>1, <2>2 DEF Untouched, Untaken
<1>9. Unanswered(o)'
  <2>1. ASSUME NEW j \in 1..n, att'[o][j].pc \in {"fetch", "prepare", "send"} PROVE att'[o][j].answer = "none"
    BY <1>3, <1>4, <1>6, <2>1 DEF Unanswered
  <2>. QED BY <1>4, <2>1 DEF Unanswered
<1>10. NextNumber(o)'
  <2>. SUFFICES ASSUME NEW j \in 1..n, j # 1, att'[o][j - 1].answer = "bad_seq"
               PROVE  Right(att'[o][j])
    BY <1>4 DEF NextNumber, Right
  <2>1. j - 1 \in 1..n
    OBVIOUS
  <2>2. att[o][j - 1].answer = "bad_seq"
    BY <1>4, <2>1
  <2>3. Right(att[o][j]) /\ att'[o][j].answer # "bad_seq"
    BY <1>3, <1>4, <1>6, <2>2 DEF NextNumber, Right
  <2>4. CASE att'[o][j] = att[o][j]
    BY <2>3, <2>4
  <2>5. CASE att'[o][j] # att[o][j]
    <3>1. SeatsOf(f, <<o, j>>) # {} /\ att[o][j].pc = "fetch"
      BY <1>2, <1>3, <1>4, <2>5
    <3>2. CASE Fails(f)
      <4>1. att'[o][j].pc = "over"
        <5>1. FailEffect(f)
          BY <1>0, <3>2, FailStep
        <5>. QED BY <1>3, <3>1, <5>1 DEF FailEffect, Unseated
      <4>. QED BY <2>3, <4>1 DEF Right
    <3>3. ASSUME NEW v \in Nat, FetchAnswered(f, v) PROVE Right(att'[o][j])
      <4>1. PICK i \in SeatsOf(f, <<o, j>>) : Numbered(att'[o][j], v + i - 1, epoch + 1)
        <5>1. AnswerEffect(f, v)
          BY <1>0, <3>3, AnswerStep
        <5>. QED BY <1>3, <3>1, <5>1 DEF AnswerEffect, Seated
      <4>2. i = 1
        <5>1. i \in 1..Len(Seats(f)) /\ Len(Seats(f)) \in Nat
          BY <1>0, SeatsType DEF SeatsOf
        <5>2. Len(Seats(f)) <= Len(fetches[f].waiters)
          BY <1>0, SeatsFit
        <5>3. Len(fetches[f].waiters) <= 1 /\ Len(fetches[f].waiters) \in Nat
          BY <1>0, <1>1, <1>6, WaitersType DEF Sparse
        <5>. QED BY <5>1, <5>2, <5>3
      <4>3. Untaken(o)
        <5>. SUFFICES ASSUME NEW m \in 1..n PROVE ~att[o][m].taken
          BY <1>3 DEF Untaken
        <5>1. j = n
          <6>1. j < n => att[o][j].pc = "over"
            BY <1>3, <1>5, OverAndUntaken
          <6>. QED BY <3>1, <6>1
        <5>2. CASE m < n
          BY <1>3, <1>5, <5>2, OverAndUntaken
        <5>3. CASE m = n
          BY <1>3, <3>1, <5>1, <5>3 DEF SdkInv, TakenInv
        <5>. QED BY <5>2, <5>3
      <4>4. v = FirstSeq
        <5>1. v \in fetches[f].lo..chain /\ fetches[f].lo = FirstSeq /\ chain = FirstSeq
          BY <1>1, <1>6, <3>3, <4>3 DEF FetchAnswered, Untouched, ReadFirst
        <5>. QED BY <5>1, SdkAssumption
      <4>5. att'[o][j].seq = FirstSeq + 1
        BY <4>1, <4>2, <4>4, SdkAssumption DEF Numbered
      <4>. QED BY <2>3, <4>5 DEF Right
    <3>. QED BY <3>2, <3>3
  <2>. QED BY <2>4, <2>5
<1>11. Reread(o)'
  <2>. SUFFICES ASSUME call'[o].pc = "sleep", n # 0, att'[o][n].answer = "bad_seq"
               PROVE  cache' \in {FirstSeq, NoSeq}
    BY <1>4 DEF Reread, NoSeq
  <2>1. n \in 1..n /\ att[o][n].answer = "bad_seq"
    BY <1>4
  <2>2. call[o].pc \in {"sleep", "refetch"}
    <3>1. CASE o \in RefetchersOf(f)
      BY <1>0, <1>1, <3>1, RefetcherWaits
    <3>2. CASE o \notin RefetchersOf(f) /\ call'[o] = call[o]
      BY <3>2
    <3>3. CASE SeatsOf(f, <<o, Tries(o)>>) # {}
      <4>1. PICK i : i \in SeatsOf(f, <<o, Tries(o)>>)
        BY <3>3
      <4>2. att[o][Tries(o)].pc = "fetch"
        BY <1>0, <1>1, <4>1, SeatWaits
      <4>. QED BY <1>3, <1>6, <2>1, <4>2 DEF Unanswered, Tries
    <3>. QED BY <1>7, <3>1, <3>2, <3>3
  <2>3. \A j \in 1..n : ~att[o][j].taken /\ att[o][j].pc = "over"
    BY <1>3, <1>5, <2>2, OverAndUntaken
  <2>4. chain = FirstSeq /\ fetches[f].lo = FirstSeq
    BY <1>1, <1>3, <1>6, <2>3 DEF Untouched, Untaken, ReadFirst
  <2>5. CASE Fails(f)
    <3>1. cache' = cache
      BY <2>5 DEF Fails, FetchFailed
    <3>2. o \notin RefetchersOf(f)
      <4>1. ASSUME o \in RefetchersOf(f) PROVE call'[o].pc = "failed"
        <5>1. PICK C \in [Ops -> CallType] : C = call
          BY <1>0 DEF SdkType
        <5>2. call'[o] = [C[o] EXCEPT !.pc = "failed"]
          BY <2>5, <4>1, <5>1 DEF Fails, FetchFailed
        <5>3. PICK c \in CallType : c = C[o]
          OBVIOUS
        <5>4. [c EXCEPT !.pc = "failed"].pc = "failed"
          BY DEF CallType
        <5>. QED BY <5>2, <5>3, <5>4
      <4>. QED BY <4>1
    <3>3. call[o].pc = "sleep"
      BY <1>7, <2>2, <3>2
    <3>. QED BY <1>3, <1>6, <2>1, <3>1, <3>3 DEF Reread
  <2>6. ASSUME NEW v \in Nat, FetchAnswered(f, v) PROVE cache' = FirstSeq
    <3>1. cache' = v + Len(Seats(f)) /\ v \in fetches[f].lo..chain
      BY <2>6 DEF FetchAnswered
    <3>2. ASSUME NEW i \in 1..Len(Seats(f)) PROVE FALSE
      <4>1. PICK q \in Ops, j \in Nat : Seats(f)[i] = <<q, j>>
        <5>1. Seats(f)[i] \in Waiter
          BY <1>0, SeatsType
        <5>. QED BY <5>1 DEF Waiter
      <4>2. i \in SeatsOf(f, <<q, j>>)
        BY <4>1 DEF SeatsOf
      <4>3. j \in 1..Len(att[q]) /\ att[q][j].pc = "fetch"
        BY <1>0, <1>1, <4>2, SeatWaits
      <4>4. q = o
        BY <1>5, <4>3 DEF Alone
      <4>. QED BY <1>3, <2>3, <4>3, <4>4
    <3>3. Len(Seats(f)) = 0
      <4>1. Len(Seats(f)) \in Nat
        BY <1>0, SeatsType
      <4>. QED BY <3>2, <4>1
    <3>. QED BY <2>4, <3>1, <3>3, SdkAssumption
  <2>. QED BY <2>5, <2>6
<1>. QED BY <1>8, <1>9, <1>10, <1>11 DEF Healed

\* A refresh: what it forgets does no harm, and it reads the account as it is.
LEMMA HealRefresh ==
    ASSUME SdkInv, HealInv, RefreshEffect, NEW o \in Ops, Alone(o)'
    PROVE  Healed(o)'
<1>1. (att'[o] = att[o] /\ call'[o] = call[o]) \/ Spoiled(o)
  BY DEF RefreshEffect
<1>2. \A p \in Ops : /\ Len(att[p]) \in Nat /\ Len(att'[p]) \in Nat /\ Len(att[p]) <= Len(att'[p])
                     /\ \A k \in 1..Len(att[p]) : att'[p][k] = att[p][k]
  BY DEF SdkInv, SdkType, RefreshEffect, Spoiled
<1>3. Alone(o)
  BY <1>2, AloneBefore
<1>4. Untouched(o) /\ Sparse /\ Unanswered(o) /\ Reread(o) /\ NextNumber(o)
  BY <1>3 DEF HealInv, Healed
<1>5. ASSUME NEW g \in 1..Len(fetches')
      PROVE  \/ g \in 1..Len(fetches) /\ fetches'[g] = fetches[g]
             \/ fetches'[g].lo = chain /\ Len(fetches'[g].waiters) = 0
  <2>1. Len(fetches) \in Nat /\ Len(fetches') = Len(fetches) + 1
    BY DEF SdkInv, SdkType, RefreshEffect
  <2>. QED BY <2>1 DEF RefreshEffect
<1>6. Untouched(o)'
  <2>1. Untaken(o)' => Untaken(o)
    BY <1>2 DEF Untaken
  <2>2. Readings(chain)
    BY <1>5 DEF Readings
  <2>3. chain' = chain /\ pool' = pool
    BY DEF RefreshEffect
  <2>. QED BY <1>4, <2>1, <2>2, <2>3, OpenedReads DEF Untouched
<1>7. Sparse'
  BY <1>4, <1>5 DEF Sparse
<1>8. Unanswered(o)' /\ NextNumber(o)'
  BY <1>1, <1>4 DEF Unanswered, NextNumber, Spoiled
<1>9. Reread(o)'
  BY DEF Reread, RefreshEffect, NoSeq
<1>. QED BY <1>6, <1>7, <1>8, <1>9 DEF Healed

\* Every step keeps the invariant.
LEMMA HealStep == SdkInv /\ HealInv /\ [Next]_vars => HealInv'
<1>. SUFFICES ASSUME SdkInv, HealInv, [Next]_vars, NEW o \in Ops, Alone(o)' PROVE Healed(o)'
  BY DEF HealInv
<1>1. CASE UNCHANGED vars
  <2>1. UNCHANGED <<cache, fetches, att, call, chain, pool>>
    BY <1>1 DEF vars
  <2>2. Alone(o)
    BY <2>1 DEF Alone
  <2>3. Healed(o)
    BY <2>2 DEF HealInv
  <2>. QED BY <2>1, <2>3 DEF Healed, Untouched, Untaken, ReadFirst, Sparse, Unanswered, Reread, NextNumber
<1>2. SdkType /\ TakenInv
  BY DEF SdkInv
<1>3. \/ \E p \in Ops : \E k \in 1..Len(att[p]) : AttemptStep(p, k)
      \/ \E p \in Ops : call[p].pc \in {"idle", "sleep"} /\ Begins(p)
      \/ \E p \in Ops : PollEffect(p)
      \/ \E f \in 1..Len(fetches), v \in Nat : FetchAnswered(f, v)
      \/ \E f \in 1..Len(fetches) : Fails(f)
      \/ RefreshEffect
      \/ UNCHANGED vars
  BY <1>2, StepCases
<1>. QED BY <1>1, <1>3, HealAttempt, HealBegin, HealPoll, HealFetch, HealRefresh

\* The property is about the last part of the invariant.
LEMMA HealedFromInv == SdkInv /\ HealInv => SoleCallerHealed
<1>. SUFFICES ASSUME SdkInv, HealInv, NEW o \in Ops, \A p \in Ops \ {o} : call[p].pc = "idle",
                    \A k \in 1..Tries(o) : ~att[o][k].lost, NEW k \in 2..Tries(o),
                    att[o][k - 1].answer = "bad_seq", att[o][k].answer = "bad_seq"
             PROVE  FALSE
  BY DEF SoleCallerHealed
<1>1. Alone(o)
  BY DEF Alone, Tries, SdkInv, SdkType
<1>2. Len(att[o]) \in Nat
  BY DEF SdkInv, SdkType
<1>3. k \in 1..Len(att[o]) /\ k # 1
  BY <1>2 DEF Tries
<1>4. NextNumber(o)
  BY <1>1 DEF HealInv, Healed
<1>. QED BY <1>3, <1>4 DEF NextNumber, Right

\* A stale cached number costs one retry, for every number of retries: while a submission has
\* the client to itself and hears its answers, withRetry does not meet tx_bad_seq twice in a
\* row, because sequenceRefetch replaced the number first.
THEOREM SdkSoleCallerHealed == Spec => []SoleCallerHealed
<1>1. Init => SdkInv /\ HealInv
  BY SdkInitInv, HealInit
<1>2. SdkInv /\ HealInv /\ [Next]_vars => (SdkInv /\ HealInv)'
  BY SdkStep, HealStep
<1>3. SdkInv /\ HealInv => SoleCallerHealed
  BY HealedFromInv
<1>. QED BY <1>1, <1>2, <1>3, PTL DEF Spec
=============================================================================
