----------------------------- MODULE SdkSubmit -----------------------------
(***************************************************************************)
(* The SDK's transaction client (sdk/src/client.ts and sdk/src/utils.ts).   *)
(* Several submissions of one client run concurrently on one event loop.    *)
(* They share the cached sequence number of the source account and at most  *)
(* one registered getAccount request; each submission retries through       *)
(* withRetry, which races every attempt against a timer and never aborts    *)
(* the loser: an attempt that lost goes on, and may still be sent.          *)
(* The RPC server and the ledger behind it are external: the ledger takes   *)
(* the next sequence number only, one pending transaction per account.      *)
(***************************************************************************)
EXTENDS Integers, Sequences, FiniteSets, Vec

CONSTANTS
    Ops,          \* the submissions
    MaxRetries,   \* retryConfig.maxRetries (3 by default)
    MaxPolls,     \* polls of awaitTransaction (15 in the code)
    MaxRequests,  \* requests made before the application stops asking for a refresh
    FirstSeq,     \* the account's sequence number before the run
    FirstCached   \* what an earlier use of the client may have left in the cache

ASSUME SdkAssumption ==
    /\ MaxRetries \in Nat
    /\ MaxPolls \in Nat
    /\ MaxRequests \in Nat
    /\ FirstSeq \in Nat
    /\ FirstCached \subseteq 0..FirstSeq

VARIABLES
    cache,     \* sequenceCache, NoSeq when the key is absent
    fetches,   \* the getAccount requests made so far
    inflight,  \* sequenceFetches: the registered request, NoFetch when absent
    epoch,     \* how often the cache was set from the network
    att,       \* per submission, its attempts (calls of submitFn), oldest first
    call,      \* per submission, where withRetry and awaitTransaction are
    chain,     \* external: the account's sequence number on the ledger
    pool       \* external: the pending transaction, a set of at most one <<op, attempt>>

vars == <<cache, fetches, inflight, epoch, att, call, chain, pool>>

NoSeq == -1
NoFetch == 0
\* NetSeq: the highest sequence number a run can reach.
NetSeq == FirstSeq + Cardinality(Ops) * (MaxRetries + 1)

-----------------------------------------------------------------------------
(* Errors and their classification.                                        *)

\* What classifyError looks at: whether it is an Error at all, the transaction and
\* operation result codes, the HTTP status, the network code, and which of the
\* patterns the message contains.
NoError == [instance |-> TRUE, tx |-> "none", op |-> "none", http |-> "none",
            net |-> FALSE, msg |-> {}]

\* The classes of message, in the order of the tests.
ClassifyMessage(msg) ==
    IF msg \cap {"bad sequence", "tx_bad_seq"} # {} THEN "RETRYABLE_SEQUENCE"
    ELSE IF msg \cap {"timeout", "timed out", "network", "connection", "econn"} # {}
         THEN "RETRYABLE_NETWORK"
    ELSE IF "insufficient" \in msg /\ msg \cap {"fee", "balance"} # {}
         THEN "RETRYABLE_INSUFFICIENT"
    ELSE IF msg \cap {"invalid", "malformed", "bad auth"} # {} THEN "TERMINAL_INVALID"
    ELSE "UNKNOWN"

ClassifyError(e) ==
    IF ~e.instance THEN "UNKNOWN"
    ELSE IF e.tx = "sequence" THEN "RETRYABLE_SEQUENCE"
    ELSE IF e.tx = "invalid" THEN "TERMINAL_INVALID"
    ELSE IF e.tx = "insufficient" THEN "RETRYABLE_INSUFFICIENT"
    ELSE IF e.op = "invalid" THEN "TERMINAL_INVALID"
    ELSE IF e.http = "terminal" THEN "TERMINAL_INVALID"
    ELSE IF e.http = "retryable" THEN "RETRYABLE_NETWORK"
    ELSE IF e.net THEN "RETRYABLE_NETWORK"
    ELSE ClassifyMessage(e.msg)

\* The errors the client meets.  The SDK puts the result code of a rejected
\* transaction into the message, where tx_bad_auth matches no pattern.  getAccount
\* fails for an unknown account (NoError: no pattern matches), the connection or a
\* status of the 4xx list.
BadSeq == [NoError EXCEPT !.msg = {"tx_bad_seq"}]
BadAuth == [NoError EXCEPT !.msg = {"tx_bad_auth"}]
Malformed == [NoError EXCEPT !.msg = {"malformed"}]
NetworkError == [NoError EXCEPT !.net = TRUE]
HttpRefused == [NoError EXCEPT !.http = "terminal"]
FetchErrors == {NoError, NetworkError, HttpRefused}
TimedOut == [NoError EXCEPT !.net = TRUE, !.msg = {"timed out"}]

\* The wait before attempt n + 1, with the jitter factor and the random number in
\* percent.
CalculateBackoff(n, base, max, jitter, random) ==
    LET capped == IF base * 2 ^ n < max THEN base * 2 ^ n ELSE max
    IN  (capped * (100 - jitter) * 100 + capped * jitter * random) \div 10000

-----------------------------------------------------------------------------
(* State                                                                   *)

Attempts == 1..(MaxRetries + 1)
Answers == {"none", "PENDING", "TRY_AGAIN_LATER", "bad_seq", "bad_auth"}
\* An attempt is at pc "fetch", "prepare", "send", "answer" or "over"; lost: the client
\* gave it up (timeout) or its answer never arrived.
NewAttempt == [pc |-> "fetch", seq |-> NoSeq, epoch |-> 0, answer |-> "none",
               taken |-> FALSE, applied |-> FALSE, lost |-> FALSE]

\* A call is at pc "idle", "race", "refetch", "sleep", "confirm", "done" or "failed".
Init ==
    /\ chain = FirstSeq
    /\ cache \in FirstCached \cup {NoSeq}
    /\ fetches = <<>>
    /\ inflight = NoFetch
    /\ epoch = 0
    /\ att = [o \in Ops |-> <<>>]
    /\ call = [o \in Ops |-> [pc |-> "idle", polls |-> 0]]
    /\ pool = {}

Tries(o) == Len(att[o])
\* Attempt k of o is the one its withRetry still waits for.
Raced(o, k) == call[o].pc = "race" /\ k = Tries(o)
Live(pc) == {a \in Ops \X Attempts : a[2] <= Tries(a[1]) /\ att[a[1]][a[2]].pc = pc}
\* The call states the rest of the client leaves alone.
Ended(o) == call[o].pc \in {"done", "failed"}

-----------------------------------------------------------------------------
(* The sequence number                                                     *)

\* reserveSourceAccount() once the cache is filled: take the cached number, leave its
\* successor.  The transaction is built with the successor (TransactionBuilder).
ReserveMutant(seqCache, a) == <<seqCache, [a EXCEPT !.pc = "prepare", !.seq = seqCache + 1,
                                                    !.epoch = epoch]>>
Reserve(seqCache, a) == <<seqCache + 1, [a EXCEPT !.pc = "prepare", !.seq = seqCache + 1,
                                                  !.epoch = epoch]>>

\* fetchAccountSequence() with nothing cached: wait for the registered request, or
\* register a new one.  The waiter <<o, k>> is attempt k of o, <<o, 0>> its refetch.
AskAccount(w, registered, fs) ==
    IF registered # NoFetch
    THEN /\ fetches' = [fs EXCEPT ![registered].waiters = Append(@, w)]
         /\ inflight' = registered
    ELSE /\ fetches' = Append(fs, [open |-> TRUE, lo |-> chain, waiters |-> <<w>>])
         /\ inflight' = Len(fs) + 1

\* submitFn() starts: an attempt reserves at once when the cache is filled.
BeginAttempt(o) ==
    LET r == Reserve(cache, NewAttempt) IN
    /\ call' = [call EXCEPT ![o].pc = "race"]
    /\ IF cache # NoSeq
       THEN /\ cache' = r[1]
            /\ att' = [att EXCEPT ![o] = Append(@, r[2])]
            /\ UNCHANGED <<fetches, inflight>>
       ELSE /\ att' = [att EXCEPT ![o] = Append(@, NewAttempt)]
            /\ AskAccount(<<o, Tries(o) + 1>>, inflight, fetches)
            /\ UNCHANGED cache
    /\ UNCHANGED <<epoch, chain, pool>>

Start(o) == call[o].pc = "idle" /\ BeginAttempt(o)

\* sequenceRefetch(): forget cache and registration, then ask anew.
RefetchMutant(o) ==
    /\ IF cache # NoSeq THEN UNCHANGED <<cache, fetches, inflight>>
       ELSE AskAccount(<<o, 0>>, inflight, fetches) /\ UNCHANGED cache
    /\ call' = [call EXCEPT ![o].pc = IF cache # NoSeq THEN "sleep" ELSE "refetch"]
Refetch(o) ==
    /\ cache' = NoSeq
    /\ AskAccount(<<o, 0>>, NoFetch, fetches)
    /\ call' = [call EXCEPT ![o].pc = "refetch"]

\* refreshAccountSequence(): the same for the application, which starts nothing here
\* when the request ends.
Refresh ==
    /\ Len(fetches) < MaxRequests
    /\ cache' = NoSeq
    /\ fetches' = Append(fetches, [open |-> TRUE, lo |-> chain, waiters |-> <<>>])
    /\ inflight' = Len(fetches) + 1

RefreshAccountSequence == Refresh /\ UNCHANGED <<epoch, att, call, chain, pool>>

\* Called in the turn that starts a submission, between fetchAccountSequence() finding
\* the cache filled and reserveSourceAccount() reading it after the await: BigInt of
\* undefined throws, an error no pattern matches.
RefreshDuringStart(o) ==
    /\ call[o].pc = "idle" /\ cache # NoSeq
    /\ Refresh
    /\ att' = [att EXCEPT ![o] = Append(@, [NewAttempt EXCEPT !.pc = "over"])]
    /\ call' = [call EXCEPT ![o].pc = IF MaxRetries = 0 THEN "failed" ELSE "sleep"]
    /\ UNCHANGED <<epoch, chain, pool>>

-----------------------------------------------------------------------------
(* withRetry                                                               *)

\* The catch block, for attempt number Tries(o) of o failing with error e.
HandleErrorMutant(o, e) ==
    /\ call' = [call EXCEPT ![o].pc = IF Tries(o) > MaxRetries THEN "race" ELSE "sleep"]
    /\ UNCHANGED <<cache, fetches, inflight>>
HandleError(o, e) ==
    LET category == ClassifyError(e) IN
    IF category = "TERMINAL_INVALID" \/ Tries(o) > MaxRetries
    THEN /\ call' = [call EXCEPT ![o].pc = "failed"]
         /\ UNCHANGED <<cache, fetches, inflight>>
    ELSE IF category = "RETRYABLE_SEQUENCE"
    THEN Refetch(o)
    ELSE /\ call' = [call EXCEPT ![o].pc = "sleep"]
         /\ UNCHANGED <<cache, fetches, inflight>>

\* An attempt throws: withRetry hears of it only if it still waits for that attempt.
Throws(o, k, e) ==
    IF Raced(o, k) THEN HandleError(o, e)
    ELSE UNCHANGED <<call, cache, fetches, inflight>>

\* The timer of createTimeoutPromise wins the race; the attempt is not aborted.
Timeout(o) ==
    /\ call[o].pc = "race"
    /\ att' = [att EXCEPT ![o][Tries(o)].lost = TRUE]
    /\ HandleError(o, TimedOut)
    /\ UNCHANGED <<epoch, chain, pool>>

\* The back-off is over: the next iteration of the loop.
SleepOver(o) == call[o].pc = "sleep" /\ BeginAttempt(o)

-----------------------------------------------------------------------------
(* The answers of getAccount                                               *)

Closed == [open |-> FALSE, lo |-> 0, waiters |-> <<>>]

\* The waiters of a request run in the order they came; those that are attempts
\* reserve a number each, a refetch goes on to sleep.
Seats(f) == Kept(fetches[f].waiters, Ops \X Attempts)
SeatsOf(f, w) == {i \in 1..Len(Seats(f)) : Seats(f)[i] = w}
RefetchersOf(f) == {o \in Ops : \E i \in 1..Len(fetches[f].waiters) : fetches[f].waiters[i] = <<o, 0>>}

\* .then() stores the answer, whatever was stored since; .finally() removes the
\* registration, whichever request it is now.
FetchAnswered(f, v) ==
    /\ fetches[f].open
    /\ v \in fetches[f].lo..chain
    /\ epoch' = epoch + 1
    /\ cache' = v + Len(Seats(f))
    /\ inflight' = NoFetch
    /\ fetches' = [fetches EXCEPT ![f] = Closed]
    /\ att' = [o \in Ops |-> [k \in 1..Tries(o) |->
                  IF SeatsOf(f, <<o, k>>) # {}
                  THEN [Reserve(v + (CHOOSE i \in SeatsOf(f, <<o, k>>) : TRUE) - 1, att[o][k])[2]
                            EXCEPT !.epoch = epoch + 1]
                  ELSE att[o][k]]]
    /\ call' = [o \in Ops |-> IF o \in RefetchersOf(f) THEN [call[o] EXCEPT !.pc = "sleep"]
                              ELSE call[o]]
    /\ UNCHANGED <<chain, pool>>

\* The request fails with e: the attempts that wait throw it, and a refetch ends its
\* call.  No failure of getAccount asks for another request (RETRYABLE_SEQUENCE).
FetchFailed(f, e) ==
    /\ fetches[f].open
    /\ inflight' = NoFetch
    /\ fetches' = [fetches EXCEPT ![f] = Closed]
    /\ att' = [o \in Ops |-> [k \in 1..Tries(o) |->
                  IF SeatsOf(f, <<o, k>>) # {} THEN [att[o][k] EXCEPT !.pc = "over"]
                  ELSE att[o][k]]]
    /\ call' = [o \in Ops |->
          IF o \in RefetchersOf(f) THEN [call[o] EXCEPT !.pc = "failed"]
          ELSE IF call[o].pc = "race" /\ SeatsOf(f, <<o, Tries(o)>>) # {}
          THEN IF ClassifyError(e) = "TERMINAL_INVALID" \/ Tries(o) > MaxRetries
               THEN [call[o] EXCEPT !.pc = "failed"]
               ELSE [call[o] EXCEPT !.pc = "sleep"]
          ELSE call[o]]
    /\ UNCHANGED <<cache, epoch, chain, pool>>

-----------------------------------------------------------------------------
(* prepareTransaction and sendTransaction                                  *)

Prepared(o, k) ==
    /\ <<o, k>> \in Live("prepare")
    /\ att' = [att EXCEPT ![o][k].pc = "send"]
    /\ UNCHANGED <<cache, fetches, inflight, epoch, call, chain, pool>>

\* The simulation or the connection fails: the reserved number is not given back.
PrepareFails(o, k, e) ==
    /\ <<o, k>> \in Live("prepare")
    /\ att' = [att EXCEPT ![o][k].pc = "over"]
    /\ Throws(o, k, e)
    /\ UNCHANGED <<epoch, chain, pool>>

\* External: the server looks at a transaction that reached it.  bad_auth stands
\* for the errors that do not depend on the sequence number.
RpcReceives(o, k, verdict) ==
    /\ <<o, k>> \in Live("send")
    /\ \/ verdict = "TRY_AGAIN_LATER" /\ pool # {}
       \/ verdict = "bad_seq" /\ pool = {} /\ att[o][k].seq # chain + 1
       \/ verdict = "PENDING" /\ pool = {} /\ att[o][k].seq = chain + 1
       \/ verdict = "bad_auth" /\ pool = {} /\ att[o][k].seq = chain + 1
    /\ att' = [att EXCEPT ![o][k].pc = "answer", ![o][k].answer = verdict,
                          ![o][k].taken = verdict = "PENDING"]
    /\ pool' = IF verdict = "PENDING" THEN {<<o, k>>} ELSE pool
    /\ UNCHANGED <<cache, fetches, inflight, epoch, call, chain>>

\* The answer of sendTransaction: only the status ERROR throws; TRY_AGAIN_LATER
\* returns the hash like PENDING.
SendAnsweredMutant(o, k) ==
    /\ <<o, k>> \in Live("answer")
    /\ att' = [att EXCEPT ![o][k].pc = "over"]
    /\ Throws(o, k, NetworkError)
    /\ UNCHANGED <<epoch, chain, pool>>
SendAnswered(o, k) ==
    /\ <<o, k>> \in Live("answer")
    /\ att' = [att EXCEPT ![o][k].pc = "over"]
    /\ LET answer == att[o][k].answer IN
       CASE answer = "bad_seq" -> Throws(o, k, BadSeq)
         [] answer = "bad_auth" -> Throws(o, k, BadAuth)
         [] OTHER -> /\ call' = IF Raced(o, k) THEN [call EXCEPT ![o].pc = "confirm"] ELSE call
                     /\ UNCHANGED <<cache, fetches, inflight>>
    /\ UNCHANGED <<epoch, chain, pool>>

\* The connection breaks before or after the server has seen the transaction.
SendFails(o, k) ==
    /\ <<o, k>> \in Live("send") \cup Live("answer")
    /\ att' = [att EXCEPT ![o][k].pc = "over", ![o][k].lost = TRUE]
    /\ Throws(o, k, NetworkError)
    /\ UNCHANGED <<epoch, chain, pool>>

\* External: a ledger closes with the pending transaction.
LedgerCloses ==
    \E t \in pool :
        /\ chain' = chain + 1
        /\ pool' = {}
        /\ att' = [att EXCEPT ![t[1]][t[2]].applied = TRUE]
        /\ UNCHANGED <<cache, fetches, inflight, epoch, call>>

\* awaitTransaction(): getTransaction says SUCCESS with the returned value once the
\* transaction is applied, or the wait goes on, and after MaxPolls polls it has timed
\* out.  FAILED or a SUCCESS without a value (of an applied transaction), and a
\* getTransaction that throws, end the call: awaitTransaction() retries nothing.
PollOutcomes == {"SUCCESS", "FAILED", "NOT_FOUND", "throws"}
Poll(o, outcome) ==
    /\ call[o].pc = "confirm"
    /\ \/ outcome \in {"SUCCESS", "FAILED"} /\ att[o][Tries(o)].applied
       \/ outcome = "NOT_FOUND" /\ ~att[o][Tries(o)].applied
       \/ outcome = "throws"
    /\ call' = [call EXCEPT ![o] =
          CASE outcome = "SUCCESS" -> [call[o] EXCEPT !.pc = "done"]
            [] outcome \in {"FAILED", "throws"} -> [call[o] EXCEPT !.pc = "failed"]
            [] outcome = "NOT_FOUND" ->
                  IF call[o].polls + 1 >= MaxPolls THEN [call[o] EXCEPT !.pc = "failed"]
                  ELSE [call[o] EXCEPT !.polls = call[o].polls + 1]]
    /\ UNCHANGED <<cache, fetches, inflight, epoch, att, chain, pool>>

\* Nothing is left to happen but what the application may still ask for.
Quiet ==
    /\ \A o \in Ops : (Ended(o) \/ call[o].pc = "idle") /\ \A k \in 1..Tries(o) : att[o][k].pc = "over"
    /\ pool = {}
    /\ \A f \in 1..Len(fetches) : ~fetches[f].open
    /\ UNCHANGED vars

Next ==
    \/ \E o \in Ops : Start(o)
    \/ \E o \in Ops : Timeout(o)
    \/ \E o \in Ops : SleepOver(o)
    \/ \E o \in Ops, outcome \in PollOutcomes : Poll(o, outcome)
    \/ RefreshAccountSequence
    \/ \E o \in Ops : RefreshDuringStart(o)
    \/ \E f \in 1..Len(fetches), v \in 0..NetSeq : FetchAnswered(f, v)
    \/ \E f \in 1..Len(fetches), e \in FetchErrors : FetchFailed(f, e)
    \/ \E o \in Ops, k \in Attempts : Prepared(o, k)
    \/ \E o \in Ops, k \in Attempts, e \in {NetworkError, Malformed} : PrepareFails(o, k, e)
    \/ \E o \in Ops, k \in Attempts, v \in Answers : RpcReceives(o, k, v)
    \/ \E o \in Ops, k \in Attempts : SendAnswered(o, k)
    \/ \E o \in Ops, k \in Attempts : SendFails(o, k)
    \/ LedgerCloses
    \/ Quiet

Spec == Init /\ [][Next]_vars

\* Timers fire and polls come back; a getAccount request is answered or fails, since
\* sequenceRefetch awaits it without a timer.  Nothing is assumed of submissions,
\* which the race bounds, nor of the ledger.
Fairness ==
    /\ \A o \in Ops : WF_vars(Timeout(o)) /\ WF_vars(SleepOver(o))
    /\ \A o \in Ops : WF_vars(\E outcome \in PollOutcomes : Poll(o, outcome))
    /\ \A o \in Ops : WF_vars(\E f \in 1..Len(fetches) :
                                 o \in RefetchersOf(f) /\ \/ \E v \in 0..NetSeq : FetchAnswered(f, v)
                                                          \/ \E e \in FetchErrors : FetchFailed(f, e))

FairSpec == Spec /\ Fairness

-----------------------------------------------------------------------------
(* Properties                                                              *)

Taken(o) == {k \in 1..Tries(o) : att[o][k].taken}

\* The retry of withRetry repeats a transaction the network already has only when the
\* client could not know: every attempt taken before the last one taken timed out or
\* lost its answer.  An operation can therefore be applied twice, but only that way.
RepeatsOnlyWhatItLost ==
    \A o \in Ops : \A k \in Taken(o) :
        (\E n \in Taken(o) : k < n) => att[o][k].lost

\* Concurrent submissions never build two transactions with one sequence number from
\* one reading of the account, whichever of them reads it and however their awaits
\* interleave (reserveSourceAccount on the shared cache).
SequencesDistinct ==
    \A a \in Ops \X Attempts, b \in Ops \X Attempts :
        /\ a # b
        /\ a[2] <= Tries(a[1]) /\ b[2] <= Tries(b[1])
        /\ att[a[1]][a[2]].seq # NoSeq /\ att[b[1]][b[2]].seq # NoSeq
        /\ att[a[1]][a[2]].epoch = att[b[1]][b[2]].epoch
        => att[a[1]][a[2]].seq # att[b[1]][b[2]].seq

\* A stale cache heals in one retry: while a submission has the account to itself and
\* all its attempts got their answers, the attempt after a tx_bad_seq is never refused
\* with tx_bad_seq again, because the forced refetch replaced the stale number first.
SoleCallerHealed ==
    \A o \in Ops :
        /\ \A p \in Ops \ {o} : call[p].pc = "idle"
        /\ \A k \in 1..Tries(o) : ~att[o][k].lost
        => \A k \in 2..Tries(o) : ~(att[o][k - 1].answer = "bad_seq" /\ att[o][k].answer = "bad_seq")

\* Every submission comes to an end: it is confirmed or rejected, even if no answer
\* of the server ever arrives.
EveryCallEnds == \A o \in Ops : call[o].pc # "idle" ~> Ended(o)
=============================================================================
