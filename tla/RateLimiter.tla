---------------------------- MODULE RateLimiter ----------------------------
(***************************************************************************)
(* The rate limiter of the backend (backend/src/middleware/rateLimiter.ts)  *)
(* over the in-process storage (backend/src/storage/memoryAdapter.ts).  A   *)
(* request reads the clock twice: rateLimiter() for its window, increment() *)
(* for the counter.  The window and the counter are two entries that expire *)
(* on their own; delete() of the counter's namespace reaches only the       *)
(* key-value maps, so a new window leaves the old counter in place.         *)
(***************************************************************************)
EXTENDS Integers, Sequences, FiniteSets, Vec

CONSTANTS
    Limiters,    \* the limiter instances (read, enrollment, escrow)
    Clients,     \* client addresses
    MaxRequests, \* max
    WindowMs,    \* windowMs
    MaxCount,    \* bound: requests counted by one counter entry
    MaxNow       \* the last tick of the model's clock

ASSUME LimiterAssumption ==
    MaxRequests \in Nat \ {0} /\ WindowMs \in Nat \ {0} /\ MaxNow \in Nat /\ MaxCount > MaxRequests + 1

VARIABLES
    now,       \* Date.now()
    resetAt,   \* winNs: end of the window per bucket, NoTime when absent
    counter,   \* the counters: value and expiry per bucket, NoCounter when absent
    admitted,  \* per bucket, when the requests of the last WindowMs were let through
    last       \* per bucket, when the previous request came, whether it was let through, and
               \* whether it came after more than a window of silence

lvars == <<now, resetAt, counter, admitted, last>>

\* Each limiter keeps its counters in namespaces of its own, one key per client.
Buckets == Limiters \X Clients
NoTime == -1
NoCounter == [value |-> 0, expiresAt |-> NoTime]
Never == [at |-> NoTime, ok |-> TRUE, silent |-> FALSE]

LimiterInit ==
    /\ now = 0
    /\ resetAt = [b \in Buckets |-> NoTime]
    /\ counter = [b \in Buckets |-> NoCounter]
    /\ admitted = [b \in Buckets |-> <<>>]
    /\ last = [b \in Buckets |-> Never]

Recent(times, t) == Kept(times, {u \in Nat : u + WindowMs > t})

\* The clock; what is older than a window is dropped from the history.
ClockTick ==
    /\ now < MaxNow
    /\ now' = now + 1
    /\ admitted' = [b \in Buckets |-> Recent(admitted[b], now + 1)]
    /\ UNCHANGED <<resetAt, counter, last>>

\* increment(): the TTL runs from the increment that created the entry.
Increment(entry, t) ==
    IF entry = NoCounter \/ t > entry.expiresAt
    THEN [value |-> 1, expiresAt |-> t + WindowMs]
    ELSE [entry EXCEPT !.value = @ + 1]

\* The window of a request at time t.
WindowEnd(b, t) == IF resetAt[b] = NoTime \/ t > resetAt[b] THEN t + WindowMs ELSE resetAt[b]

OverMutant(count) == count > MaxRequests + 1
Over(count) == count > MaxRequests

\* rateLimiter(): t is the second reading of the clock.
Request(b, t) ==
    LET entry == Increment(counter[b], t) IN
    /\ t \in {now, now + 1} /\ t <= MaxNow
    /\ entry.value <= MaxCount
    /\ resetAt' = [resetAt EXCEPT ![b] = WindowEnd(b, now)]
    /\ counter' = [counter EXCEPT ![b] = entry]
    /\ now' = t
    /\ admitted' = [c \in Buckets |-> IF c = b /\ ~Over(entry.value)
                                      THEN Append(Recent(admitted[c], t), t)
                                      ELSE Recent(admitted[c], t)]
    /\ last' = [last EXCEPT ![b] = [at |-> t, ok |-> ~Over(entry.value),
                                  silent |-> last[b].at # NoTime /\ t > last[b].at + WindowMs]]

LimiterNext ==
    \/ ClockTick
    \/ \E b \in Buckets, t \in 0..MaxNow : Request(b, t)

LimiterSpec == LimiterInit /\ [][LimiterNext]_lvars

-----------------------------------------------------------------------------
(* Properties                                                              *)

\* However the window and the counter drift apart, no span of WindowMs lets more than
\* two windows' worth of requests of one client through (a window boundary inside the
\* span gives the second).  And a client that has been silent for longer than a window
\* is let through, whatever it was refused before and does on the other limiters: no
\* bucket blocks for ever although the counter is never deleted.
BurstBounded ==
    \A b \in Buckets :
        /\ Len(admitted[b]) <= 2 * MaxRequests
        /\ last[b].silent => last[b].ok
=============================================================================
