--------------------------- MODULE OffchainProofs ---------------------------
(***************************************************************************)
(* Proofs about the parts off the chain, for every value of their           *)
(* constants: the rate limiter, the queue and enrolment services, the event *)
(* indexer and the paged queue list of the backend.                         *)
(***************************************************************************)
EXTENDS RateLimiter, BackendQueues, EventFeed, QueuePages, DataLemmas

-----------------------------------------------------------------------------
(* The rate limiter                                                        *)

\* The history of a bucket is made of what the counter before the present one let
\* through, and of what the present one did: the older part ended before the present
\* entry was created, WindowMs before it expires.
TwoWindows(s, c) ==
    \E old, new \in Seq(Nat) :
        /\ s = old \o new
        /\ Len(old) <= MaxRequests
        /\ Len(new) <= MaxRequests /\ Len(new) <= c.value
        /\ \A i \in 1..Len(old) : old[i] + WindowMs <= c.expiresAt

Upto(s, t) == \A i \in 1..Len(s) : s[i] <= t
CounterType == [value : Nat, expiresAt : Int]

LimiterType ==
    /\ now \in Nat
    /\ counter \in [Buckets -> CounterType]
    /\ admitted \in [Buckets -> Seq(Nat)]
    /\ last \in [Buckets -> [at : Int, ok : BOOLEAN, silent : BOOLEAN]]
BucketOK(b) ==
    /\ TwoWindows(admitted[b], counter[b])
    /\ Upto(admitted[b], now)
    /\ last[b].at <= now
    /\ counter[b].expiresAt <= last[b].at + WindowMs
    /\ last[b].silent => last[b].ok
LimiterInv == LimiterType /\ \A b \in Buckets : BucketOK(b)

\* Vectors of times, one after the other.
LEMMA TimesConcat ==
    ASSUME NEW x \in Seq(Nat), NEW y \in Seq(Nat), NEW t \in Nat
    PROVE  /\ Append(x \o y, t) = x \o Append(y, t)
           /\ Append(y, t) = y \o <<t>>
           /\ <<>> \o y = y
<1>1. PICK S : S = Nat
  OBVIOUS
<1>2. PICK e \in S : e = t
  BY <1>1
<1>3. x \in Seq(S) /\ y \in Seq(S)
  BY <1>1
<1>4. Append(x \o y, e) = x \o Append(y, e)
  <2> DEFINE w == <<e>>
  <2>1. w \in Seq(S) /\ x \o y \in Seq(S)
    BY ONLY <1>3, e \in S
  <2>2. Append(y, e) = y \o w /\ Append(x \o y, e) = (x \o y) \o w
    BY ONLY <1>3, <2>1, e \in S, AppendIsConcat
  <2> HIDE DEF w
  <2>3. (x \o y) \o w = x \o (y \o w)
    BY ONLY <1>3, <2>1, ConcatAssociative
  <2>. QED BY ONLY <2>2, <2>3
<1>5. Append(y, e) = y \o <<e>>
  BY ONLY <1>3, e \in S, AppendIsConcat
<1>6. <<>> \o y = y
  BY ONLY <1>3, ConcatEmptySeq
<1>. QED
  BY <1>2, <1>4, <1>5, <1>6

\* What is left of a history is part of it.
LEMMA RecentPart ==
    ASSUME NEW s \in Seq(Nat), NEW t \in Nat
    PROVE  /\ Recent(s, t) \in Seq(Nat)
           /\ Len(Recent(s, t)) <= Len(s)
           /\ \A i \in 1..Len(Recent(s, t)) :
                 /\ Recent(s, t)[i] + WindowMs > t
                 /\ \E j \in 1..Len(s) : s[j] = Recent(s, t)[i]
<1> DEFINE K == {u \in Nat : u + WindowMs > t}
<1>1. Recent(s, t) = Kept(s, K)
  BY DEF Recent
<1>2. \A u \in K : u + WindowMs > t
  OBVIOUS
<1> HIDE DEF K
<1>3. Kept(s, K) \in Seq(Nat) /\ Len(Kept(s, K)) <= Len(s)
  BY KeptSize
<1>4. ASSUME NEW i \in 1..Len(Kept(s, K))
      PROVE  Kept(s, K)[i] \in K /\ \E j \in 1..Len(s) : s[j] = Kept(s, K)[i]
  <2>1. ASSUME NEW x
        PROVE  (\E k \in 1..Len(Kept(s, K)) : Kept(s, K)[k] = x)
                  <=> x \in K /\ \E j \in 1..Len(s) : s[j] = x
    BY ONLY s \in Seq(Nat), KeptElements
  <2>. QED BY <2>1
<1>. QED
  BY <1>1, <1>2, <1>3, <1>4

\* The two parts are cut down on their own.
LEMMA RecentParts ==
    ASSUME NEW a \in Seq(Nat), NEW z \in Seq(Nat), NEW t \in Nat
    PROVE  Recent(a \o z, t) = Recent(a, t) \o Recent(z, t)
BY KeptConcat DEF Recent

\* A history that is cut down keeps its bounds, also when the counter goes up.
LEMMA CutDown ==
    ASSUME NEW s, NEW c \in CounterType, NEW t \in Nat, NEW v \in Nat, v >= c.value, TwoWindows(s, c)
    PROVE  TwoWindows(Recent(s, t), [c EXCEPT !.value = v])
<1>1. PICK old \in Seq(Nat), new \in Seq(Nat) :
        /\ s = old \o new
        /\ Len(old) <= MaxRequests
        /\ Len(new) <= MaxRequests /\ Len(new) <= c.value
        /\ \A i \in 1..Len(old) : old[i] + WindowMs <= c.expiresAt
  BY DEF TwoWindows
<1> DEFINE o == Recent(old, t)
           n == Recent(new, t)
<1>2. Recent(s, t) = o \o n
  BY <1>1, RecentParts
<1>3. /\ o \in Seq(Nat) /\ n \in Seq(Nat) /\ Len(o) <= Len(old) /\ Len(n) <= Len(new)
      /\ \A i \in 1..Len(o) : \E j \in 1..Len(old) : old[j] = o[i]
  BY RecentPart
<1> HIDE DEF o, n
<1>4. Len(o) <= MaxRequests /\ Len(n) <= MaxRequests /\ Len(n) <= v
  BY <1>1, <1>3, LimiterAssumption DEF CounterType
<1>5. \A i \in 1..Len(o) : o[i] + WindowMs <= c.expiresAt
  BY <1>1, <1>3
<1>6. [c EXCEPT !.value = v].value = v /\ [c EXCEPT !.value = v].expiresAt = c.expiresAt
  BY DEF CounterType
<1>. QED
  BY <1>2, <1>3, <1>4, <1>5, <1>6 DEF TwoWindows

\* A request under a counter that lives on: its window's part grows by one.
LEMMA SameWindow ==
    ASSUME NEW s, NEW c \in CounterType, NEW t \in Nat, c.value + 1 <= MaxRequests, TwoWindows(s, c)
    PROVE  TwoWindows(Append(Recent(s, t), t), [c EXCEPT !.value = @ + 1])
<1>1. PICK old \in Seq(Nat), new \in Seq(Nat) :
        /\ s = old \o new
        /\ Len(old) <= MaxRequests
        /\ Len(new) <= MaxRequests /\ Len(new) <= c.value
        /\ \A i \in 1..Len(old) : old[i] + WindowMs <= c.expiresAt
  BY DEF TwoWindows
<1> DEFINE o == Recent(old, t)
           n == Recent(new, t)
           m == Append(n, t)
<1>2. Recent(s, t) = o \o n
  BY <1>1, RecentParts
<1>3. /\ o \in Seq(Nat) /\ n \in Seq(Nat) /\ Len(o) <= Len(old) /\ Len(n) <= Len(new)
      /\ \A i \in 1..Len(o) : \E j \in 1..Len(old) : old[j] = o[i]
  BY RecentPart
<1> HIDE DEF o, n
<1>4. Append(Recent(s, t), t) = o \o m
  <2>1. Append(o \o n, t) = o \o Append(n, t)
    BY <1>3, TimesConcat
  <2>. QED BY <1>2, <2>1
<1>5. m \in Seq(Nat) /\ Len(m) = Len(n) + 1
  BY <1>3
<1> HIDE DEF m
<1>6. Len(o) <= MaxRequests /\ Len(m) <= MaxRequests /\ Len(m) <= c.value + 1
  BY <1>1, <1>3, <1>5, LimiterAssumption DEF CounterType
<1>7. \A i \in 1..Len(o) : o[i] + WindowMs <= c.expiresAt
  BY <1>1, <1>3
<1>8. /\ [c EXCEPT !.value = @ + 1].value = c.value + 1
      /\ [c EXCEPT !.value = @ + 1].expiresAt = c.expiresAt
  BY DEF CounterType
<1>. QED
  BY <1>3, <1>4, <1>5, <1>6, <1>7, <1>8 DEF TwoWindows

\* A request that finds the counter expired: of the older part nothing is recent any
\* more, and the part of the expired counter becomes the older one.
LEMMA FreshWindow ==
    ASSUME NEW s \in Seq(Nat), NEW c \in CounterType, NEW t \in Nat, t > c.expiresAt,
           TwoWindows(s, c), Upto(s, t)
    PROVE  TwoWindows(Append(Recent(s, t), t), [value |-> 1, expiresAt |-> t + WindowMs])
<1>1. PICK old \in Seq(Nat), new \in Seq(Nat) :
        /\ s = old \o new
        /\ Len(old) <= MaxRequests
        /\ Len(new) <= MaxRequests /\ Len(new) <= c.value
        /\ \A i \in 1..Len(old) : old[i] + WindowMs <= c.expiresAt
  BY DEF TwoWindows
<1> DEFINE o == Recent(old, t)
           n == Recent(new, t)
<1>2. Recent(s, t) = o \o n
  BY <1>1, RecentParts
<1>3. /\ o \in Seq(Nat) /\ n \in Seq(Nat) /\ Len(n) <= Len(new)
      /\ \A i \in 1..Len(o) : o[i] + WindowMs > t /\ \E j \in 1..Len(old) : old[j] = o[i]
  BY RecentPart
<1>4. Recent(s, t) \in Seq(Nat) /\ Upto(Recent(s, t), t)
  BY RecentPart DEF Upto
<1> HIDE DEF o, n
<1>5. ASSUME NEW i \in 1..Len(o) PROVE FALSE
  <2>1. PICK j \in 1..Len(old) : old[j] = o[i]
    BY <1>3
  <2>2. o[i] + WindowMs <= c.expiresAt /\ o[i] + WindowMs > t
    BY <1>1, <1>3, <2>1
  <2>3. o[i] \in Nat
    BY <1>3
  <2>. QED BY <2>2, <2>3, LimiterAssumption, SMTT(30) DEF CounterType
<1>6. o = <<>>
  <2>1. Len(o) \in Nat
    BY <1>3
  <2>2. Len(o) = 0
    BY <1>5, <2>1
  <2>. QED BY <1>3, <2>2
<1>7. Recent(s, t) = n
  <2>1. <<>> \o n = n
    BY <1>3, TimesConcat
  <2>2. o \o n = n
    BY ONLY <1>6, <2>1
  <2>. QED BY ONLY <1>2, <2>2
<1>8. Len(n) <= MaxRequests
  BY <1>1, <1>3, LimiterAssumption
<1>9. <<t>> \in Seq(Nat) /\ Len(<<t>>) = 1 /\ Append(n, t) = n \o <<t>>
  BY <1>3, TimesConcat
<1>10. \A i \in 1..Len(n) : n[i] + WindowMs <= t + WindowMs
  <2> SUFFICES ASSUME NEW i \in 1..Len(n) PROVE n[i] + WindowMs <= t + WindowMs
    OBVIOUS
  <2>1. n[i] \in Nat /\ n[i] <= t
    BY <1>3, <1>4, <1>7 DEF Upto
  <2>. QED BY <2>1, LimiterAssumption
<1>11. 1 <= MaxRequests
  BY LimiterAssumption
<1> DEFINE d == [value |-> 1, expiresAt |-> t + WindowMs]
           w == <<t>>
<1>12. d.value = 1 /\ d.expiresAt = t + WindowMs
  OBVIOUS
<1>13. w \in Seq(Nat) /\ Len(w) = 1 /\ Append(Recent(s, t), t) = n \o w
  BY <1>7, <1>9
<1> HIDE DEF d, w
<1>14. TwoWindows(Append(Recent(s, t), t), d)
  <2>1. /\ Append(Recent(s, t), t) = n \o w
        /\ Len(n) <= MaxRequests
        /\ Len(w) <= MaxRequests /\ Len(w) <= d.value
        /\ \A i \in 1..Len(n) : n[i] + WindowMs <= d.expiresAt
    BY <1>8, <1>10, <1>11, <1>12, <1>13
  <2>. QED BY ONLY <1>3, <1>13, <2>1, Zenon DEF TwoWindows
<1>. QED
  BY <1>14 DEF d

\* The history of a bucket after a cut: the bounds hold at the later time.
LEMMA LaterUpto ==
    ASSUME NEW s \in Seq(Nat), NEW n \in Nat, NEW t \in Nat, n <= t, Upto(s, n)
    PROVE  Upto(s, t) /\ Upto(Recent(s, t), t) /\ Upto(Append(Recent(s, t), t), t)
<1>1. Upto(s, t)
  <2>1. \A i \in 1..Len(s) : s[i] \in Nat
    OBVIOUS
  <2>. QED BY <2>1 DEF Upto
<1>2. Recent(s, t) \in Seq(Nat) /\ Upto(Recent(s, t), t)
  BY <1>1, RecentPart DEF Upto
<1> DEFINE r == Recent(s, t)
<1> HIDE DEF r
<1>3. ASSUME r \in Seq(Nat), Upto(r, t) PROVE Upto(Append(r, t), t)
  <2> SUFFICES ASSUME NEW i \in 1..Len(Append(r, t)) PROVE Append(r, t)[i] <= t
    BY DEF Upto
  <2>1. Len(r) \in Nat /\ Len(Append(r, t)) = Len(r) + 1
    BY <1>3
  <2>2. CASE i \in 1..Len(r)
    BY <1>3, <2>2 DEF Upto
  <2>3. CASE i = Len(r) + 1
    BY <1>3, <2>1, <2>3
  <2>. QED BY <2>1, <2>2, <2>3
<1>. QED
  BY <1>1, <1>2, <1>3 DEF r

\* What increment() returns: a new entry when there was none or it has expired, and
\* the next number otherwise.
LEMMA IncrementFacts ==
    ASSUME NEW c \in CounterType, NEW t \in Nat
    PROVE  /\ Increment(c, t) \in CounterType
           /\ t > c.expiresAt => Increment(c, t) = [value |-> 1, expiresAt |-> t + WindowMs]
           /\ t <= c.expiresAt => Increment(c, t) = [c EXCEPT !.value = @ + 1]
BY LimiterAssumption DEF Increment, CounterType, NoCounter, NoTime

\* A request of its own bucket keeps the bounds, whether or not it is let through.
LEMMA RequestBucket ==
    ASSUME LimiterInv, NEW b \in Buckets, NEW t \in 0..MaxNow, Request(b, t)
    PROVE  /\ TwoWindows(admitted'[b], counter'[b])
           /\ counter'[b].expiresAt <= last'[b].at + WindowMs
           /\ last'[b].at <= now'
           /\ last'[b].silent => last'[b].ok
<1> DEFINE c == counter[b]
           e == Increment(c, t)
           s == admitted[b]
           ok == ~Over(e.value)
<1>0. MaxRequests \in Nat \ {0} /\ WindowMs \in Nat \ {0}
  BY LimiterAssumption
<1>1. /\ c \in CounterType /\ s \in Seq(Nat) /\ now \in Nat
      /\ TwoWindows(s, c) /\ Upto(s, now)
      /\ last[b].at <= now /\ c.expiresAt <= last[b].at + WindowMs
      /\ last[b].at \in Int
  BY DEF LimiterInv, LimiterType, BucketOK
<1>2. t \in Nat /\ now <= t
  BY <1>1 DEF Request
<1>3. /\ counter'[b] = e /\ now' = t
      /\ admitted'[b] = IF ok THEN Append(Recent(s, t), t) ELSE Recent(s, t)
  BY DEF Request, LimiterInv, LimiterType
<1>4. /\ last'[b].at = t /\ last'[b].ok = ok
      /\ last'[b].silent = (last[b].at # NoTime /\ t > last[b].at + WindowMs)
  BY DEF Request, LimiterInv, LimiterType
<1>5. Upto(s, t)
  BY <1>1, <1>2, LaterUpto
<1>6. c.value \in Nat /\ c.expiresAt \in Int
  BY <1>1 DEF CounterType
<1>7. /\ t > c.expiresAt => e = [value |-> 1, expiresAt |-> t + WindowMs]
      /\ t <= c.expiresAt => e = [c EXCEPT !.value = @ + 1]
  BY <1>1, <1>2, IncrementFacts
<1> HIDE DEF c, e, s
<1>8. CASE t > c.expiresAt
  <2>1. e = [value |-> 1, expiresAt |-> t + WindowMs]
    BY <1>7, <1>8
  <2>2. e.value = 1 /\ e.expiresAt = t + WindowMs /\ ok
    BY <1>0, <2>1 DEF Over
  <2>3. TwoWindows(Append(Recent(s, t), t), e)
    BY <1>1, <1>2, <1>5, <1>8, <2>1, FreshWindow
  <2>4. TwoWindows(admitted'[b], counter'[b])
    BY <1>3, <2>2, <2>3
  <2>5. counter'[b].expiresAt <= last'[b].at + WindowMs /\ last'[b].at <= now'
    BY <1>0, <1>2, <1>3, <1>4, <2>2
  <2>6. last'[b].ok
    BY ONLY <1>4, <2>2, Zenon
  <2>. QED BY <2>4, <2>5, <2>6
<1>9. CASE t <= c.expiresAt
  <2>1. e = [c EXCEPT !.value = @ + 1]
    BY <1>7, <1>9
  <2>2. e.value = c.value + 1 /\ e.expiresAt = c.expiresAt
    BY <1>1, <2>1 DEF CounterType
  <2>3. TwoWindows(Recent(s, t), e)
    <3>1. c.value + 1 \in Nat /\ c.value + 1 >= c.value
      BY <1>6
    <3>2. TwoWindows(Recent(s, t), [c EXCEPT !.value = c.value + 1])
      BY <1>1, <1>2, <3>1, CutDown
    <3>. QED BY <2>1, <3>2
  <2>4. ok => TwoWindows(Append(Recent(s, t), t), e)
    <3>1. ok => c.value + 1 <= MaxRequests
      BY <1>0, <1>6, <2>2 DEF Over
    <3>. QED BY <1>1, <1>2, <2>1, <3>1, SameWindow
  <2>5. TwoWindows(admitted'[b], counter'[b])
    BY <1>3, <2>3, <2>4
  <2>6. counter'[b].expiresAt <= last'[b].at + WindowMs
    BY <1>0, <1>1, <1>2, <1>3, <1>4, <1>6, <2>2
  <2>7. ~last'[b].silent
    <3>1. ~(t > last[b].at + WindowMs)
      BY <1>0, <1>1, <1>2, <1>6, <1>9
    <3>. QED BY ONLY <1>4, <3>1, Zenon
  <2>. QED BY <1>2, <1>3, <1>4, <2>5, <2>6, <2>7
<1>. QED
  BY <1>2, <1>6, <1>8, <1>9

\* Every step keeps the bounds of every bucket: the clock and the requests of others
\* only shorten its history.
LEMMA NextLimiterInv == LimiterInv /\ [LimiterNext]_lvars => LimiterInv'
<1> SUFFICES ASSUME LimiterInv, [LimiterNext]_lvars PROVE LimiterInv'
  OBVIOUS
<1>0. /\ now \in Nat /\ MaxNow \in Nat /\ counter \in [Buckets -> CounterType]
      /\ admitted \in [Buckets -> Seq(Nat)]
      /\ last \in [Buckets -> [at : Int, ok : BOOLEAN, silent : BOOLEAN]]
      /\ WindowMs \in Nat
  BY LimiterAssumption DEF LimiterInv, LimiterType
\* A bucket no request of this step belongs to.
<1>1. ASSUME NEW b \in Buckets, NEW t \in Nat, now <= t, now' = t,
             admitted'[b] = Recent(admitted[b], t), counter'[b] = counter[b], last'[b] = last[b]
      PROVE  BucketOK(b)'
  <2>1. BucketOK(b) /\ counter[b] \in CounterType /\ admitted[b] \in Seq(Nat) /\ last[b].at \in Int
    BY <1>0 DEF LimiterInv
  <2>2. TwoWindows(admitted'[b], counter'[b])
    <3>1. counter[b].value \in Nat /\ counter[b].value >= counter[b].value
      BY <2>1 DEF CounterType
    <3>2. TwoWindows(Recent(admitted[b], t), [counter[b] EXCEPT !.value = counter[b].value])
      BY <2>1, <3>1, CutDown DEF BucketOK
    <3>3. [counter[b] EXCEPT !.value = counter[b].value] = counter[b]
      BY <2>1 DEF CounterType
    <3>. QED BY <1>1, <3>2, <3>3
  <2>3. Upto(admitted'[b], now')
    BY <1>0, <1>1, <2>1, LaterUpto DEF BucketOK
  <2>4. last'[b].at <= now'
    BY <1>0, <1>1, <2>1 DEF BucketOK
  <2>5. TwoWindows(admitted[b], counter[b])' /\ Upto(admitted[b], now)'
    BY <2>2, <2>3 DEF TwoWindows, Upto
  <2>. QED BY <1>1, <2>1, <2>4, <2>5 DEF BucketOK
<1>2. CASE ClockTick
  <2>1. now + 1 \in Nat /\ now' = now + 1
    BY <1>0, <1>2 DEF ClockTick
  <2>2. \A b \in Buckets : /\ admitted'[b] = Recent(admitted[b], now + 1)
                           /\ counter'[b] = counter[b] /\ last'[b] = last[b]
    BY <1>2 DEF ClockTick
  <2>3. \A b \in Buckets : Recent(admitted[b], now + 1) \in Seq(Nat)
    BY <1>0, <2>1, RecentPart
  <2>4. LimiterType'
    BY <1>0, <1>2, <2>1, <2>3 DEF ClockTick, LimiterType
  <2>5. ASSUME NEW b \in Buckets PROVE BucketOK(b)'
    <3>1. now <= now + 1
      BY <1>0
    <3>. QED BY ONLY <1>1, <2>1, <2>2, <3>1, b \in Buckets, Zenon
  <2>. QED BY <2>4, <2>5 DEF LimiterInv
<1>3. ASSUME NEW b \in Buckets, NEW t \in 0..MaxNow, Request(b, t) PROVE LimiterInv'
  <2>1. t \in Nat /\ now <= t /\ now' = t
    BY <1>0, <1>3 DEF Request
  <2>2. \A c \in Buckets : Recent(admitted[c], t) \in Seq(Nat)
    BY <1>0, <2>1, RecentPart
  <2>3. \A c \in Buckets \ {b} : /\ admitted'[c] = Recent(admitted[c], t)
                                 /\ counter'[c] = counter[c] /\ last'[c] = last[c]
    BY <1>0, <1>3 DEF Request
  <2>4. admitted' \in [Buckets -> Seq(Nat)]
    BY <1>3, <2>1, <2>2 DEF Request
  <2>5. counter' \in [Buckets -> CounterType]
    BY <1>0, <1>3, <2>1, IncrementFacts DEF Request
  <2>6. last' \in [Buckets -> [at : Int, ok : BOOLEAN, silent : BOOLEAN]]
    BY <1>0, <1>3, <2>1 DEF Request, Over
  <2>7. BucketOK(b)'
    <3>1. admitted'[b] = Recent(admitted[b], t) \/ admitted'[b] = Append(Recent(admitted[b], t), t)
      BY <1>3 DEF Request
    <3>2. Upto(admitted[b], now) /\ admitted[b] \in Seq(Nat)
      BY <1>0 DEF LimiterInv, BucketOK
    <3>3. Upto(admitted'[b], t)
      BY <1>0, <2>1, <3>1, <3>2, LaterUpto
    <3>4. /\ TwoWindows(admitted'[b], counter'[b])
          /\ counter'[b].expiresAt <= last'[b].at + WindowMs
          /\ last'[b].at <= now'
          /\ last'[b].silent => last'[b].ok
      BY <1>3, RequestBucket
    <3>5. TwoWindows(admitted[b], counter[b])' /\ Upto(admitted[b], now)'
      BY <2>1, <3>3, <3>4 DEF TwoWindows, Upto
    <3>. QED BY <3>4, <3>5 DEF BucketOK
  <2>8. \A c \in Buckets \ {b} : BucketOK(c)'
    BY <1>1, <2>1, <2>3
  <2>. QED BY <2>1, <2>4, <2>5, <2>6, <2>7, <2>8 DEF LimiterInv, LimiterType
<1>4. CASE UNCHANGED lvars
  <2>1. LimiterType' /\ \A b \in Buckets : BucketOK(b)'
    BY <1>4 DEF lvars, LimiterInv, LimiterType, BucketOK, TwoWindows, Upto
  <2>. QED BY <2>1 DEF LimiterInv
<1>. QED
  BY <1>2, <1>3, <1>4 DEF LimiterNext

\* However the window and the counter of a bucket drift apart, no span of WindowMs
\* lets more than two windows' worth of its requests through, and a client that was
\* silent for longer than a window is let through: for every limit and window.
THEOREM LimiterBurstBounded == LimiterSpec => []BurstBounded
<1>1. LimiterInit => LimiterInv
  <2> SUFFICES ASSUME LimiterInit PROVE LimiterInv
    OBVIOUS
  <2>0. WindowMs \in Nat \ {0} /\ MaxRequests \in Nat
    BY LimiterAssumption
  <2>1. LimiterType
    <3>1. <<>> \in Seq(Nat) /\ NoCounter \in CounterType
      BY DEF NoCounter, NoTime, CounterType
    <3>. QED BY <3>1 DEF LimiterInit, LimiterType, Never, NoTime
  <2>2. ASSUME NEW b \in Buckets PROVE BucketOK(b)
    <3>1. admitted[b] = <<>> /\ counter[b] = NoCounter /\ last[b] = Never /\ now = 0
      BY DEF LimiterInit
    <3>2. <<>> \in Seq(Nat) /\ <<>> = <<>> \o <<>> /\ Len(<<>>) = 0
      OBVIOUS
    <3>3. TwoWindows(<<>>, NoCounter)
      <4>1. /\ Len(<<>>) <= MaxRequests /\ Len(<<>>) <= NoCounter.value
            /\ \A i \in 1..Len(<<>>) : <<>>[i] + WindowMs <= NoCounter.expiresAt
        BY <2>0, <3>2 DEF NoCounter
      <4>. QED BY <3>2, <4>1 DEF TwoWindows
    <3>4. Upto(<<>>, 0)
      BY <3>2 DEF Upto
    <3>5. /\ Never.at <= 0 /\ NoCounter.expiresAt <= Never.at + WindowMs
          /\ Never.silent => Never.ok
      BY <2>0 DEF Never, NoCounter, NoTime
    <3>. QED BY <3>1, <3>3, <3>4, <3>5 DEF BucketOK
  <2>. QED BY <2>1, <2>2 DEF LimiterInv
<1>2. LimiterInv => BurstBounded
  <2> SUFFICES ASSUME LimiterInv, NEW b \in Buckets
               PROVE  Len(admitted[b]) <= 2 * MaxRequests /\ (last[b].silent => last[b].ok)
    BY DEF BurstBounded
  <2>1. PICK old \in Seq(Nat), new \in Seq(Nat) :
          admitted[b] = old \o new /\ Len(old) <= MaxRequests /\ Len(new) <= MaxRequests
    BY DEF LimiterInv, BucketOK, TwoWindows
  <2>2. Len(admitted[b]) = Len(old) + Len(new) /\ Len(old) \in Nat /\ Len(new) \in Nat
    BY <2>1
  <2>3. Len(admitted[b]) <= 2 * MaxRequests
    BY <2>1, <2>2, LimiterAssumption
  <2>. QED BY <2>3 DEF LimiterInv, BucketOK
<1>. QED
  BY <1>1, <1>2, NextLimiterInv, PTL DEF LimiterSpec

-----------------------------------------------------------------------------
(* The queue and enrolment services                                        *)

QueueType == [status : Statuses \cup {"None"}, enrolled : Nat, advanced : Nat]
RecordType == [queueId : Slugs, cancelled : BOOLEAN]

\* No queue has advanced further than its stored figure.
QueuesInv ==
    /\ queue \in [Slugs -> QueueType]
    /\ \A s \in Slugs : queue[s].advanced <= queue[s].enrolled

\* The index holds the identities with a live record, and no identity has two for a queue.
RecordsInv ==
    /\ records \in [BIdentities -> Seq(RecordType)]
    /\ index \in [Slugs -> SUBSET BIdentities]
    /\ \A i \in BIdentities, s \in Slugs : i \in index[s] <=> LiveRecords(i, s) # {}
    /\ \A i \in BIdentities, s \in Slugs : \A n, m \in LiveRecords(i, s) : n = m

\* Math.round(100 * a / n) of a part of n is a percentage.
LEMMA Percent ==
    ASSUME NEW a \in Nat, NEW n \in Nat, a <= n, n > 0
    PROVE  (200 * a + n) \div (2 * n) \in 0..100
<1> DEFINE x == 200 * a + n
           d == 2 * n
           q == x \div d
<1>1. x \in Nat /\ d \in Nat /\ d > 0
  OBVIOUS
<1>2. x <= 200 * n + n
  OBVIOUS
<1>3. q \in Int /\ d * q <= x /\ x < d * q + d
  <2> HIDE DEF x, d
  <2>. QED BY <1>1
<1>4. q >= 0
  <2> HIDE DEF x, q
  <2>. QED BY <1>1, <1>3
<1>5. q <= 100
  <2> HIDE DEF q, x
  <2>1. CASE q >= 101
    <3>1. d * q >= d * 101
      BY <1>1, <1>3, <2>1
    <3>. QED BY <3>1, <1>1, <1>2, <1>3
  <2>. QED BY <2>1, <1>3
<1>. QED BY <1>3, <1>4, <1>5

\* The seeded store satisfies the invariants.
LEMMA QueuesInitInv == QueuesInit => QueuesInv /\ RecordsInv
<1>. SUFFICES ASSUME QueuesInit PROVE QueuesInv /\ RecordsInv
  OBVIOUS
<1>1. QueuesInv
  BY QueuesAssumption DEF QueuesInit, QueuesInv, QueueType, NoQueue
<1>2. RecordsInv
  BY DEF QueuesInit, RecordsInv, LiveRecords
<1>. QED BY <1>1, <1>2

\* Only a restart, a creation, a transition or an advance touches the queues.
LEMMA QueuesStep == QueuesInv /\ [QueuesNext]_qvars => QueuesInv'
<1>. SUFFICES ASSUME QueuesInv, [QueuesNext]_qvars PROVE QueuesInv'
  OBVIOUS
<1>1. CASE RestartQueues
  BY <1>1, QueuesAssumption DEF RestartQueues, QueuesInv, QueueType, NoQueue
<1>2. ASSUME NEW s \in Slugs, CreateQueue(s) PROVE QueuesInv'
  BY <1>2 DEF CreateQueue, QueuesInv, QueueType, Statuses
<1>3. ASSUME NEW s \in Slugs, NEW st \in Statuses, PersistTransition(s, st) PROVE QueuesInv'
  BY <1>3 DEF PersistTransition, QueuesInv, QueueType
<1>4. ASSUME NEW s \in Slugs, NEW n \in Batches, AdvanceQueue(s, n) PROVE QueuesInv'
  <2> DEFINE left == queue[s].enrolled - queue[s].advanced
             toAdvance == IF n < left THEN n ELSE left
             more == IF toAdvance > 0 THEN toAdvance ELSE 0
  <2>1. queue' = [queue EXCEPT ![s].status = "AdvancementActive", ![s].advanced = @ + more]
    BY <1>4 DEF AdvanceQueue
  <2>2. queue[s] \in QueueType /\ queue[s].advanced \in Nat /\ queue[s].enrolled \in Nat
        /\ queue[s].advanced <= queue[s].enrolled /\ n \in Int
    BY QueuesAssumption DEF QueuesInv, QueueType
  <2>3. more \in Nat /\ more <= left
    BY <2>2
  <2> HIDE DEF more
  <2>4. queue[s].advanced + more \in Nat /\ queue[s].advanced + more <= queue[s].enrolled
    BY <2>2, <2>3
  <2>. QED BY <2>1, <2>2, <2>4 DEF QueuesInv, QueueType, Statuses
<1>5. ASSUME UNCHANGED queue PROVE QueuesInv'
  BY <1>5 DEF QueuesInv
<1>6. {"EnrollmentOpen", "EnrollmentClosed", "Closed"} \subseteq Statuses
  BY DEF Statuses
<1>7. ASSUME NEW s \in Slugs, NEW i \in BIdentities, EnrollIdentity(s, i) \/ CancelEnrollment(s, i)
      PROVE  QueuesInv'
  BY <1>5, <1>7 DEF EnrollIdentity, CancelEnrollment
<1>. QED
  BY <1>1, <1>2, <1>3, <1>4, <1>5, <1>6, <1>7
     DEF QueuesNext, OpenEnrollmentRoute, CloseEnrollmentRoute, CloseRoute, qvars

\* Enrolling adds one live record, for one queue; cancelling takes the only one.
LEMMA RecordsStep == RecordsInv /\ [QueuesNext]_qvars => RecordsInv'
<1>. SUFFICES ASSUME RecordsInv, [QueuesNext]_qvars PROVE RecordsInv'
  OBVIOUS
<1>1. CASE RestartQueues
  BY <1>1 DEF RestartQueues, RecordsInv, LiveRecords
<1>2. ASSUME NEW s \in Slugs, NEW i \in BIdentities, EnrollIdentity(s, i) PROVE RecordsInv'
  <2> DEFINE r == [queueId |-> s, cancelled |-> FALSE]
  <2>1. /\ LiveRecords(i, s) = {}
        /\ records' = [records EXCEPT ![i] = Append(@, r)]
        /\ index' = [index EXCEPT ![s] = @ \cup {i}]
    BY <1>2 DEF EnrollIdentity
  <2>2. r \in RecordType /\ r.queueId = s /\ r.cancelled = FALSE
    BY DEF RecordType
  <2> HIDE DEF r
  <2>3. records' \in [BIdentities -> Seq(RecordType)]
    BY <2>1, <2>2 DEF RecordsInv
  <2>4. index' \in [Slugs -> SUBSET BIdentities]
    BY <2>1 DEF RecordsInv
  <2>5. /\ Len(records'[i]) = Len(records[i]) + 1 /\ Len(records[i]) \in Nat
        /\ records'[i][Len(records[i]) + 1] = r
        /\ \A n \in 1..Len(records[i]) : records'[i][n] = records[i][n]
    BY <2>1, <2>2 DEF RecordsInv
  <2>6. ASSUME NEW j \in BIdentities, j # i, NEW t \in Slugs PROVE LiveRecords(j, t)' = LiveRecords(j, t)
    BY <2>1, <2>6 DEF RecordsInv, LiveRecords
  <2>7. ASSUME NEW t \in Slugs, t # s PROVE LiveRecords(i, t)' = LiveRecords(i, t)
    BY <2>2, <2>5, <2>7 DEF LiveRecords
  <2>8. LiveRecords(i, s)' = {Len(records[i]) + 1}
    BY <2>1, <2>2, <2>5 DEF LiveRecords
  <2>9. ASSUME NEW j \in BIdentities, NEW t \in Slugs
        PROVE  /\ j \in index'[t] <=> LiveRecords(j, t)' # {}
               /\ \A n, m \in LiveRecords(j, t)' : n = m
    <3>1. CASE j = i /\ t = s
      <4>1. i \in index'[s]
        BY <2>1 DEF RecordsInv
      <4>. QED BY <3>1, <4>1, <2>8
    <3>2. CASE ~(j = i /\ t = s)
      <4>1. LiveRecords(j, t)' = LiveRecords(j, t)
        BY <3>2, <2>6, <2>7
      <4>2. j \in index'[t] <=> j \in index[t]
        BY <3>2, <2>1 DEF RecordsInv
      <4>. QED BY <4>1, <4>2 DEF RecordsInv
    <3>. QED BY <3>1, <3>2
  <2>. QED BY <2>3, <2>4, <2>9 DEF RecordsInv
<1>3. ASSUME NEW s \in Slugs, NEW i \in BIdentities, CancelEnrollment(s, i) PROVE RecordsInv'
  <2>1. PICK k \in LiveRecords(i, s) :
          /\ records' = [records EXCEPT ![i][k].cancelled = TRUE]
          /\ index' = [index EXCEPT ![s] = @ \ {i}]
    BY <1>3 DEF CancelEnrollment
  <2>2. /\ k \in 1..Len(records[i]) /\ records[i] \in Seq(RecordType)
        /\ records[i][k].queueId = s /\ LiveRecords(i, s) = {k}
    BY <2>1 DEF RecordsInv, LiveRecords
  <2> DEFINE r == [records[i][k] EXCEPT !.cancelled = TRUE]
  <2>3. r \in RecordType /\ r.queueId = s /\ r.cancelled = TRUE
    <3>1. PICK o \in RecordType : o = records[i][k]
      BY <2>2
    <3>2. PICK c \in BOOLEAN : c = TRUE
      OBVIOUS
    <3>3. [o EXCEPT !.cancelled = c] \in RecordType
      BY DEF RecordType
    <3>4. [o EXCEPT !.cancelled = c].queueId = o.queueId
      BY DEF RecordType
    <3>5. [o EXCEPT !.cancelled = c].cancelled = c
      BY DEF RecordType
    <3>. QED BY <3>1, <3>2, <3>3, <3>4, <3>5, <2>2
  <2>4. records' = [records EXCEPT ![i] = [records[i] EXCEPT ![k] = r]]
    BY <2>1
  <2> HIDE DEF r
  <2>5. [records[i] EXCEPT ![k] = r] \in Seq(RecordType)
    BY <2>2, <2>3
  <2>6. records' \in [BIdentities -> Seq(RecordType)]
    BY <2>4, <2>5 DEF RecordsInv
  <2>7. index' \in [Slugs -> SUBSET BIdentities]
    BY <2>1 DEF RecordsInv
  <2>8. /\ Len(records'[i]) = Len(records[i])
        /\ records'[i][k] = r
        /\ \A n \in 1..Len(records[i]) : n # k => records'[i][n] = records[i][n]
    BY <2>2, <2>4 DEF RecordsInv
  <2>9. ASSUME NEW j \in BIdentities, j # i, NEW t \in Slugs PROVE LiveRecords(j, t)' = LiveRecords(j, t)
    BY <2>4, <2>9 DEF RecordsInv, LiveRecords
  <2>10. ASSUME NEW t \in Slugs, t # s PROVE LiveRecords(i, t)' = LiveRecords(i, t)
    BY <2>2, <2>3, <2>8, <2>10 DEF LiveRecords
  <2>11. LiveRecords(i, s)' = {}
    BY <2>2, <2>3, <2>8 DEF LiveRecords
  <2>12. ASSUME NEW j \in BIdentities, NEW t \in Slugs
         PROVE  /\ j \in index'[t] <=> LiveRecords(j, t)' # {}
                /\ \A n, m \in LiveRecords(j, t)' : n = m
    <3>1. CASE j = i /\ t = s
      <4>1. i \notin index'[s]
        BY <2>1 DEF RecordsInv
      <4>. QED BY <3>1, <4>1, <2>11
    <3>2. CASE ~(j = i /\ t = s)
      <4>1. LiveRecords(j, t)' = LiveRecords(j, t)
        BY <3>2, <2>9, <2>10
      <4>2. j \in index'[t] <=> j \in index[t]
        BY <3>2, <2>1 DEF RecordsInv
      <4>. QED BY <4>1, <4>2 DEF RecordsInv
    <3>. QED BY <3>1, <3>2
  <2>. QED BY <2>6, <2>7, <2>12 DEF RecordsInv
<1>4. ASSUME UNCHANGED <<records, index>> PROVE RecordsInv'
  BY <1>4 DEF RecordsInv, LiveRecords
<1>5. ASSUME NEW s \in Slugs,
             \/ CreateQueue(s)
             \/ OpenEnrollmentRoute(s) \/ CloseEnrollmentRoute(s) \/ CloseRoute(s)
             \/ \E n \in Batches : AdvanceQueue(s, n)
      PROVE  RecordsInv'
  BY <1>4, <1>5 DEF CreateQueue, OpenEnrollmentRoute, CloseEnrollmentRoute, CloseRoute,
                    PersistTransition, AdvanceQueue
<1>. QED
  BY <1>1, <1>2, <1>3, <1>4, <1>5 DEF QueuesNext, qvars

\* They give the property of the services.
LEMMA QueuesInvPublishable == QueuesInv /\ RecordsInv => StatsPublishable
<1>. SUFFICES ASSUME QueuesInv, RecordsInv, NEW s \in Slugs
              PROVE  /\ \A i \in BIdentities :
                           Cardinality(LiveRecords(i, s)) = IF i \in index[s] THEN 1 ELSE 0
                     /\ EnrollmentsByQueue(s) = {} => StatsParse(QueueStats(s))
  BY DEF StatsPublishable
<1>1. ASSUME NEW i \in BIdentities
      PROVE  Cardinality(LiveRecords(i, s)) = IF i \in index[s] THEN 1 ELSE 0
  <2>1. CASE LiveRecords(i, s) = {}
    <3>1. i \notin index[s]
      BY <2>1 DEF RecordsInv
    <3>. QED BY <2>1, <3>1, FS_EmptySet
  <2>2. ASSUME NEW n \in LiveRecords(i, s)
        PROVE  Cardinality(LiveRecords(i, s)) = 1 /\ i \in index[s]
    <3>1. LiveRecords(i, s) = {n} /\ i \in index[s]
      BY <2>2 DEF RecordsInv
    <3>. QED BY <3>1, FS_Singleton
  <2>. QED BY <2>1, <2>2
<1>2. ASSUME EnrollmentsByQueue(s) = {}
      PROVE  StatsParse(QueueStats(s))
  <2> DEFINE total == queue[s].enrolled
  <2>1. total \in Nat /\ queue[s].advanced \in Nat /\ queue[s].advanced <= total
    BY DEF QueuesInv, QueueType
  <2>2. Cardinality(EnrollmentsByQueue(s)) = 0
    BY <1>2, FS_EmptySet
  <2>3. /\ QueueStats(s).remaining = total - queue[s].advanced
        /\ QueueStats(s).percentAdvanced
              = IF total > 0 THEN (200 * queue[s].advanced + total) \div (2 * total) ELSE 0
    BY <2>2 DEF QueueStats
  <2> HIDE DEF total
  <2>4. QueueStats(s).percentAdvanced \in 0..100
    <3>1. CASE total > 0
      <4>1. (200 * queue[s].advanced + total) \div (2 * total) \in 0..100
        BY ONLY <2>1, <3>1, Percent
      <4>. QED BY ONLY <2>3, <3>1, <4>1
    <3>2. CASE ~(total > 0)
      BY ONLY <2>3, <3>2
    <3>. QED BY <3>1, <3>2
  <2>. QED BY <2>1, <2>3, <2>4 DEF StatsParse
<1>. QED BY <1>1, <1>2

\* The index of a queue and the records of the identities agree, and the statistics of
\* a queue nobody is enrolled in can be published (enrollmentService.ts, queueService.ts):
\* for every set of queues, identities, batches and seeds.
THEOREM BackendStatsPublishable == QueuesSpec => []StatsPublishable
<1>1. QueuesInv /\ RecordsInv /\ [QueuesNext]_qvars => (QueuesInv /\ RecordsInv)'
  BY QueuesStep, RecordsStep
<1>. QED
  BY <1>1, QueuesInitInv, QueuesInvPublishable, PTL DEF QueuesSpec

-----------------------------------------------------------------------------
(* The indexer                                                             *)

EventType == [ledger : Nat, kind : Kinds, n : Nat]
PollerType == [pc : {"idle", "fetch", "persist"}, from : Nat, todo : Seq(EventType), max : Nat]

\* Whether the keys st hold every indexable event of chain c of a ledger before l, but
\* for those among the first k of todo.
StoredBefore(c, st, l, todo, k) ==
    \A i \in 1..Len(c) :
        Indexable(c[i]) /\ c[i].ledger < l
            => KeyOf(c[i]) \in st \/ \E j \in 1..k : todo[j] = c[i]

\* The ledger goes forward, and the cursor and the polls stay behind it.
FeedType ==
    /\ ledger \in Nat /\ cursor \in Nat /\ cursor <= ledger
    /\ chainEvents \in Seq(EventType)
    /\ poller \in [Pollers -> PollerType]
ChainInv ==
    /\ \A i \in 1..Len(chainEvents) : chainEvents[i].ledger <= ledger
    /\ \A i, j \in 1..Len(chainEvents) : i <= j => chainEvents[i].ledger <= chainEvents[j].ledger

\* One poll at a time, from the cursor.
GuardInv ==
    /\ \A p \in Pollers : poller[p].pc # "idle" => running /\ poller[p].from = cursor
    /\ \A p, r \in Pollers : poller[p].pc # "idle" /\ poller[r].pc # "idle" => p = r

\* What a poll x has stored so far, and what it still has to store, in the order of the
\* ledgers.
PollOK(x, c, st, cur, led) ==
    /\ x.max <= led
    /\ StoredBefore(c, st, x.max, <<>>, 0)
    /\ x.pc = "fetch" => x.max = cur
    /\ \A j \in 1..Len(x.todo) :
          /\ x.todo[j].ledger <= led
          /\ StoredBefore(c, st, x.todo[j].ledger, x.todo, j - 1)

FeedInv ==
    /\ FeedType /\ ChainInv /\ GuardInv
    /\ StoredBefore(chainEvents, store, cursor, <<>>, 0)
    /\ \A p \in Pollers : PollOK(poller[p], chainEvents, store, cursor, ledger)

\* The chain is in the order of the ledgers; A and B are what the query and deserialize()
\* let through; an answer todo, up to any of its events, holds every indexable event of an
\* earlier ledger that was asked for.
InOrder(c) == \A i, j \in 1..Len(c) : i <= j => c[i].ledger <= c[j].ledger
Asked(c, start, A, B) ==
    \A i \in 1..Len(c) : (c[i] \in A <=> c[i].ledger >= start) /\ (c[i] \in B <=> Indexable(c[i]))
NoGaps(c, start, todo) ==
    \A j \in 1..Len(todo) :
        /\ \E a \in 1..Len(c) : todo[j] = c[a]
        /\ \A i \in 1..Len(c) :
              Indexable(c[i]) /\ start <= c[i].ledger /\ c[i].ledger < todo[j].ledger
                  => \E k \in 1..j - 1 : todo[k] = c[i]

\* The answer of the indexer's query is in the order of the ledgers and, up to any of its
\* events, misses no indexable event of an earlier ledger.
LEMMA AnswerInOrder ==
    ASSUME NEW c \in Seq(EventType), InOrder(c),
           NEW start \in Nat, NEW A, NEW B, Asked(c, start, A, B),
           NEW n \in Nat, n <= Len(Kept(c, A)),
           NEW todo, todo = Kept(SubSeq(Kept(c, A), 1, n), B)
    PROVE  todo \in Seq(EventType) /\ NoGaps(c, start, todo)
<1> DEFINE f == Kept(c, A)
           s == SubSeq(f, 1, n)
<1>1. /\ c \in Seq(EventType)
      /\ \A i \in 1..Len(c) : c[i].ledger \in Nat
      /\ \A i, j \in 1..Len(c) : i <= j => c[i].ledger <= c[j].ledger
  <2>1. ASSUME NEW i \in 1..Len(c) PROVE c[i].ledger \in Nat
    <3>1. c[i] \in EventType
      OBVIOUS
    <3>. QED BY <3>1 DEF EventType
  <2>. QED BY <2>1 DEF InOrder
<1>2. n <= Len(f) /\ todo = Kept(s, B)
  OBVIOUS
<1>3. \A i \in 1..Len(c) : (c[i] \in A <=> c[i].ledger >= start) /\ (c[i] \in B <=> Indexable(c[i]))
  BY DEF Asked
<1> HIDE DEF f
<1>4. f \in Seq(EventType) /\ \E h : PlacedBy(h, f, c, A, Len(c))
  BY <1>1, KeptFrom DEF f
<1>5. s \in Seq(EventType) /\ Len(s) = n /\ \A i \in 1..n : s[i] = f[i]
  BY <1>2, <1>4
<1> HIDE DEF s
<1>6. todo \in Seq(EventType) /\ \E h : PlacedBy(h, todo, s, B, Len(s))
  BY <1>2, <1>5, KeptFrom
<1>7. PICK g : PlacedBy(g, f, c, A, Len(c))
  BY <1>4
<1>8. PICK h : PlacedBy(h, todo, s, B, n)
  BY <1>5, <1>6
<1>9. ASSUME NEW j \in 1..Len(todo)
      PROVE  /\ h[j] \in 1..n /\ h[j] \in 1..Len(f) /\ g[h[j]] \in 1..Len(c)
             /\ todo[j] = f[h[j]] /\ todo[j] = c[g[h[j]]]
  <2>1. h[j] \in 1..n /\ todo[j] = s[h[j]]
    BY <1>8 DEF PlacedBy
  <2>2. h[j] \in 1..Len(f)
    BY <1>2, <1>4, <2>1
  <2>3. g[h[j]] \in 1..Len(c) /\ f[h[j]] = c[g[h[j]]]
    BY <1>7, <2>2 DEF PlacedBy
  <2>. QED BY <1>5, <2>1, <2>2, <2>3
<1>10. ASSUME NEW j \in 1..Len(todo), NEW i \in 1..Len(c), Indexable(c[i]),
              start <= c[i].ledger, c[i].ledger < todo[j].ledger
       PROVE  \E k \in 1..j - 1 : todo[k] = c[i]
  <2>1. i < g[h[j]]
    <3>1. CASE g[h[j]] <= i
      <4>1. c[g[h[j]]].ledger <= c[i].ledger /\ c[g[h[j]]].ledger \in Nat /\ c[i].ledger \in Nat
        BY <1>1, <1>9, <3>1
      <4>2. todo[j] = c[g[h[j]]]
        BY <1>9
      <4>. QED BY ONLY <1>10, <4>1, <4>2
    <3>2. g[h[j]] \in Int /\ i \in Int
      BY <1>9
    <3>. QED BY ONLY <3>1, <3>2
  <2>2. PICK b \in 1..Len(f) : g[b] = i
    <3>1. c[i] \in A
      BY <1>1, <1>3, <1>10
    <3>. QED BY <1>7, <3>1 DEF PlacedBy
  <2>3. b < h[j] /\ b \in 1..n
    <3>1. b < h[j]
      BY <1>1, <1>4, <1>7, <1>9, <2>1, <2>2, PlacesInOrder
    <3>. QED BY <1>9, <3>1
  <2>4. s[b] = c[i] /\ s[b] \in B
    BY <1>3, <1>5, <1>7, <1>10, <2>2, <2>3 DEF PlacedBy
  <2>5. PICK k \in 1..Len(todo) : h[k] = b
    BY <1>8, <2>3, <2>4 DEF PlacedBy
  <2>6. k < j
    <3>1. h[k] < h[j]
      BY <2>3, <2>5
    <3>. QED BY ONLY <1>6, <1>8, <3>1, n \in Nat, j \in 1..Len(todo), k \in 1..Len(todo), PlacesInOrder
  <2>7. todo[k] = c[i]
    BY <1>8, <2>4, <2>5 DEF PlacedBy
  <2>8. k \in 1..j - 1
    <3>1. Len(todo) \in Nat
      BY <1>6
    <3>. QED BY ONLY <2>6, <3>1, j \in 1..Len(todo), k \in 1..Len(todo)
  <2>. QED BY <2>7, <2>8
<1>. QED BY <1>6, <1>9, <1>10 DEF NoGaps

\* Before the first poll nothing is stored and the cursor is zero.
LEMMA FeedInitInv == FeedInit => FeedInv
BY DEF FeedInit, FeedInv, FeedType, ChainInv, GuardInv, PollOK, StoredBefore, PollerType, Idle

\* More stored: what was stored before a ledger still is.
LEMMA StoredKept ==
    ASSUME NEW c, NEW st, NEW su, st \subseteq su, NEW l, NEW todo, NEW k, StoredBefore(c, st, l, todo, k)
    PROVE  StoredBefore(c, su, l, todo, k)
BY DEF StoredBefore

\* A poll keeps its promise while the store grows.
LEMMA PollKept ==
    ASSUME NEW c, NEW st, NEW su, st \subseteq su, NEW x, NEW cur, NEW led, PollOK(x, c, st, cur, led)
    PROVE  PollOK(x, c, su, cur, led)
BY StoredKept DEF PollOK

\* The types of what a poll works on.
LEMMA FeedTypes ==
    ASSUME FeedType
    PROVE  /\ ledger \in Nat /\ cursor \in Nat /\ cursor <= ledger /\ Len(chainEvents) \in Nat
           /\ \A i \in 1..Len(chainEvents) : chainEvents[i] \in EventType /\ chainEvents[i].ledger \in Nat
           /\ \A p \in Pollers :
                 /\ poller[p] \in PollerType
                 /\ poller[p].max \in Nat /\ poller[p].from \in Nat
                 /\ poller[p].todo \in Seq(EventType) /\ Len(poller[p].todo) \in Nat
                 /\ \A j \in 1..Len(poller[p].todo) :
                       poller[p].todo[j] \in EventType /\ poller[p].todo[j].ledger \in Nat
<1>1. ledger \in Nat /\ cursor \in Nat /\ cursor <= ledger /\ Len(chainEvents) \in Nat
  BY DEF FeedType
<1>2. ASSUME NEW i \in 1..Len(chainEvents)
      PROVE  chainEvents[i] \in EventType /\ chainEvents[i].ledger \in Nat
  <2>1. chainEvents[i] \in EventType
    BY DEF FeedType
  <2>. QED BY <2>1 DEF EventType
<1>3. ASSUME NEW p \in Pollers
      PROVE  poller[p] \in PollerType /\ poller[p].max \in Nat /\ poller[p].from \in Nat
             /\ poller[p].todo \in Seq(EventType) /\ Len(poller[p].todo) \in Nat
  BY DEF FeedType, PollerType
<1>4. ASSUME NEW p \in Pollers, NEW j \in 1..Len(poller[p].todo)
      PROVE  poller[p].todo[j] \in EventType /\ poller[p].todo[j].ledger \in Nat
  <2>1. poller[p].todo[j] \in EventType
    BY <1>3
  <2>. QED BY <2>1 DEF EventType
<1>. QED BY <1>1, <1>2, <1>3, <1>4

\* One step of the chain, of a poll or of a reader keeps the invariant.
LEMMA FeedStep == FeedInv /\ [FeedNext]_evars => FeedInv'
<1>. SUFFICES ASSUME FeedInv, [FeedNext]_evars PROVE FeedInv'
  OBVIOUS
<1>0. /\ FeedType /\ ChainInv /\ GuardInv
      /\ StoredBefore(chainEvents, store, cursor, <<>>, 0)
      /\ \A p \in Pollers : PollOK(poller[p], chainEvents, store, cursor, ledger)
  BY DEF FeedInv
<1>a. /\ ledger \in Nat /\ cursor \in Nat /\ cursor <= ledger /\ Len(chainEvents) \in Nat
      /\ \A i \in 1..Len(chainEvents) : chainEvents[i] \in EventType /\ chainEvents[i].ledger \in Nat
      /\ \A p \in Pollers :
            /\ poller[p] \in PollerType
            /\ poller[p].max \in Nat /\ poller[p].from \in Nat
            /\ poller[p].todo \in Seq(EventType) /\ Len(poller[p].todo) \in Nat
            /\ \A j \in 1..Len(poller[p].todo) :
                  poller[p].todo[j] \in EventType /\ poller[p].todo[j].ledger \in Nat
  BY <1>0, FeedTypes
<1>1. ASSUME NEW k \in Kinds, Emit(k) PROVE FeedInv'
  <2> DEFINE e == [ledger |-> ledger, kind |-> k, n |-> Len(chainEvents) + 1]
  <2>1. /\ chainEvents' = Append(chainEvents, e)
        /\ UNCHANGED <<ledger, store, cursor, running, poller>>
    BY <1>1 DEF Emit
  <2>2. e \in EventType /\ e.ledger = ledger
    BY <1>a DEF EventType
  <2> HIDE DEF e
  <2>3. /\ chainEvents' \in Seq(EventType) /\ Len(chainEvents') = Len(chainEvents) + 1
        /\ \A i \in 1..Len(chainEvents) : chainEvents'[i] = chainEvents[i]
        /\ chainEvents'[Len(chainEvents) + 1] = e
    BY <1>0, <2>1, <2>2 DEF FeedType
  <2>4. FeedType'
    BY <1>0, <2>1, <2>3 DEF FeedType
  <2>5. ChainInv'
    BY <1>0, <1>a, <2>1, <2>2, <2>3 DEF ChainInv
  <2>6. ASSUME NEW l \in Nat, l <= ledger, NEW todo, NEW m, StoredBefore(chainEvents, store, l, todo, m)
        PROVE  StoredBefore(chainEvents', store', l, todo, m)
    BY <1>a, <2>1, <2>2, <2>3, <2>6 DEF StoredBefore
  <2>7. StoredBefore(chainEvents', store', cursor', <<>>, 0)
    BY <1>0, <1>a, <2>1, <2>6
  <2>8. ASSUME NEW p \in Pollers PROVE PollOK(poller[p], chainEvents', store', cursor, ledger)
    <3>1. PollOK(poller[p], chainEvents, store, cursor, ledger)
      BY <1>0
    <3>2. StoredBefore(chainEvents', store', poller[p].max, <<>>, 0)
      BY <1>a, <2>6, <3>1 DEF PollOK
    <3>3. ASSUME NEW j \in 1..Len(poller[p].todo)
          PROVE  StoredBefore(chainEvents', store', poller[p].todo[j].ledger, poller[p].todo, j - 1)
      BY <1>a, <2>6, <3>1 DEF PollOK
    <3>. QED BY <3>1, <3>2, <3>3 DEF PollOK
  <2>. QED BY <1>0, <2>1, <2>4, <2>5, <2>7, <2>8 DEF FeedInv, GuardInv
<1>2. CASE CloseLedger
  <2>1. ledger' = ledger + 1 /\ UNCHANGED <<chainEvents, store, cursor, running, poller>>
    BY <1>2 DEF CloseLedger
  <2>2. FeedType' /\ ChainInv'
    BY <1>0, <1>a, <2>1 DEF FeedType, ChainInv
  <2>3. ASSUME NEW p \in Pollers PROVE PollOK(poller[p], chainEvents, store, cursor, ledger + 1)
    <3>1. PollOK(poller[p], chainEvents, store, cursor, ledger)
      BY <1>0
    <3>. QED BY <1>a, <3>1 DEF PollOK
  <2>. QED BY <1>0, <2>1, <2>2, <2>3 DEF FeedInv, GuardInv
<1>3. ASSUME UNCHANGED <<ledger, chainEvents, store, cursor, running, poller>> PROVE FeedInv'
  BY <1>3 DEF FeedInv, FeedType, ChainInv, GuardInv
<1>4. ASSUME NEW p \in Pollers, NEW x \in PollerType,
             poller' = [poller EXCEPT ![p] = x], UNCHANGED <<ledger, chainEvents>>, store \subseteq store',
             cursor' \in Nat, cursor' <= ledger,
             \A r \in Pollers : r # p => poller[r].pc = "idle",
             x.pc # "idle" => running' /\ x.from = cursor',
             StoredBefore(chainEvents, store', cursor', <<>>, 0),
             PollOK(x, chainEvents, store', cursor', ledger)
      PROVE  FeedInv'
  <2>1. FeedType' /\ ChainInv'
    BY <1>0, <1>4 DEF FeedType, ChainInv
  <2>2. \A r \in Pollers : poller'[r] = IF r = p THEN x ELSE poller[r]
    BY <1>0, <1>4 DEF FeedType
  <2>3. GuardInv'
    BY <1>4, <2>2 DEF GuardInv
  <2>4. ASSUME NEW r \in Pollers, r # p
        PROVE  PollOK(poller[r], chainEvents, store', cursor', ledger)
    <3>1. PollOK(poller[r], chainEvents, store', cursor, ledger) /\ poller[r].pc = "idle"
      BY <1>0, <1>4, <2>4, PollKept
    <3>. QED BY <3>1 DEF PollOK
  <2>5. \A r \in Pollers : PollOK(poller'[r], chainEvents', store', cursor', ledger')
    BY <1>4, <2>2, <2>4
  <2>. QED BY <1>4, <2>1, <2>3, <2>5 DEF FeedInv
<1>5. ASSUME NEW p \in Pollers, poller[p].pc # "idle", NEW r \in Pollers, r # p PROVE poller[r].pc = "idle"
  BY <1>0, <1>5 DEF GuardInv
<1>6. ASSUME NEW p \in Pollers, PollBegin(p) PROVE FeedInv'
  <2> DEFINE x == [Idle EXCEPT !.pc = "fetch", !.from = cursor, !.max = cursor]
  <2>1. /\ poller' = [poller EXCEPT ![p] = x] /\ running' = TRUE
        /\ UNCHANGED <<ledger, chainEvents, store, cursor>>
    BY <1>6 DEF PollBegin
  <2>2. x \in PollerType /\ x.pc = "fetch" /\ x.from = cursor /\ x.todo = <<>> /\ x.max = cursor
    <3>0. Idle.todo = <<>> /\ Idle \in PollerType
      BY DEF PollerType, Idle
    <3>1. PICK o \in PollerType : o = Idle /\ o.todo = <<>>
      BY <3>0
    <3>. QED BY <1>a, <3>1 DEF PollerType
  <2> HIDE DEF x
  <2>3. PollOK(x, chainEvents, store, cursor, ledger)
    BY <1>0, <1>a, <2>2 DEF PollOK
  <2>4. \A r \in Pollers : poller[r].pc = "idle"
    BY <1>0, <1>6 DEF PollBegin, GuardInv
  <2>. QED BY <1>0, <1>4, <1>a, <2>1, <2>2, <2>3, <2>4
<1>7. ASSUME NEW p \in Pollers, NEW n \in 0..MaxEvents, PollFetched(p, n) PROVE FeedInv'
  <2> DEFINE w == poller[p].from
             t == Kept(SubSeq(From(w), 1, n), {e \in Events : Indexable(e)})
             x == [poller[p] EXCEPT !.pc = "persist", !.todo = t]
  <2>1. /\ poller[p].pc = "fetch" /\ n <= Len(From(w))
        /\ poller' = [poller EXCEPT ![p].pc = "persist", ![p].todo = t]
        /\ UNCHANGED <<ledger, chainEvents, store, cursor, running>>
    BY <1>7 DEF PollFetched
  <2>2. w \in Nat /\ n \in Nat /\ w = cursor /\ running
    BY <1>0, <1>a, <2>1 DEF GuardInv
  <2>3. t \in Seq(EventType) /\ NoGaps(chainEvents, w, t)
    <3>1. PICK c \in Seq(EventType) : c = chainEvents
      BY <1>0 DEF FeedType
    <3>2. PICK start \in Nat : start = w
      BY <2>2
    <3>3. PICK A : A = {e \in Events : e.ledger >= start}
      OBVIOUS
    <3>4. PICK B : B = {e \in Events : Indexable(e)}
      OBVIOUS
    <3>5. From(w) = Kept(c, A) /\ n <= Len(Kept(c, A))
      BY <2>1, <3>1, <3>2, <3>3 DEF From
    <3>6. PICK todo : todo = Kept(SubSeq(Kept(c, A), 1, n), B)
      OBVIOUS
    <3>7. t = todo
      BY <3>4, <3>5, <3>6
    <3> HIDE DEF t, w
    <3>8. Asked(c, start, A, B)
      BY <3>1, <3>3, <3>4 DEF Events, Asked
    <3>9. InOrder(c)
      BY <1>0, <3>1 DEF ChainInv, InOrder
    <3>10. todo \in Seq(EventType) /\ NoGaps(c, start, todo)
      BY <2>2, <3>5, <3>6, <3>8, <3>9, AnswerInOrder
    <3>. QED BY <3>1, <3>2, <3>7, <3>10
  <2> HIDE DEF t, w
  <2>4. poller' = [poller EXCEPT ![p] = x]
    BY <1>0, <2>1 DEF FeedType
  <2>5. /\ x \in PollerType /\ x.pc = "persist" /\ x.from = w /\ x.todo = t /\ x.max = poller[p].max
    <3>1. PICK o \in PollerType : o = poller[p]
      BY <1>a
    <3>2. [o EXCEPT !.pc = "persist", !.todo = t] \in PollerType
      BY <2>3 DEF PollerType
    <3>. QED BY <3>1, <3>2 DEF PollerType, w
  <2> HIDE DEF x
  <2>6. ASSUME NEW j \in 1..Len(t)
        PROVE  t[j].ledger <= ledger /\ StoredBefore(chainEvents, store, t[j].ledger, t, j - 1)
    <3>1. t[j].ledger <= ledger
      BY <1>0, <2>3 DEF ChainInv, NoGaps
    <3>2. ASSUME NEW i \in 1..Len(chainEvents), Indexable(chainEvents[i]),
                 chainEvents[i].ledger < t[j].ledger
          PROVE  KeyOf(chainEvents[i]) \in store \/ \E k \in 1..j - 1 : t[k] = chainEvents[i]
      <4>1. CASE chainEvents[i].ledger < w
        BY <1>0, <2>2, <3>2, <4>1 DEF StoredBefore
      <4>2. CASE w <= chainEvents[i].ledger
        BY <2>3, <3>2, <4>2 DEF NoGaps
      <4>. QED BY <1>a, <2>2, <4>1, <4>2
    <3>. QED BY <3>1, <3>2 DEF StoredBefore
  <2>7. PollOK(x, chainEvents, store, cursor, ledger)
    BY <1>0, <2>5, <2>6 DEF PollOK
  <2>. QED BY <1>0, <1>4, <1>5, <1>a, <2>1, <2>2, <2>4, <2>5, <2>7
<1>8. ASSUME NEW p \in Pollers, PersistOne(p) PROVE FeedInv'
  <2> DEFINE t == poller[p].todo
             u == Tail(t)
             m == IF Head(t).ledger > poller[p].max THEN Head(t).ledger ELSE poller[p].max
             x == [poller[p] EXCEPT !.todo = u, !.max = m]
  <2>1. /\ poller[p].pc = "persist" /\ t # <<>>
        /\ store' = store \cup {KeyOf(Head(t))}
        /\ poller' = [poller EXCEPT ![p].todo = u, ![p].max = m]
        /\ UNCHANGED <<ledger, chainEvents, cursor, running>>
    BY <1>8 DEF PersistOne
  <2>2. poller[p].from = cursor /\ running
    BY <1>0, <2>1 DEF GuardInv
  <2>3. /\ t \in Seq(EventType) /\ Len(t) \in Nat /\ Len(t) > 0 /\ Head(t) = t[1] /\ t[1].ledger \in Nat
        /\ u \in Seq(EventType) /\ Len(u) = Len(t) - 1
        /\ \A j \in 1..Len(u) : u[j] = t[j + 1] /\ j + 1 \in 1..Len(t)
    <3>1. t \in Seq(EventType) /\ Len(t) \in Nat /\ Len(t) > 0
      BY <1>a, <2>1
    <3>2. t[1].ledger \in Nat
      BY <1>a, <3>1
    <3> HIDE DEF t
    <3>. QED BY <2>1, <3>1, <3>2
  <2>4. poller' = [poller EXCEPT ![p] = x]
    <3> HIDE DEF u, m
    <3>. QED BY <1>0, <2>1 DEF FeedType
  <2>5. m \in Nat /\ (m = t[1].ledger \/ m = poller[p].max)
    BY <1>a, <2>3
  <2>6. PollOK(poller[p], chainEvents, store, cursor, ledger)
    BY <1>0
  <2>7. /\ StoredBefore(chainEvents, store, poller[p].max, <<>>, 0)
        /\ poller[p].max <= ledger
        /\ \A j \in 1..Len(t) : t[j].ledger <= ledger /\ StoredBefore(chainEvents, store, t[j].ledger, t, j - 1)
    BY <2>6 DEF PollOK
  <2> HIDE DEF t, u, m
  <2>8. x \in PollerType /\ x.pc = "persist" /\ x.from = cursor /\ x.todo = u /\ x.max = m
    <3>1. PICK o \in PollerType : o = poller[p]
      BY <1>a
    <3>2. [o EXCEPT !.todo = u, !.max = m] \in PollerType
      BY <2>3, <2>5 DEF PollerType
    <3>. QED BY <2>1, <2>2, <3>1, <3>2 DEF PollerType
  <2> HIDE DEF x
  <2>9. 1 \in 1..Len(t) /\ StoredBefore(chainEvents, store, t[1].ledger, <<>>, 0)
    <3>1. 1 \in 1..Len(t)
      BY <2>3
    <3>. QED BY <2>7, <3>1 DEF StoredBefore
  <2>10. StoredBefore(chainEvents, store', m, <<>>, 0) /\ m <= ledger
    <3>1. StoredBefore(chainEvents, store, m, <<>>, 0) /\ m <= ledger
      BY <2>5, <2>7, <2>9
    <3>. QED BY <2>1, <3>1, StoredKept
  <2>11. ASSUME NEW j \in 1..Len(u)
         PROVE  u[j].ledger <= ledger /\ StoredBefore(chainEvents, store', u[j].ledger, u, j - 1)
    <3>1. /\ j + 1 \in 1..Len(t) /\ u[j] = t[j + 1] /\ (j + 1) - 1 = j
          /\ t[j + 1].ledger <= ledger /\ StoredBefore(chainEvents, store, t[j + 1].ledger, t, j)
      <4>1. j + 1 \in 1..Len(t) /\ u[j] = t[j + 1] /\ (j + 1) - 1 = j
        BY <2>3
      <4>. QED BY <2>7, <4>1
    <3>2. ASSUME NEW i \in 1..Len(chainEvents), Indexable(chainEvents[i]), chainEvents[i].ledger < u[j].ledger
          PROVE  KeyOf(chainEvents[i]) \in store' \/ \E k \in 1..j - 1 : u[k] = chainEvents[i]
      <4>1. CASE KeyOf(chainEvents[i]) \in store
        BY <2>1, <4>1
      <4>2. ASSUME NEW k \in 1..j, t[k] = chainEvents[i]
            PROVE  KeyOf(chainEvents[i]) \in store' \/ \E l \in 1..j - 1 : u[l] = chainEvents[i]
        <5>1. CASE k = 1
          BY <2>1, <2>3, <4>2, <5>1
        <5>2. CASE k # 1
          <6>1. k - 1 \in 1..j - 1 /\ k - 1 \in 1..Len(u) /\ (k - 1) + 1 = k
            BY <2>3, <5>2
          <6>2. u[k - 1] = t[k]
            BY <2>3, <6>1
          <6>. QED BY <4>2, <6>1, <6>2
        <5>. QED BY <5>1, <5>2
      <4>. QED BY <3>1, <3>2, <4>1, <4>2 DEF StoredBefore
    <3>. QED BY <3>1, <3>2 DEF StoredBefore
  <2>12. PollOK(x, chainEvents, store', cursor, ledger)
    BY <2>8, <2>10, <2>11 DEF PollOK
  <2>13. StoredBefore(chainEvents, store', cursor, <<>>, 0) /\ store \subseteq store'
    BY <1>0, <2>1, StoredKept
  <2>14. \A r \in Pollers : r # p => poller[r].pc = "idle"
    BY <1>5, <2>1
  <2>. QED BY <1>4, <1>a, <2>1, <2>2, <2>4, <2>8, <2>12, <2>13, <2>14
<1>9. /\ Idle \in PollerType /\ Idle.pc = "idle"
      /\ PollOK(Idle, chainEvents, store, cursor, ledger)
      /\ \A c \in Nat : PollOK(Idle, chainEvents, store, c, ledger)
  <2>1. Idle.pc = "idle" /\ Idle.max = 0 /\ Idle.todo = <<>> /\ Idle \in PollerType
    BY DEF Idle, PollerType
  <2>2. StoredBefore(chainEvents, store, 0, <<>>, 0)
    BY <1>a DEF StoredBefore
  <2>. QED BY <1>a, <2>1, <2>2 DEF PollOK
<1>10. ASSUME NEW p \in Pollers, PollEnd(p) PROVE FeedInv'
  <2>1. /\ poller[p].pc = "persist"
        /\ cursor' = IF poller[p].max > poller[p].from THEN poller[p].max ELSE cursor
        /\ poller' = [poller EXCEPT ![p] = Idle]
        /\ UNCHANGED <<ledger, chainEvents, store>>
    BY <1>10 DEF PollEnd
  <2>2. poller[p].max <= ledger /\ StoredBefore(chainEvents, store, poller[p].max, <<>>, 0)
    BY <1>0 DEF PollOK
  <2>3. cursor' \in Nat /\ cursor' <= ledger /\ StoredBefore(chainEvents, store, cursor', <<>>, 0)
    BY <1>0, <1>a, <2>1, <2>2
  <2>4. \A r \in Pollers : r # p => poller[r].pc = "idle"
    BY <1>5, <2>1
  <2>. QED BY <1>4, <1>9, <2>1, <2>3, <2>4
<1>11. ASSUME NEW p \in Pollers, PollFails(p) PROVE FeedInv'
  <2>1. /\ poller[p].pc # "idle"
        /\ poller' = [poller EXCEPT ![p] = Idle]
        /\ UNCHANGED <<ledger, chainEvents, store, cursor>>
    BY <1>11 DEF PollFails
  <2>2. \A r \in Pollers : r # p => poller[r].pc = "idle"
    BY <1>5, <2>1
  <2>. QED BY <1>0, <1>4, <1>9, <1>a, <2>1, <2>2
<1>12. CASE StreamPoll \/ StreamAnswer \/ StreamError \/ Unsubscribe
  BY <1>3, <1>12 DEF StreamPoll, StreamAnswer, StreamError, Unsubscribe
<1>. QED
  BY <1>1, <1>2, <1>3, <1>6, <1>7, <1>8, <1>10, <1>11, <1>12 DEF FeedNext, evars

\* No event before the indexer's cursor is missing from its store (eventIndexer.ts, poll():
\* the cursor is moved last, the guard keeps a second poll out, and answers are in the
\* order of the ledgers): for every number of events, pollers and sizes of an answer.
THEOREM FeedNothingMissed == FeedSpec => []NothingMissedBeforeCursor
<1>1. FeedInv => NothingMissedBeforeCursor
  BY DEF FeedInv, NothingMissedBeforeCursor, StoredBefore
<1>. QED
  BY <1>1, FeedInitInv, FeedStep, PTL DEF FeedSpec

-----------------------------------------------------------------------------
(* The queue list                                                          *)

\* p says where the items stand among the queues: in the order the queues were created.
PlacedInOrder(p, items) ==
    /\ \A j \in 1..Len(items) : p[j] \in 1..Len(PSlugs) /\ items[j] = PSlugs[p[j]]
    /\ \A j, k \in 1..Len(items) : j < k => p[j] < p[k]
\* No item stands behind q.
UpToPlace(p, items, q) == \A j \in 1..Len(items) : p[j] <= q
EndsAt(p, items, c) == \E q \in 1..Len(PSlugs) : PSlugs[q] = c /\ UpToPlace(p, items, q)
\* A list whose items are in order, none behind the cursor.
ListOK(items, c) ==
    \E S : items \in Seq(S) /\ \E p : PlacedInOrder(p, items) /\ (c # NoCursor => EndsAt(p, items, c))
\* A page: behind the cursor it was asked for.
PageOK(items, c, from) ==
    \E S : items \in Seq(S) /\ \E p : /\ PlacedInOrder(p, items)
                                      /\ c # NoCursor => EndsAt(p, items, c) /\ Len(items) # 0
                                      /\ from # NoCursor => \A q \in 1..Len(PSlugs) : PSlugs[q] = from =>
                                             \A j \in 1..Len(items) : q < p[j]

ListingOK(l) ==
    /\ l \in Seq(ToSet(PSlugs)) /\ Len(l) <= Len(PSlugs)
    /\ \A k \in 1..Len(l) : l[k] = PSlugs[k]

\* A slice of a filtered list.
LEMMA SliceOK ==
    ASSUME NEW l, ListingOK(l), NEW M, NEW list, list = Kept(l, M), NEW start \in 0..Len(list), NEW stop \in start..Len(list),
           NEW from, from # NoCursor => start # 0 /\ list[start] = from, NEW c, c # NoCursor => stop > start /\ c = list[stop]
    PROVE  PageOK(SubSeq(list, start + 1, stop), c, from)
<1>1. PICK S : S = ToSet(PSlugs)
  OBVIOUS
<1>2. l \in Seq(S) /\ Len(l) \in Nat
  BY <1>1 DEF ListingOK
<1>3. list \in Seq(S) /\ \E h : PlacedBy(h, list, l, M, Len(l))
  BY <1>2, KeptFrom
<1>4. PICK h : PlacedBy(h, list, l, M, Len(l))
  BY <1>3
<1>5. PICK m : m = Len(list) /\ m \in Nat
  BY <1>3
<1>6. start \in Nat /\ stop \in Nat /\ start <= stop /\ stop <= m /\ m \in Nat
  BY <1>5
<1>7. PICK items, n : items = SubSeq(list, start + 1, stop) /\ n = stop - start
  OBVIOUS
<1>8. items \in Seq(S) /\ Len(items) = n /\ n \in Nat /\ \A j \in 1..n : items[j] = list[start + j]
  <2>1. start + 1 \in Int /\ stop \in Int
    BY <1>6
  <2>2. \A i \in (start + 1)..stop : list[i] \in S
    <3>1. \A i \in (start + 1)..stop : i \in 1..m
      BY <1>6
    <3>. QED BY <1>3, <1>5, <3>1
  <2>3. items = [j \in 1..n |-> list[start + j]]
    <3>1. start + 1 <= stop + 1 /\ 1..((1 + stop) - (start + 1)) = 1..n
      BY <1>6, <1>7
    <3>2. items = [j \in 1..((1 + stop) - (start + 1)) |-> list[((start + 1) + j) - 1]]
      BY <1>7, SMT
    <3>3. \A j \in 1..n : ((start + 1) + j) - 1 = start + j
      BY <1>6, <1>7
    <3>. QED BY <3>1, <3>2, <3>3
  <2>4. n \in Nat /\ \A j \in 1..n : start + j \in 1..m
    BY <1>6, <1>7
  <2>5. \A j \in 1..n : list[start + j] \in S
    BY <1>3, <1>5, <2>4, SMTT(30)
  <2>. QED BY <2>3, <2>4, <2>5
<1>9. \A i \in 1..m : h[i] \in 1..Len(PSlugs) /\ h[i] \in Int /\ list[i] = PSlugs[h[i]]
  <2>1. Len(l) <= Len(PSlugs) /\ Len(PSlugs) \in Nat
    BY PagesAssumption DEF ListingOK
  <2>2. \A i \in 1..m : h[i] \in 1..Len(l) /\ list[i] = l[h[i]]
    BY <1>4, <1>5 DEF PlacedBy
  <2>3. \A k \in 1..Len(l) : k \in 1..Len(PSlugs) /\ k \in Int /\ l[k] = PSlugs[k]
    BY <1>2, <2>1 DEF ListingOK
  <2>. QED BY <2>2, <2>3
<1>10. \A i, k \in 1..m : i < k => h[i] < h[k]
  BY <1>4, <1>5 DEF PlacedBy
<1>11. PICK p : p = [j \in 1..n |-> h[start + j]]
  OBVIOUS
<1>12. \A j \in 1..n : p[j] = h[start + j] /\ start + j \in 1..m /\ start + j \in Int /\ start < start + j /\ start + j <= stop
  BY <1>6, <1>7, <1>11
<1>13. PlacedInOrder(p, items)
  <2>1. \A j, k \in 1..n : j < k => start + j < start + k
    BY <1>6
  <2>. QED BY <1>8, <1>9, <1>10, <1>12, <2>1 DEF PlacedInOrder
<1>14. ASSUME c # NoCursor PROVE EndsAt(p, items, c) /\ Len(items) # 0
  <2>1. stop \in 1..m /\ c = list[stop]
    BY <1>6, <1>14
  <2>2. PICK q : q = h[stop]
    OBVIOUS
  <2>3. q \in 1..Len(PSlugs) /\ q \in Int /\ PSlugs[q] = c
    BY <1>9, <2>1, <2>2
  <2>4. ASSUME NEW j \in 1..n PROVE p[j] <= q
    <3>1. PICK i : i = start + j /\ i \in 1..m /\ i \in Int /\ i <= stop /\ p[j] = h[i]
      BY <1>12
    <3>2. i = stop \/ i < stop
      BY <1>6, <3>1
    <3>3. h[i] \in Int
      BY <1>9, <3>1
    <3>. QED BY <1>10, <2>1, <2>2, <2>3, <3>1, <3>2, <3>3
  <2>5. n # 0
    BY <1>6, <1>7, <1>14
  <2>. QED BY <1>8, <2>3, <2>4, <2>5 DEF EndsAt, UpToPlace
<1>15. ASSUME from # NoCursor, NEW q \in 1..Len(PSlugs), PSlugs[q] = from, NEW j \in 1..n PROVE q < p[j]
  <2>1. start \in 1..m /\ PSlugs[h[start]] = from /\ h[start] \in 1..Len(PSlugs)
    BY <1>5, <1>6, <1>9, <1>15
  <2>2. q = h[start]
    <3>1. DOMAIN PSlugs = 1..Len(PSlugs)
      BY PagesAssumption
    <3>. QED BY <1>15, <2>1, <3>1, PagesAssumption DEF IsInjective
  <2>. QED BY <1>10, <1>12, <2>1, <2>2
<1>. QED BY <1>7, <1>8, <1>13, <1>14, <1>15 DEF PageOK

\* What the route answers, to a cursor that is still in the list.
LEMMA RouteOK ==
    ASSUME ListingOK(listing), NEW f, NEW c, NEW list, list = Filtered(f), CursorValid(list, c),
           NEW a, a = ListRoute(list, c)
    PROVE  PageOK(a.items, a.cursor, c)
<1>1. PICK start, stop : /\ start = StartIndex(list, c)
                         /\ stop = IF start + PLimit < Len(list) THEN start + PLimit ELSE Len(list)
  OBVIOUS
<1>2. a.items = SubSeq(list, start + 1, stop)
      /\ a.cursor = IF stop > start /\ stop < Len(list) THEN list[stop] ELSE NoCursor
  BY <1>1 DEF ListRoute
<1>3. PICK l, M, S : l = listing /\ M = Matching(f) /\ S = ToSet(PSlugs)
  OBVIOUS
<1>4. list = Kept(l, M) /\ ListingOK(l)
  BY <1>3 DEF Filtered
<1>5. l \in Seq(S)
  BY <1>3 DEF ListingOK
<1>6. list \in Seq(S) /\ Len(list) \in Nat
  <2>1. list \in Seq(S)
    BY <1>4, <1>5, KeptFrom
  <2>. QED BY <2>1
<1>7. start \in 0..Len(list) /\ (c # NoCursor => start # 0 /\ list[start] = c)
  <2>1. CASE c = NoCursor
    BY <1>1, <1>6, <2>1 DEF StartIndex
  <2>2. CASE c # NoCursor
    <3>1. PICK I : I = {i \in 1..Len(list) : list[i] = c}
      OBVIOUS
    <3>2. start = IF I # {} THEN Min(I) ELSE 0
      BY <1>1, <2>2, <3>1 DEF StartIndex, SelectInSeq
    <3>3. I # {}
      <4>1. Contains(list, c)
        BY <2>2 DEF CursorValid
      <4>. QED BY <1>6, <3>1, <4>1 DEF Contains
    <3>4. Min(I) \in I
      <4>1. I \subseteq Nat
        BY <3>1
      <4>2. \E x \in I : \A y \in I : x <= y
        BY <3>3, <4>1, LeastNat
      <4>. QED BY <4>2 DEF Min
    <3>. QED BY <1>6, <3>1, <3>2, <3>3, <3>4
  <2>. QED BY <2>1, <2>2
<1>8. stop \in start..Len(list)
  BY <1>1, <1>6, <1>7, PagesAssumption
<1>9. PICK k : k = a.cursor
  OBVIOUS
<1>10. k # NoCursor => stop > start /\ k = list[stop]
  BY <1>2, <1>9
<1>11. PageOK(SubSeq(list, start + 1, stop), k, c)
  BY <1>4, <1>7, <1>8, <1>10, SliceOK
<1>. QED BY <1>2, <1>9, <1>11

\* The page asked for with the cursor of a list goes on where the list ends.
LEMMA JoinedOK ==
    ASSUME NEW items, NEW c, c # NoCursor, ListOK(items, c), NEW more, NEW k, PageOK(more, k, c)
    PROVE  ListOK(items \o more, k)
<1>1. PICK S, p : items \in Seq(S) /\ PlacedInOrder(p, items) /\ EndsAt(p, items, c)
  BY DEF ListOK
<1>2. PICK T, r : /\ more \in Seq(T) /\ PlacedInOrder(r, more) /\ (k # NoCursor => EndsAt(r, more, k) /\ Len(more) # 0)
                  /\ \A q \in 1..Len(PSlugs) : PSlugs[q] = c => \A j \in 1..Len(more) : q < r[j]
  BY DEF PageOK
<1>3. PICK q \in 1..Len(PSlugs) : PSlugs[q] = c /\ UpToPlace(p, items, q)
  BY <1>1 DEF EndsAt
<1>4. PICK m, n, U, all : m = Len(items) /\ n = Len(more) /\ U = S \cup T /\ all = items \o more
  OBVIOUS
<1>5. items \in Seq(U) /\ more \in Seq(U) /\ m \in Nat /\ n \in Nat
  BY <1>1, <1>2, <1>4
<1>6. all \in Seq(U) /\ Len(all) = m + n /\ (\A j \in 1..m : all[j] = items[j]) /\ \A j \in 1..n : all[m + j] = more[j]
  BY <1>4, <1>5
<1>7. PICK s : s = [j \in 1..(m + n) |-> IF j <= m THEN p[j] ELSE r[j - m]]
  OBVIOUS
<1>8. /\ \A j \in 1..m : s[j] = p[j] /\ all[j] = items[j] /\ s[j] <= q /\ s[j] \in Int
      /\ \A j \in 1..m : s[j] \in 1..Len(PSlugs) /\ all[j] = PSlugs[s[j]]
  <2>1. \A j \in 1..m : s[j] = p[j]
    BY <1>5, <1>7
  <2>2. \A j \in 1..m : p[j] \in 1..Len(PSlugs) /\ p[j] \in Int /\ items[j] = PSlugs[p[j]] /\ p[j] <= q
    BY <1>1, <1>3, <1>4 DEF PlacedInOrder, UpToPlace
  <2>. QED BY <1>6, <2>1, <2>2
<1>9. \A j \in 1..(m + n) : ~(j <= m) =>
          /\ j - m \in 1..n /\ s[j] = r[j - m] /\ all[j] = more[j - m] /\ q < s[j] /\ s[j] \in Int
          /\ s[j] \in 1..Len(PSlugs) /\ all[j] = PSlugs[s[j]]
  <2>1. \A j \in 1..(m + n) : ~(j <= m) => j - m \in 1..n /\ s[j] = r[j - m] /\ j = m + (j - m)
    BY <1>5, <1>7
  <2>2. \A j \in 1..n : r[j] \in 1..Len(PSlugs) /\ r[j] \in Int /\ more[j] = PSlugs[r[j]] /\ q < r[j]
    BY <1>2, <1>3, <1>4 DEF PlacedInOrder
  <2>3. \A j \in 1..(m + n) : ~(j <= m) => all[j] = more[j - m]
    <3>1. ASSUME NEW j \in 1..(m + n), ~(j <= m) PROVE all[j] = more[j - m]
      <4>1. PICK i : i = j - m /\ i \in 1..n /\ j = m + i
        BY <2>1, <3>1
      <4>. QED BY <1>6, <4>1
    <3>. QED BY <3>1
  <2>. QED BY <2>1, <2>2, <2>3
<1>10. \A i, j \in 1..m : i < j => p[i] < p[j]
  BY <1>1, <1>4 DEF PlacedInOrder
<1>11. \A i, j \in 1..n : i < j => r[i] < r[j]
  BY <1>2, <1>4 DEF PlacedInOrder
<1>12. ASSUME NEW i \in 1..(m + n), NEW j \in 1..(m + n), i < j PROVE s[i] < s[j]
  <2>1. CASE j <= m
    <3>1. i \in 1..m /\ j \in 1..m
      BY <1>5, <1>12, <2>1
    <3>. QED BY <1>8, <1>10, <1>12, <3>1
  <2>2. CASE i <= m /\ ~(j <= m)
    <3>1. i \in 1..m
      BY <1>5, <2>2
    <3>2. s[i] <= q /\ s[i] \in Int /\ q < s[j] /\ s[j] \in Int /\ q \in Int
      BY <1>8, <1>9, <2>2, <3>1
    <3>. QED BY ONLY <3>2
  <2>3. CASE ~(i <= m) /\ ~(j <= m)
    <3>1. i - m < j - m
      BY <1>5, <1>12
    <3>. QED BY <1>9, <1>11, <2>3, <3>1
  <2>. QED BY <1>5, <1>12, <2>1, <2>2, <2>3
<1>13. PlacedInOrder(s, all)
  <2>1. ASSUME NEW j \in 1..(m + n) PROVE s[j] \in 1..Len(PSlugs) /\ all[j] = PSlugs[s[j]]
    <3>1. CASE j <= m
      <4>1. j \in 1..m
        BY <1>5, <3>1
      <4>. QED BY <1>8, <4>1
    <3>2. CASE ~(j <= m)
      BY <1>9, <3>2
    <3>. QED BY <3>1, <3>2
  <2>. QED BY <1>6, <1>12, <2>1 DEF PlacedInOrder
<1>14. ASSUME k # NoCursor PROVE EndsAt(s, all, k)
  <2>1. PICK e \in 1..Len(PSlugs) : PSlugs[e] = k /\ UpToPlace(r, more, e)
    BY <1>2, <1>14 DEF EndsAt
  <2>2. ASSUME NEW j \in 1..(m + n) PROVE s[j] <= e
    <3>1. CASE ~(j <= m)
      BY <1>4, <1>9, <2>1, <3>1 DEF UpToPlace
    <3>2. CASE j <= m
      <4>0. n # 0
        BY <1>2, <1>4, <1>14
      <4>1. j \in 1..m /\ 1 \in 1..n
        BY <1>5, <3>2, <4>0
      <4>2. q < r[1] /\ r[1] <= e /\ r[1] \in Int
        BY <1>2, <1>3, <1>4, <2>1, <4>1 DEF UpToPlace, PlacedInOrder
      <4>3. s[j] <= q /\ s[j] \in Int /\ q \in Int /\ e \in Int
        BY <1>8, <4>1
      <4>. QED BY ONLY <4>2, <4>3
    <3>. QED BY <3>1, <3>2
  <2>. QED BY <1>6, <2>1, <2>2 DEF EndsAt, UpToPlace
<1>. QED BY <1>4, <1>6, <1>13, <1>14 DEF ListOK

\* Unless a page was mixed in, the list on screen and those in the cache are in order.
PagesInv ==
    /\ ListingOK(listing)
    /\ sel \in Filters /\ pages = [f \in Filters |-> pages[f]]
    /\ page # NoPage => page.cursor # NoCursor /\ page.filter \in Filters
    /\ ~mixed => /\ ListOK(shown, nextCursor)
                 /\ \A f \in Filters : pages[f] # NoEntry => ListOK(pages[f].items, pages[f].cursor)

\* A page is a list.
LEMMA PageIsList == ASSUME NEW items, NEW c, NEW from, PageOK(items, c, from) PROVE ListOK(items, c)
BY DEF PageOK, ListOK

\* Nothing is in order.
LEMMA NothingOK == ListOK(<<>>, NoCursor)
<1>1. <<>> \in Seq({}) /\ Len(<<>>) = 0
  OBVIOUS
<1>. QED BY <1>1 DEF ListOK, PlacedInOrder

\* Initially there is no queue.
LEMMA PagesInitInv == PagesInit => PagesInv
<1> SUFFICES ASSUME PagesInit PROVE PagesInv
  OBVIOUS
<1>1. ListingOK(listing)
  <2>1. listing \in Seq(ToSet(PSlugs)) /\ Len(listing) = 0 /\ Len(PSlugs) \in Nat
    BY PagesAssumption DEF PagesInit
  <2>. QED BY <2>1 DEF ListingOK
<1>. QED BY <1>1, NothingOK DEF PagesInit, PagesInv

\* The invariant is inductive.
LEMMA PagesStep == PagesInv /\ [PagesNext]_pvars => PagesInv'
<1> SUFFICES ASSUME PagesInv, [PagesNext]_pvars PROVE PagesInv'
  OBVIOUS
<1>1. CASE UNCHANGED pvars
  BY <1>1 DEF PagesInv, pvars
<1>2. CASE ServerCreates
  <2>1. PICK l, x, S, n : l = listing /\ x = PSlugs[Len(listing) + 1] /\ S = ToSet(PSlugs) /\ n = Len(listing)
    OBVIOUS
  <2>2. l \in Seq(S) /\ n \in Nat /\ n < Len(PSlugs) /\ Len(PSlugs) \in Nat /\ (\A k \in 1..n : l[k] = PSlugs[k])
    BY <1>2, <2>1, PagesAssumption DEF PagesInv, ListingOK, ServerCreates
  <2>3. n + 1 \in 1..Len(PSlugs)
    BY <2>2
  <2>4. x \in S
    BY <2>1, <2>3, PagesAssumption DEF ToSet
  <2>5. Append(l, x) \in Seq(S) /\ Len(Append(l, x)) = n + 1 /\ Append(l, x)[n + 1] = x
        /\ \A k \in 1..n : Append(l, x)[k] = l[k]
    BY <2>1, <2>2, <2>4
  <2>6. \A k \in 1..(n + 1) : k = n + 1 \/ k \in 1..n
    BY <2>2
  <2>7. ListingOK(Append(l, x))
    BY <2>1, <2>2, <2>3, <2>5, <2>6 DEF ListingOK
  <2>. QED BY <1>2, <2>1, <2>7 DEF PagesInv, ServerCreates
<1>3. ASSUME NEW i, ServerCloses(i) PROVE PagesInv'
  BY <1>3 DEF PagesInv, ServerCloses
<1>4. ASSUME NEW f \in Filters, Select(f) PROVE PagesInv'
  <2>1. listing' = listing /\ sel' \in Filters /\ pages' = pages /\ page' = page /\ mixed' = mixed
    BY <1>4 DEF Select
  <2>2. CASE pages[f] # NoEntry
    BY <1>4, <2>1, <2>2 DEF PagesInv, Select
  <2>3. CASE pages[f] = NoEntry
    BY <1>4, <2>1, <2>3 DEF PagesInv, Select
  <2>. QED BY <2>2, <2>3
<1>5. CASE FirstPage
  <2>1. PICK l, a, s, ps : l = Filtered(sel) /\ a = ListRoute(l, NoCursor) /\ s = sel /\ ps = pages
    OBVIOUS
  <2>2. CursorValid(l, NoCursor) /\ ListingOK(listing)
    BY DEF CursorValid, PagesInv
  <2>3. PageOK(a.items, a.cursor, NoCursor)
    BY <2>1, <2>2, RouteOK
  <2>4. ListOK(a.items, a.cursor)
    BY <2>3, PageIsList
  <2>5. /\ shown' = a.items /\ nextCursor' = a.cursor /\ pages' = [ps EXCEPT ![s] = a]
        /\ listing' = listing /\ sel' = s /\ page' = page /\ mixed' = mixed
    BY <1>5, <2>1 DEF FirstPage
  <2>6. s \in Filters /\ ps = [f \in Filters |-> ps[f]]
    BY <2>1 DEF PagesInv
  <2>7. /\ pages' = [f \in Filters |-> pages'[f]] /\ pages'[s] = a
        /\ \A f \in Filters : f # s => pages'[f] = ps[f]
    BY <2>5, <2>6
  <2>. QED BY <2>1, <2>4, <2>5, <2>6, <2>7 DEF PagesInv
<1>6. CASE FirstPageFails
  BY <1>6 DEF PagesInv, FirstPageFails
<1>7. CASE AskNextPage
  BY <1>7 DEF PagesInv, AskNextPage
<1>8. CASE NextPage
  <2>1. PICK l, a, s, ps, c, it : /\ s = page.filter /\ c = page.cursor /\ ps = pages /\ it = shown
                                  /\ l = Filtered(s) /\ a = ListRoute(l, c)
    OBVIOUS
  <2>2. /\ shown' = it \o a.items /\ nextCursor' = a.cursor /\ page' = NoPage
        /\ pages' = [ps EXCEPT ![s] = [items |-> it \o a.items, cursor |-> a.cursor]]
        /\ listing' = listing /\ sel' = sel
        /\ CursorValid(l, c) /\ mixed' = (mixed \/ s # sel \/ c # nextCursor)
    BY <1>8, <2>1 DEF NextPage
  <2>3. c # NoCursor /\ s \in Filters /\ ps = [f \in Filters |-> ps[f]] /\ ListingOK(listing)
    BY <1>8, <2>1 DEF PagesInv, NextPage
  <2>4. PageOK(a.items, a.cursor, c)
    BY <2>1, <2>2, <2>3, RouteOK
  <2>5. PICK j, k, e : j = it \o a.items /\ k = a.cursor /\ e = [items |-> j, cursor |-> k]
    OBVIOUS
  <2>6. e.items = j /\ e.cursor = k
    BY <2>5
  <2>7. /\ pages' = [f \in Filters |-> pages'[f]] /\ pages'[s] = e
        /\ \A f \in Filters : f # s => pages'[f] = ps[f]
    BY <2>2, <2>3, <2>5
  <2>8. ASSUME ~mixed' PROVE ~mixed /\ ListOK(j, k)
    <3>1. ~mixed /\ c = nextCursor
      BY <2>2, <2>8
    <3>2. ListOK(it, c)
      BY <2>1, <3>1 DEF PagesInv
    <3>. QED BY <2>3, <2>4, <2>5, <3>1, <3>2, JoinedOK
  <2>9. ASSUME ~mixed', NEW f \in Filters, pages'[f] # NoEntry PROVE ListOK(pages'[f].items, pages'[f].cursor)
    <3>1. CASE f = s
      BY <2>6, <2>7, <2>8, <2>9, <3>1
    <3>2. CASE f # s
      BY <2>1, <2>7, <2>8, <2>9, <3>2 DEF PagesInv
    <3>. QED BY <3>1, <3>2
  <2>. QED BY <2>1, <2>2, <2>3, <2>5, <2>7, <2>8, <2>9 DEF PagesInv
<1>9. CASE NextPageFails
  BY <1>9 DEF PagesInv, NextPageFails
<1>10. ASSUME NEW f \in Filters, CacheExpires(f) PROVE PagesInv'
  <2>1. PICK ps : ps = pages
    OBVIOUS
  <2>2. ps = [g \in Filters |-> ps[g]] /\ pages' = [ps EXCEPT ![f] = NoEntry]
    BY <1>10, <2>1 DEF PagesInv, CacheExpires
  <2>3. pages' = [g \in Filters |-> pages'[g]] /\ pages'[f] = NoEntry /\ \A g \in Filters : g # f => pages'[g] = ps[g]
    BY <2>2
  <2>. QED BY <1>10, <2>1, <2>3 DEF PagesInv, CacheExpires
<1>. QED BY <1>1, <1>2, <1>3, <1>4, <1>5, <1>6, <1>7, <1>8, <1>9, <1>10 DEF PagesNext

\* Whatever is created or closed while pages are fetched, and from the cache or not, the list of
\* the frontend shows no queue twice, unless a page of another filter was mixed in.
THEOREM PagesNeverRepeat == PagesSpec => []PagesDisjoint
<1>1. ASSUME PagesInv PROVE PagesDisjoint
  <2>1. ASSUME ~mixed, NEW i \in 1..Len(shown), NEW j \in 1..Len(shown), i # j PROVE shown[i] # shown[j]
    <3>1. PICK S, p : shown \in Seq(S) /\ PlacedInOrder(p, shown)
      BY <1>1, <2>1 DEF PagesInv, ListOK
    <3>2. /\ p[i] \in 1..Len(PSlugs) /\ p[j] \in 1..Len(PSlugs) /\ shown[i] = PSlugs[p[i]] /\ shown[j] = PSlugs[p[j]]
          /\ (i < j => p[i] < p[j]) /\ (j < i => p[j] < p[i])
      BY <2>1, <3>1 DEF PlacedInOrder
    <3>3. i < j \/ j < i
      BY <2>1, <3>1
    <3>4. p[i] # p[j]
      BY <3>2, <3>3
    <3>5. DOMAIN PSlugs = 1..Len(PSlugs)
      BY PagesAssumption
    <3>. QED BY <3>2, <3>4, <3>5, PagesAssumption DEF IsInjective
  <2>. QED BY <2>1 DEF PagesDisjoint
<1>. QED BY <1>1, PagesInitInv, PagesStep, PTL DEF PagesSpec

=============================================================================
