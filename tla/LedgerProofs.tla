---------------------------- MODULE LedgerProofs ----------------------------
(***************************************************************************)
(* Proofs about the ledger access of the host, for every ledger, footprint, *)
(* set of contracts, keys and values and every number of calls.             *)
(*                                                                         *)
(* The enforcing host is a function of the recording one and of the         *)
(* declared footprint (Replay) for as long as that covers what was          *)
(* recorded: every host function, applied to both, gives the same outcome   *)
(* or is refused, and it is refused exactly when what it recorded is not    *)
(* covered any more (Sim).  Chain composes this along `?`.                  *)
(***************************************************************************)
EXTENDS HostLedger, HostRent, DataLemmas

Host(md, fp, map, fr, ev) == [mode |-> md, fp |-> fp, map |-> map, frames |-> fr, events |-> ev]

-----------------------------------------------------------------------------
(* Footprints and maps                                                     *)

FpOK(fp) == fp \in [DOMAIN fp -> {"RO", "RW"}] /\ DOMAIN fp \subseteq LedgerKeys
MapOK(m) == m = [k \in DOMAIN m |-> m[k]] /\ \A k \in DOMAIN m : k \in LedgerKeys /\ IsEntry(k, m[k])
Present(m, c) == InstKey(c) \in DOMAIN m /\ m[InstKey(c)] # None

\* What an access records is what an enforcing host needs: a footprint covers the recorded one after
\* the access exactly when it covered it before and allows the access.
LEMMA RecordCovers ==
    ASSUME NEW fp, FpOK(fp), NEW k \in LedgerKeys, NEW ty \in {"RO", "RW"}, NEW g, g = RecordAccess(fp, k, ty)
    PROVE  /\ FpOK(g) /\ DOMAIN g = DOMAIN fp \cup {k} /\ Covers(g, fp) /\ EnforceAccess(g, k, ty)
           /\ \A D : Covers(D, g) <=> Covers(D, fp) /\ EnforceAccess(D, k, ty)
<1>1. CASE k \in DOMAIN fp /\ (fp[k] = "RW" \/ ty = "RO")
  <2>1. g = fp
    BY <1>1 DEF RecordAccess
  <2>. QED BY <1>1, <2>1 DEF Covers, EnforceAccess, FpOK
<1>2. CASE ~(k \in DOMAIN fp /\ (fp[k] = "RW" \/ ty = "RO"))
  <2>1. g = SetAt(fp, k, ty)
    BY <1>2 DEF RecordAccess
  <2>2. DOMAIN g = DOMAIN fp \cup {k} /\ g[k] = ty /\ \A j \in DOMAIN fp : j # k => g[j] = fp[j]
    BY <2>1 DEF SetAt
  <2>3. FpOK(g)
    <3>1. g = [j \in DOMAIN g |-> g[j]]
      BY <2>1 DEF SetAt
    <3>2. \A j \in DOMAIN g : g[j] \in {"RO", "RW"}
      BY <2>2 DEF FpOK
    <3>. QED BY <2>2, <3>1, <3>2 DEF FpOK
  <2>4. k \in DOMAIN fp => fp[k] = "RO" /\ ty = "RW"
    BY <1>2 DEF FpOK
  <2>5. Covers(g, fp) /\ EnforceAccess(g, k, ty)
    BY <2>2, <2>4 DEF Covers, EnforceAccess, FpOK
  <2>6. ASSUME NEW D PROVE Covers(D, g) <=> Covers(D, fp) /\ EnforceAccess(D, k, ty)
    BY <2>2, <2>4 DEF Covers, EnforceAccess
  <2>. QED BY <2>2, <2>3, <2>5, <2>6
<1>. QED BY <1>1, <1>2

\* Covering is transitive and reflexive.
LEMMA CoversTransitive ==
    ASSUME NEW D, NEW fp, FpOK(fp), NEW g, FpOK(g), Covers(D, g), Covers(g, fp)
    PROVE  Covers(D, fp)
BY DEF Covers, EnforceAccess, FpOK
\* A footprint covers itself.
LEMMA CoversItself == ASSUME NEW fp, FpOK(fp) PROVE Covers(fp, fp)
BY DEF Covers, EnforceAccess, FpOK

\* A key of a map is set.
IsSet(m, k, opt, n) == DOMAIN n = DOMAIN m \cup {k} /\ n[k] = opt /\ \A j \in DOMAIN m : j # k => n[j] = m[j]
\* The map stays one of ledger entries, and contracts that had their instance keep it.
LEMMA SetAtOK ==
    ASSUME NEW m, MapOK(m), NEW k \in LedgerKeys, NEW opt, IsEntry(k, opt), NEW n, n = SetAt(m, k, opt)
    PROVE  /\ MapOK(n) /\ IsSet(m, k, opt, n)
           /\ \A c : (k = InstKey(c) => opt # None) /\ Present(m, c) => Present(n, c)
<1>1. DOMAIN n = DOMAIN m \cup {k} /\ n[k] = opt /\ \A j \in DOMAIN m : j # k => n[j] = m[j]
  BY DEF SetAt
<1>2. n = [j \in DOMAIN n |-> n[j]]
  BY DEF SetAt
<1>3. MapOK(n)
  BY <1>1, <1>2 DEF MapOK
<1>4. ASSUME NEW c, k = InstKey(c) => opt # None, Present(m, c) PROVE Present(n, c)
  BY <1>1, <1>4 DEF Present
<1>. QED BY <1>1, <1>3, <1>4 DEF IsSet

-----------------------------------------------------------------------------
(* The two hosts                                                           *)

FrameOK(f) ==
    /\ f = [c |-> f.c, inst |-> f.inst, cache |-> f.cache, dirty |-> f.dirty, map |-> f.map, events |-> f.events]
    /\ f.c \in LContracts /\ MapOK(f.map)
\* Every contract with an open frame has its instance, in the map and in those to return to.
FramesOK(fr, fp, m) ==
    /\ \E S : fr \in Seq(S)
    /\ \A i \in 1..Len(fr) : /\ FrameOK(fr[i]) /\ DOMAIN fr[i].map \subseteq DOMAIN fp /\ Present(m, fr[i].c)
                             /\ \A j \in 1..Len(fr) : j <= i => Present(fr[i].map, fr[j].c)
RecOK(h) ==
    /\ h = Host("recording", h.fp, h.map, h.frames, h.events)
    /\ FpOK(h.fp) /\ MapOK(h.map) /\ DOMAIN h.map \subseteq DOMAIN h.fp /\ FramesOK(h.frames, h.fp, h.map)

\* The enforcing host with footprint D that made the same calls: it holds an entry for every key of D.
Full(D, m) == [k \in DOMAIN D |-> IF k \in DOMAIN m THEN m[k] ELSE Snapshot[k]]
FullFrame(D, f) ==
    [c |-> f.c, inst |-> f.inst, cache |-> f.cache, dirty |-> f.dirty, map |-> Full(D, f.map), events |-> f.events]
FullFrames(D, fr) == [i \in 1..Len(fr) |-> FullFrame(D, fr[i])]
Replay(D, h) == Host("enforcing", D, Full(D, h.map), FullFrames(D, h.frames), h.events)

\* A host function that gave R on the recording host h: it lost nothing, and ended no transaction.  The
\* enforcing host gives the same or refuses an access.
RecStep(h, R) ==
    /\ RecOK(R.h) /\ R.out \in {"ok", "fail"} /\ R = [h |-> R.h, out |-> R.out]
    /\ Covers(R.h.fp, h.fp)
    /\ \A c \in LContracts : Present(h.map, c) => Present(R.h.map, c)
Follows(D, R, E) ==
    IF Covers(D, R.h.fp) THEN E = [h |-> Replay(D, R.h), out |-> R.out] ELSE E = [h |-> E.h, out |-> "abort"]
Sim(D, h, R, E) == RecStep(h, R) /\ (Covers(D, h.fp) => Follows(D, R, E))

\* Simulation goes along Then().
LEMMA Chain ==
    ASSUME NEW D, FpOK(D), NEW h, RecOK(h), NEW R, NEW E, Sim(D, h, R, E), NEW R2, NEW E2, NEW Y,
           R.out # "ok" => R2 = R,
           R.out = "ok" => Sim(D, R.h, R2, Y),
           E.out # "ok" => E2 = E,
           E.out = "ok" /\ E.h = Replay(D, R.h) /\ Covers(D, R.h.fp) => E2 = Y
    PROVE  Sim(D, h, R2, E2)
<1>1. RecOK(R.h) /\ RecStep(h, R) /\ FpOK(R.h.fp) /\ FpOK(h.fp)
  BY DEF Sim, RecStep, RecOK
<1>2. CASE R.out # "ok"
  <2>1. R2 = R
    BY <1>2
  <2>2. ASSUME Covers(D, h.fp) PROVE Follows(D, R2, E2)
    <3>1. Follows(D, R, E)
      BY <2>2 DEF Sim
    <3>2. E.out # "ok"
      BY <1>2, <3>1 DEF Follows
    <3>. QED BY <2>1, <3>1, <3>2
  <2>. QED BY <1>1, <2>1, <2>2 DEF Sim
<1>3. CASE R.out = "ok"
  <2>1. RecStep(R.h, R2) /\ (Covers(D, R.h.fp) => Follows(D, R2, Y))
    BY <1>3 DEF Sim
  <2>2. FpOK(R2.h.fp) /\ Covers(R2.h.fp, R.h.fp)
    BY <2>1 DEF RecStep, RecOK
  <2>3. RecStep(h, R2)
    <3>1. Covers(R2.h.fp, h.fp)
      BY <1>1, <2>2, CoversTransitive DEF RecStep
    <3>. QED BY <1>1, <2>1, <3>1 DEF RecStep
  <2>4. ASSUME Covers(D, h.fp) PROVE Follows(D, R2, E2)
    <3>1. Follows(D, R, E)
      BY <2>4 DEF Sim
    <3>2. CASE Covers(D, R.h.fp)
      <4>1. E.out = "ok" /\ E.h = Replay(D, R.h)
        BY <1>3, <3>1, <3>2 DEF Follows
      <4>. QED BY <2>1, <3>2, <4>1
    <3>3. CASE ~Covers(D, R.h.fp)
      <4>1. E.out = "abort"
        BY <3>1, <3>3 DEF Follows
      <4>2. ~Covers(D, R2.h.fp)
        BY <1>1, <2>2, <3>3, CoversTransitive
      <4>3. E2 = E
        BY <4>1
      <4>4. E2 = [h |-> E2.h, out |-> "abort"]
        BY <3>1, <3>3, <4>3 DEF Follows
      <4>. QED BY <4>2, <4>4 DEF Follows
    <3>. QED BY <3>2, <3>3
  <2>. QED BY <2>3, <2>4 DEF Sim
<1>. QED BY <1>2, <1>3

\* The outcomes that change nothing.
LEMMA OkFail ==
    ASSUME NEW D, FpOK(D), NEW h, RecOK(h)
    PROVE  Sim(D, h, Ok(h), Ok(Replay(D, h))) /\ Sim(D, h, Fail(h), Fail(Replay(D, h)))
<1>1. Covers(h.fp, h.fp)
  BY CoversItself DEF RecOK
<1>2. Ok(h).h = h /\ Ok(h).out = "ok" /\ Fail(h).h = h /\ Fail(h).out = "fail"
  BY DEF Ok, Fail
<1>. QED BY <1>1, <1>2 DEF Sim, RecStep, Follows, Ok, Fail

\* Fields of hosts.
LEMMA HostFields ==
    ASSUME NEW md, NEW fp, NEW m, NEW fr, NEW ev, NEW h, h = Host(md, fp, m, fr, ev)
    PROVE  /\ h.mode = md /\ h.fp = fp /\ h.map = m /\ h.frames = fr /\ h.events = ev
           /\ \A x : [h EXCEPT !.fp = x] = Host(md, x, m, fr, ev)
           /\ \A x : [h EXCEPT !.map = x] = Host(md, fp, x, fr, ev)
           /\ \A x : [h EXCEPT !.frames = x] = Host(md, fp, m, x, ev)
           /\ \A x : [h EXCEPT !.events = x] = Host(md, fp, m, fr, x)
BY DEF Host

\* A recording host with more in its footprint and in its map.
LEMMA RecWith ==
    ASSUME NEW h, RecOK(h), NEW fp, FpOK(fp), Covers(fp, h.fp), NEW m, MapOK(m), DOMAIN m \subseteq DOMAIN fp,
           \A c \in LContracts : Present(h.map, c) => Present(m, c), NEW g, g = Host("recording", fp, m, h.frames, h.events)
    PROVE  RecOK(g) /\ g.fp = fp /\ g.map = m /\ g.frames = h.frames /\ g.events = h.events
<1>1. g.mode = "recording" /\ g.fp = fp /\ g.map = m /\ g.frames = h.frames /\ g.events = h.events
  BY HostFields
<1>2. DOMAIN h.fp \subseteq DOMAIN fp
  BY DEF Covers, EnforceAccess
<1>3. FramesOK(h.frames, fp, m)
  <2>1. FramesOK(h.frames, h.fp, h.map)
    BY DEF RecOK
  <2>. QED BY <1>2, <2>1 DEF FramesOK, FrameOK
<1>. QED BY <1>1, <1>3 DEF RecOK

-----------------------------------------------------------------------------
(* Storage                                                                 *)

\* The enforcing host's fields, and what it holds under a key it may read.
LEMMA ReplayFields ==
    ASSUME NEW D, FpOK(D), NEW h, RecOK(h), NEW e, e = Replay(D, h)
    PROVE  /\ e.mode = "enforcing" /\ e.fp = D /\ e.map = Full(D, h.map) /\ e.events = h.events
           /\ e.frames = FullFrames(D, h.frames)
           /\ h.mode = "recording"
           /\ Covers(D, h.fp) => \A k \in DOMAIN h.map : k \in DOMAIN D /\ e.map[k] = h.map[k]
<1>1. e.mode = "enforcing" /\ e.fp = D /\ e.map = Full(D, h.map) /\ e.events = h.events /\ e.frames = FullFrames(D, h.frames)
  BY DEF Replay, Host
<1>2. h.mode = "recording"
  BY HostFields DEF RecOK
<1>3. ASSUME Covers(D, h.fp), NEW k \in DOMAIN h.map PROVE k \in DOMAIN D /\ e.map[k] = h.map[k]
  <2>1. k \in DOMAIN D
    BY <1>3 DEF RecOK, Covers, EnforceAccess
  <2>. QED BY <1>1, <2>1 DEF Full
<1>. QED BY <1>1, <1>2, <1>3

\* Reading a key caches what the ledger has for it.
LEMMA HasSim ==
    ASSUME NEW D, FpOK(D), NEW h, RecOK(h), NEW k \in LedgerKeys, NEW R, R = Has(h, k)
    PROVE  /\ Sim(D, h, R, Has(Replay(D, h), k))
           /\ R.out = "ok" /\ k \in DOMAIN R.h.map /\ R.h.frames = h.frames /\ R.h.events = h.events
           /\ R.h.map[k] = (IF k \in DOMAIN h.map THEN h.map[k] ELSE Snapshot[k])
           /\ \A j : j # k => ((j \in DOMAIN R.h.map <=> j \in DOMAIN h.map) /\ (j \in DOMAIN h.map => R.h.map[j] = h.map[j]))
<1>1. PICK fp, m, fr, ev : fp = h.fp /\ m = h.map /\ fr = h.frames /\ ev = h.events
  OBVIOUS
<1>2. h = Host("recording", fp, m, fr, ev) /\ FpOK(fp) /\ MapOK(m) /\ DOMAIN m \subseteq DOMAIN fp
  BY <1>1 DEF RecOK
<1>3. PICK g : g = RecordAccess(fp, k, "RO")
  OBVIOUS
<1>4. FpOK(g) /\ DOMAIN g = DOMAIN fp \cup {k} /\ Covers(g, fp)
  BY <1>2, <1>3, RecordCovers
<1>5. Covers(D, g) <=> Covers(D, fp) /\ EnforceAccess(D, k, "RO")
  BY <1>2, <1>3, RecordCovers
<1>6. PICK n : n = IF k \in DOMAIN m THEN m ELSE SetAt(m, k, Snapshot[k])
  OBVIOUS
<1>7. /\ MapOK(n) /\ DOMAIN n = DOMAIN m \cup {k} /\ n[k] = (IF k \in DOMAIN m THEN m[k] ELSE Snapshot[k])
      /\ \A j \in DOMAIN m : n[j] = m[j]
      /\ \A c : Present(m, c) => Present(n, c)
  <2>1. CASE k \in DOMAIN m
    BY <1>2, <1>6, <2>1
  <2>2. CASE k \notin DOMAIN m
    <3>1. PICK o : o = Snapshot[k]
      OBVIOUS
    <3>4. n = SetAt(m, k, o) /\ IsEntry(k, o)
      BY <1>6, <2>2, <3>1, LedgerAssumption
    <3>2. MapOK(n) /\ IsSet(m, k, o, n)
      BY <1>2, <3>4, SetAtOK
    <3>3. ASSUME NEW c, Present(m, c) PROVE Present(n, c)
      <4>1. InstKey(c) \in DOMAIN m /\ InstKey(c) # k
        BY <2>2, <3>3 DEF Present
      <4>. QED BY <3>2, <3>3, <4>1 DEF Present, IsSet
    <3>. QED BY <2>2, <3>1, <3>2, <3>3 DEF IsSet
  <2>. QED BY <2>1, <2>2
<1>8. PICK x : x = Host("recording", g, n, fr, ev)
  OBVIOUS
<1>9. Touch(h, k, "RO") = Host("recording", g, m, fr, ev)
  BY <1>2, <1>3, HostFields DEF Touch
<1>10. ~Denied(h, k, "RO") /\ h.mode = "recording"
  BY <1>2, HostFields DEF Denied
<1>11. PrepareRead(h, k) = x
  <2>1. PICK y : y = Touch(h, k, "RO")
    OBVIOUS
  <2>2. [y EXCEPT !.map = SetAt(@, k, Snapshot[k])] = [y EXCEPT !.map = SetAt(m, k, Snapshot[k])]
    BY <1>9, <2>1, HostFields
  <2>3. [y EXCEPT !.map = SetAt(m, k, Snapshot[k])] = Host("recording", g, SetAt(m, k, Snapshot[k]), fr, ev)
    BY <1>9, <2>1, HostFields
  <2>. QED BY <1>1, <1>6, <1>8, <1>9, <1>10, <2>1, <2>2, <2>3 DEF PrepareRead
<1>12. R = [h |-> x, out |-> "ok"]
  BY <1>10, <1>11 DEF Has, Ok
<1>13. RecOK(x) /\ x.fp = g /\ x.map = n /\ x.frames = fr /\ x.events = ev
  BY <1>1, <1>4, <1>7, <1>8, <1>2, RecWith
<1>14. RecStep(h, R)
  BY <1>1, <1>4, <1>7, <1>12, <1>13 DEF RecStep
<1>15. ASSUME Covers(D, h.fp) PROVE Follows(D, R, Has(Replay(D, h), k))
  <2>1. PICK e : e = Replay(D, h)
    OBVIOUS
  <2>2. e.mode = "enforcing" /\ e.fp = D
    BY <2>1, ReplayFields
  <2>3. Denied(e, k, "RO") <=> ~EnforceAccess(D, k, "RO")
    BY <2>2 DEF Denied
  <2>4. PrepareRead(e, k) = e
    BY <2>2 DEF PrepareRead, Touch
  <2>5. Full(D, n) = Full(D, m)
    BY <1>6, <1>7 DEF Full
  <2>6. Replay(D, x) = e
    BY <1>1, <1>13, <2>1, <2>5 DEF Replay
  <2>. QED BY <1>1, <1>5, <1>12, <1>13, <1>15, <2>1, <2>3, <2>4, <2>6 DEF Follows, Has, Ok, Abort
<1>. QED BY <1>1, <1>7, <1>12, <1>13, <1>14, <1>15 DEF Sim

\* Reading an entry that must be there.
LEMMA GetSim ==
    ASSUME NEW D, FpOK(D), NEW h, RecOK(h), NEW k \in LedgerKeys, NEW R, R = GetEntry(h, k)
    PROVE  /\ Sim(D, h, R, GetEntry(Replay(D, h), k)) /\ R.h.frames = h.frames /\ R.h.events = h.events
           /\ R.out = "ok" => k \in DOMAIN R.h.map /\ R.h.map[k] # None
<1>1. PICK P, E : P = Has(h, k) /\ E = Has(Replay(D, h), k)
  OBVIOUS
<1>2. Sim(D, h, P, E) /\ P.out = "ok" /\ k \in DOMAIN P.h.map /\ P.h.frames = h.frames /\ P.h.events = h.events
  BY <1>1, HasSim
<1>3. R = IF P.h.map[k] = None THEN Fail(P.h) ELSE Ok(P.h)
  BY <1>1, <1>2 DEF GetEntry, Then
<1>4. PICK Y : Y = IF P.h.map[k] = None THEN Fail(Replay(D, P.h)) ELSE Ok(Replay(D, P.h))
  OBVIOUS
<1>5. RecOK(P.h)
  BY <1>2 DEF Sim, RecStep
<1>6. Sim(D, P.h, R, Y)
  BY <1>3, <1>4, <1>5, OkFail
<1>7. PICK E2 : E2 = GetEntry(Replay(D, h), k)
  OBVIOUS
<1>8. E.out # "ok" => E2 = E
  BY <1>1, <1>7 DEF GetEntry, Then
<1>9. ASSUME Covers(D, P.h.fp), E.out = "ok", E.h = Replay(D, P.h) PROVE E2 = Y
  <2>1. E.h.map[k] = P.h.map[k]
    BY <1>2, <1>5, <1>9, ReplayFields
  <2>2. E2 = IF E.h.map[k] = None THEN Fail(E.h) ELSE Ok(E.h)
    BY <1>1, <1>7, <1>9 DEF GetEntry, Then
  <2>. QED BY <1>4, <1>9, <2>1, <2>2
<1>10. R.h.frames = h.frames /\ R.h.events = h.events /\ (R.out = "ok" => k \in DOMAIN R.h.map /\ R.h.map[k] # None)
  BY <1>2, <1>3 DEF Ok, Fail
<1>11. Sim(D, h, R, E2)
  BY <1>2, <1>6, <1>8, <1>9, Chain
<1>. QED BY <1>7, <1>10, <1>11

\* Writing an entry.  An instance is never removed.
LEMMA PutSim ==
    ASSUME NEW D, FpOK(D), NEW h, RecOK(h), NEW k \in LedgerKeys, NEW opt, IsEntry(k, opt),
           k[1] = "instance" => opt # None, NEW R, R = PutOpt(h, k, opt)
    PROVE  /\ Sim(D, h, R, PutOpt(Replay(D, h), k, opt)) /\ R.out = "ok"
           /\ R.h.frames = h.frames /\ R.h.events = h.events /\ R.h.map = SetAt(h.map, k, opt)
<1>1. PICK fp, m, fr, ev : fp = h.fp /\ m = h.map /\ fr = h.frames /\ ev = h.events
  OBVIOUS
<1>2. h = Host("recording", fp, m, fr, ev) /\ FpOK(fp) /\ MapOK(m) /\ DOMAIN m \subseteq DOMAIN fp
  BY <1>1 DEF RecOK
<1>3. PICK g : g = RecordAccess(fp, k, "RW")
  OBVIOUS
<1>4. FpOK(g) /\ DOMAIN g = DOMAIN fp \cup {k} /\ Covers(g, fp)
  BY <1>2, <1>3, RecordCovers
<1>5. Covers(D, g) <=> Covers(D, fp) /\ EnforceAccess(D, k, "RW")
  BY <1>2, <1>3, RecordCovers
<1>6. PICK n : n = SetAt(m, k, opt)
  OBVIOUS
<1>17. MapOK(n) /\ IsSet(m, k, opt, n)
  BY <1>2, <1>6, SetAtOK
<1>7. MapOK(n) /\ DOMAIN n = DOMAIN m \cup {k} /\ n[k] = opt /\ \A j \in DOMAIN m : j # k => n[j] = m[j]
  BY <1>17 DEF IsSet
<1>8. ASSUME NEW c, Present(m, c) PROVE Present(n, c)
  <2>1. k = InstKey(c) => opt # None
    BY DEF InstKey
  <2>. QED BY <1>2, <1>6, <1>8, <2>1, SetAtOK
<1>9. PICK x : x = Host("recording", g, n, fr, ev)
  OBVIOUS
<1>10. Touch(h, k, "RW") = Host("recording", g, m, fr, ev) /\ ~Denied(h, k, "RW")
  BY <1>2, <1>3, HostFields DEF Touch, Denied
<1>11. [Touch(h, k, "RW") EXCEPT !.map = SetAt(@, k, opt)] = x
  <2>1. PICK y : y = Touch(h, k, "RW")
    OBVIOUS
  <2>2. [y EXCEPT !.map = SetAt(@, k, opt)] = [y EXCEPT !.map = n]
    BY <1>6, <1>10, <2>1, HostFields
  <2>3. [y EXCEPT !.map = n] = x
    BY <1>9, <1>10, <2>1, HostFields
  <2>. QED BY <2>1, <2>2, <2>3
<1>12. R = [h |-> x, out |-> "ok"]
  BY <1>10, <1>11 DEF PutOpt, Ok
<1>13. RecOK(x) /\ x.fp = g /\ x.map = n /\ x.frames = fr /\ x.events = ev
  BY <1>1, <1>4, <1>7, <1>8, <1>9, <1>2, RecWith
<1>14. RecStep(h, R)
  BY <1>1, <1>4, <1>8, <1>12, <1>13 DEF RecStep
<1>15. ASSUME Covers(D, h.fp) PROVE Follows(D, R, PutOpt(Replay(D, h), k, opt))
  <2>1. PICK e : e = Replay(D, h)
    OBVIOUS
  <2>2. e.mode = "enforcing" /\ e.fp = D
    BY <2>1, ReplayFields
  <2>3. Denied(e, k, "RW") <=> ~EnforceAccess(D, k, "RW")
    BY <2>2 DEF Denied
  <2>4. Touch(e, k, "RW") = e
    BY <2>2 DEF Touch
  <2>5. ASSUME EnforceAccess(D, k, "RW") PROVE [e EXCEPT !.map = SetAt(@, k, opt)] = Replay(D, x)
    <3>1. k \in DOMAIN D
      BY <2>5 DEF EnforceAccess
    <3>2. SetAt(Full(D, m), k, opt) = Full(D, n)
      BY <1>7, <3>1 DEF SetAt, Full
    <3>3. e = Host("enforcing", D, Full(D, m), FullFrames(D, fr), ev)
      BY <1>1, <2>1 DEF Replay
    <3>4. [e EXCEPT !.map = SetAt(@, k, opt)] = [e EXCEPT !.map = Full(D, n)]
      BY <3>2, <3>3, HostFields
    <3>5. [e EXCEPT !.map = Full(D, n)] = Host("enforcing", D, Full(D, n), FullFrames(D, fr), ev)
      BY <3>3, HostFields
    <3>. QED BY <1>13, <3>4, <3>5 DEF Replay
  <2>6. PICK z : z = PutOpt(e, k, opt)
    OBVIOUS
  <2>7. EnforceAccess(D, k, "RW") => z = [h |-> Replay(D, x), out |-> "ok"]
    BY <2>3, <2>4, <2>5, <2>6 DEF PutOpt, Ok
  <2>8. ~EnforceAccess(D, k, "RW") => z = [h |-> z.h, out |-> "abort"]
    BY <2>3, <2>6 DEF PutOpt, Abort
  <2>9. Covers(D, g) <=> EnforceAccess(D, k, "RW")
    BY <1>1, <1>5, <1>15
  <2>10. R.h = x /\ R.out = "ok" /\ x.fp = g
    BY <1>12, <1>13
  <2>. QED BY <2>1, <2>6, <2>7, <2>8, <2>9, <2>10 DEF Follows
<1>. QED BY <1>1, <1>6, <1>12, <1>13, <1>14, <1>15 DEF Sim

\* An entry that is there, its value and its life.
EntryOf(k, o, v, l) ==
    /\ o = <<[val |-> v, live |-> l]>> /\ o # None /\ o[1].val = v /\ o[1].live = l /\ l \in Int /\ l >= Seq0
    /\ k[1] = "instance" => v = <<v[1], v[2]>> /\ CodeKey(v[1]) \in LedgerKeys
\* An entry that is there has a value and a life that is not over.
LEMMA EntryForm == ASSUME NEW k, NEW o, IsEntry(k, o), o # None PROVE \E v, l : EntryOf(k, o, v, l)
<1>1. PICK v, l : v = o[1].val /\ l = o[1].live
  OBVIOUS
<1>. QED BY <1>1 DEF IsEntry, EntryOf
\* A value with such a life is an entry.
LEMMA EntryMade ==
    ASSUME NEW k, NEW v, NEW l \in Int, l >= Seq0, NEW o, o = <<[val |-> v, live |-> l]>>,
           k[1] = "instance" => v = <<v[1], v[2]>> /\ CodeKey(v[1]) \in LedgerKeys
    PROVE  IsEntry(k, o) /\ EntryOf(k, o, v, l)
<1>1. o[1].val = v /\ o[1].live = l /\ o # <<>>
  OBVIOUS
<1>. QED BY <1>1 DEF IsEntry, EntryOf, None

\* Entries of the map of a recording host.
LEMMA MapEntry ==
    ASSUME NEW h, RecOK(h), NEW k, k \in DOMAIN h.map, h.map[k] # None
    PROVE  k \in LedgerKeys /\ \E v, l : EntryOf(k, h.map[k], v, l)
<1>1. PICK o : o = h.map[k]
  OBVIOUS
<1>2. IsEntry(k, o) /\ k \in LedgerKeys /\ o # None
  BY <1>1 DEF RecOK, MapOK
<1>. QED BY <1>1, <1>2, EntryForm

\* Its life is extended.
LEMMA LiveSet ==
    ASSUME NEW md, NEW fp, NEW m, m = [j \in DOMAIN m |-> m[j]], NEW fr, NEW ev, NEW k \in DOMAIN m,
           NEW v, NEW l, m[k] = <<[val |-> v, live |-> l]>>, NEW n,
           NEW h, h = Host(md, fp, m, fr, ev)
    PROVE  [h EXCEPT !.map[k][1].live = n] = Host(md, fp, SetAt(m, k, <<[val |-> v, live |-> n]>>), fr, ev)
<1>1. h.map = m
  BY HostFields
<1>2. [h EXCEPT !.map[k][1].live = n] = [h EXCEPT !.map = [m EXCEPT ![k] = [m[k] EXCEPT ![1] = [m[k][1] EXCEPT !.live = n]]]]
  BY <1>1
<1>3. [m[k] EXCEPT ![1] = [m[k][1] EXCEPT !.live = n]] = <<[val |-> v, live |-> n]>>
  OBVIOUS
<1>4. [m EXCEPT ![k] = <<[val |-> v, live |-> n]>>] = SetAt(m, k, <<[val |-> v, live |-> n]>>)
  BY DEF SetAt
<1>. QED BY <1>2, <1>3, <1>4, HostFields

\* The same on both hosts.
Live(h, k, n) == [h EXCEPT !.map[k][1].live = n]
\* extend_ttl() of an entry that was read assigns its life on both hosts alike.
LEMMA LiveSim ==
    ASSUME NEW D, FpOK(D), NEW h, RecOK(h), NEW k, k \in DOMAIN h.map, h.map[k] # None, NEW n \in Int, n >= Seq0, NEW R, R = Ok(Live(h, k, n)),
           NEW E, Covers(D, h.fp) => E = Ok(Live(Replay(D, h), k, n))
    PROVE  /\ Sim(D, h, R, E)
           /\ R.out = "ok" /\ R.h.frames = h.frames /\ R.h.events = h.events
<1>17. k \in LedgerKeys /\ \E v, l : EntryOf(k, h.map[k], v, l)
  BY MapEntry
<1>4. PICK v, l : EntryOf(k, h.map[k], v, l)
  BY <1>17
<1>18. PICK o : o = <<[val |-> v, live |-> n]>>
  OBVIOUS
<1>1. PICK fp, m, fr, ev : fp = h.fp /\ m = h.map /\ fr = h.frames /\ ev = h.events
  OBVIOUS
<1>2. h = Host("recording", fp, m, fr, ev) /\ FpOK(fp) /\ MapOK(m) /\ DOMAIN m \subseteq DOMAIN fp /\ k \in DOMAIN m
  BY <1>1 DEF RecOK
<1>3. m[k] = <<[val |-> v, live |-> l]>>
  BY <1>1, <1>4 DEF EntryOf
<1>5. IsEntry(k, o) /\ o # None
  BY <1>4, <1>18, EntryMade DEF EntryOf
<1>6. PICK y : y = SetAt(m, k, o)
  OBVIOUS
<1>16. PICK x : x = Host("recording", fp, y, fr, ev)
  OBVIOUS
<1>7. m = [j \in DOMAIN m |-> m[j]]
  BY <1>2 DEF MapOK
<1>8. Live(h, k, n) = x
  BY <1>2, <1>3, <1>6, <1>16, <1>7, <1>18, LiveSet DEF Live
<1>9. MapOK(y) /\ IsSet(m, k, o, y) /\ \A c : Present(m, c) => Present(y, c)
  BY <1>2, <1>5, <1>6, <1>17, SetAtOK
<1>10. DOMAIN y \subseteq DOMAIN fp /\ Covers(fp, h.fp)
  BY <1>1, <1>2, <1>9, CoversItself DEF IsSet
<1>11. RecOK(x) /\ x.fp = fp /\ x.map = y /\ x.frames = fr /\ x.events = ev
  <2>1. x = Host("recording", fp, y, h.frames, h.events) /\ \A c \in LContracts : Present(h.map, c) => Present(y, c)
    BY <1>1, <1>9, <1>16
  <2>2. RecOK(h) /\ FpOK(fp) /\ MapOK(y) /\ DOMAIN y \subseteq DOMAIN fp /\ Covers(fp, h.fp)
    BY <1>2, <1>9, <1>10
  <2>3. RecOK(x) /\ x.fp = fp /\ x.map = y /\ x.frames = h.frames /\ x.events = h.events
    BY ONLY <2>1, <2>2, RecWith
  <2>. QED BY <1>1, <2>3
<1>12. R = [h |-> x, out |-> "ok"] /\ R.h = x /\ R.out = "ok"
  BY <1>8 DEF Ok
<1>13. RecStep(h, R)
  BY <1>1, <1>9, <1>10, <1>11, <1>12 DEF RecStep
<1>14. ASSUME Covers(D, h.fp) PROVE E = [h |-> Replay(D, x), out |-> "ok"]
  <2>1. PICK w : w = Full(D, m)
    OBVIOUS
  <2>2. w = [j \in DOMAIN w |-> w[j]] /\ k \in DOMAIN w /\ w[k] = m[k]
    <3>1. k \in DOMAIN D
      BY <1>1, <1>2, <1>14 DEF Covers, EnforceAccess
    <3>. QED BY <1>2, <2>1, <3>1 DEF Full
  <2>3. Replay(D, h) = Host("enforcing", D, w, FullFrames(D, fr), ev)
    BY <1>1, <2>1 DEF Replay
  <2>4. w[k] = <<[val |-> v, live |-> l]>>
    BY <1>3, <2>2
  <2>5. Live(Replay(D, h), k, n) = Host("enforcing", D, SetAt(w, k, o), FullFrames(D, fr), ev)
    BY <1>18, <2>2, <2>3, <2>4, LiveSet DEF Live
  <2>6. SetAt(w, k, o) = Full(D, y)
    BY <1>2, <1>6, <2>1, <2>2 DEF SetAt, Full
  <2>. QED BY <1>11, <1>14, <2>5, <2>6 DEF Replay, Ok
<1>15. Covers(D, h.fp) => Follows(D, R, E)
  BY <1>1, <1>11, <1>12, <1>14 DEF Follows
<1>19. Sim(D, h, R, E)
  BY <1>13, <1>15 DEF Sim
<1>. QED BY <1>1, <1>11, <1>12, <1>19

-----------------------------------------------------------------------------
(* The operations on storage                                               *)

\* extend_ttl() does the same on both hosts.
LEMMA ExtendTtlSim ==
    ASSUME NEW D, FpOK(D), NEW h, RecOK(h), NEW k \in LedgerKeys, NEW th \in Nat, NEW ext \in Nat,
           NEW R, R = ExtendTtl(h, k, th, ext)
    PROVE  Sim(D, h, R, ExtendTtl(Replay(D, h), k, th, ext)) /\ R.h.frames = h.frames /\ R.h.events = h.events
<1>1. PICK n, late : /\ n = (IF Seq0 + ext > MaxLiveUntil THEN MaxLiveUntil ELSE Seq0 + ext)
                     /\ late = (Seq0 + ext > MaxLiveUntil /\ IsTemporary(k))
  OBVIOUS
<1>2. n \in Int
  BY <1>1, LedgerAssumption DEF MaxLiveUntil
<1>3. PICK E2 : E2 = ExtendTtl(Replay(D, h), k, th, ext)
  OBVIOUS
<1>4. CASE th > ext
  <2>1. R = Fail(h) /\ E2 = Fail(Replay(D, h)) /\ R.h = h
    BY <1>3, <1>4 DEF ExtendTtl, Fail
  <2>. QED BY <1>3, <2>1, OkFail
<1>5. CASE ~(th > ext)
  <2>1. PICK P, E : P = GetEntry(h, k) /\ E = GetEntry(Replay(D, h), k)
    OBVIOUS
  <2>2. Sim(D, h, P, E) /\ P.h.frames = h.frames /\ P.h.events = h.events /\ (P.out = "ok" => k \in DOMAIN P.h.map /\ P.h.map[k] # None)
    BY <2>1, GetSim
  <2>3. RecOK(P.h)
    BY <2>2 DEF Sim, RecStep
  <2>4. CASE P.out # "ok"
    <3>1. R = P
      BY <1>5, <2>1, <2>4 DEF ExtendTtl, Then
    <3>2. E.out # "ok" => E2 = E
      BY <1>3, <1>5, <2>1 DEF ExtendTtl, Then
    <3>3. Sim(D, h, R, E2)
      BY <2>2, <2>3, <2>4, <3>1, <3>2, Chain
    <3>. QED BY <1>3, <2>2, <3>1, <3>3
  <2>5. CASE P.out = "ok"
    <3>1. PICK v, l : EntryOf(k, P.h.map[k], v, l)
      BY <2>2, <2>3, <2>5, MapEntry
    <3>2. P.h.map[k][1].live = l /\ l \in Int /\ l >= Seq0
      BY <3>1 DEF EntryOf
    <3>3. R = IF late THEN Fail(P.h) ELSE IF n > l /\ l - Seq0 <= th THEN Ok(Live(P.h, k, n)) ELSE Ok(P.h)
      <4>1. ~(l < Seq0)
        BY <3>2, LedgerAssumption
      <4>. QED BY <1>1, <1>5, <2>1, <2>5, <3>2, <4>1 DEF ExtendTtl, Then, Live
    <3>4. PICK Y : Y = IF late THEN Fail(Replay(D, P.h)) ELSE IF n > l /\ l - Seq0 <= th THEN Ok(Live(Replay(D, P.h), k, n)) ELSE Ok(Replay(D, P.h))
      OBVIOUS
    <3>5. Sim(D, P.h, R, Y) /\ R.h.frames = P.h.frames /\ R.h.events = P.h.events
      <4>1. CASE late
        BY <2>3, <3>3, <3>4, <4>1, OkFail DEF Fail
      <4>2. CASE ~late /\ ~(n > l /\ l - Seq0 <= th)
        BY <2>3, <3>3, <3>4, <4>2, OkFail DEF Ok
      <4>3. CASE ~late /\ n > l /\ l - Seq0 <= th
        <5>1. n >= Seq0
          BY <1>2, <3>2, <4>3, LedgerAssumption
        <5>2. R = Ok(Live(P.h, k, n)) /\ Y = Ok(Live(Replay(D, P.h), k, n))
          BY <3>3, <3>4, <4>3
        <5>4. PICK g : g = P.h
          OBVIOUS
        <5>5. k \in DOMAIN g.map /\ g.map[k] # None /\ RecOK(g)
          BY <2>2, <2>3, <2>5, <5>4
        <5>6. /\ R = Ok(Live(g, k, n))
              /\ Covers(D, g.fp) => Y = Ok(Live(Replay(D, g), k, n))
          BY <3>1, <5>2, <5>4
        <5>7. FpOK(D) /\ n \in Int
          BY <1>2
        <5>8. Sim(D, g, R, Y) /\ R.h.frames = g.frames /\ R.h.events = g.events
          BY ONLY <5>1, <5>5, <5>6, <5>7, LiveSim
        <5>. QED BY <5>4, <5>8
      <4>. QED BY <4>1, <4>2, <4>3
    <3>6. E.out # "ok" => E2 = E
      BY <1>3, <1>5, <2>1 DEF ExtendTtl, Then
    <3>7. ASSUME E.out = "ok", E.h = Replay(D, P.h), Covers(D, P.h.fp) PROVE E2 = Y
      <4>1. E.h.map[k] = P.h.map[k]
        BY <2>2, <2>3, <2>5, <3>7, ReplayFields
      <4>2. E.h.map[k][1].live = l /\ ~(l < Seq0)
        BY <3>2, <4>1, LedgerAssumption
      <4>. QED BY <1>1, <1>3, <1>5, <2>1, <3>4, <3>7, <4>2 DEF ExtendTtl, Then, Live
    <3>8. Sim(D, h, R, E2)
      BY <2>2, <2>3, <2>5, <3>5, <3>6, <3>7, Chain
    <3>. QED BY <1>3, <2>2, <3>5, <3>8
  <2>. QED BY <2>4, <2>5
<1>. QED BY <1>4, <1>5

\* What is written under a key that may be there: it keeps its life.
LifeOf(m, k) == IF m[k] = None THEN MinLiveUntil(k) ELSE m[k][1].live
\* It is not over, whether it was kept or begins now.
LEMMA LifeOK ==
    ASSUME NEW h, RecOK(h), NEW k \in LedgerKeys, k \in DOMAIN h.map, NEW l, l = LifeOf(h.map, k)
    PROVE  l \in Int /\ l >= Seq0
<1>1. CASE h.map[k] = None
  BY <1>1, LedgerAssumption DEF LifeOf, MinLiveUntil
<1>2. CASE h.map[k] # None
  <2>1. PICK v, x : EntryOf(k, h.map[k], v, x)
    BY <1>2, MapEntry
  <2>. QED BY <1>2, <2>1 DEF LifeOf, EntryOf
<1>. QED BY <1>1, <1>2

\* put_contract_data_into_ledger().
LEMMA PutDataSim ==
    ASSUME NEW D, FpOK(D), NEW h, RecOK(h), NEW k \in LedgerKeys, k[1] # "instance", NEW v,
           NEW R, R = PutData(h, k, v)
    PROVE  Sim(D, h, R, PutData(Replay(D, h), k, v)) /\ R.out = "ok" /\ R.h.frames = h.frames /\ R.h.events = h.events
<1>1. PICK P, E, E2 : P = Has(h, k) /\ E = Has(Replay(D, h), k) /\ E2 = PutData(Replay(D, h), k, v)
  OBVIOUS
<1>2. Sim(D, h, P, E) /\ P.out = "ok" /\ k \in DOMAIN P.h.map /\ P.h.frames = h.frames /\ P.h.events = h.events
  BY <1>1, HasSim
<1>3. RecOK(P.h)
  BY <1>2 DEF Sim, RecStep
<1>4. PICK l, o : l = LifeOf(P.h.map, k) /\ o = <<[val |-> <<v>>, live |-> l]>>
  OBVIOUS
<1>5. IsEntry(k, o)
  <2>1. l \in Int /\ l >= Seq0
    BY <1>2, <1>3, <1>4, LifeOK
  <2>. QED BY <1>4, <2>1, EntryMade
<1>6. R = PutOpt(P.h, k, o)
  BY <1>1, <1>2, <1>4 DEF PutData, Then, LifeOf
<1>7. PICK Y : Y = PutOpt(Replay(D, P.h), k, o)
  OBVIOUS
<1>8. Sim(D, P.h, R, Y) /\ R.out = "ok" /\ R.h.frames = P.h.frames /\ R.h.events = P.h.events
  BY <1>3, <1>5, <1>6, <1>7, PutSim
<1>9. E.out # "ok" => E2 = E
  BY <1>1 DEF PutData, Then
<1>10. ASSUME E.out = "ok", E.h = Replay(D, P.h), Covers(D, P.h.fp) PROVE E2 = Y
  <2>1. E.h.map[k] = P.h.map[k]
    BY <1>2, <1>3, <1>10, ReplayFields
  <2>. QED BY <1>1, <1>4, <1>7, <1>10, <2>1 DEF PutData, Then, LifeOf
<1>11. Sim(D, h, R, E2)
  BY <1>2, <1>3, <1>8, <1>9, <1>10, Chain
<1>. QED BY <1>1, <1>2, <1>8, <1>11

\* upload_contract_wasm().
LEMMA UploadSim ==
    ASSUME NEW D, FpOK(D), NEW h, RecOK(h), NEW w, CodeKey(w) \in LedgerKeys, NEW R, R = Upload(h, w)
    PROVE  Sim(D, h, R, Upload(Replay(D, h), w)) /\ R.out = "ok" /\ R.h.frames = h.frames /\ R.h.events = h.events
<1>. PICK k \in LedgerKeys : k = CodeKey(w)
  OBVIOUS
<1>1. PICK P, E, E2 : P = Has(h, k) /\ E = Has(Replay(D, h), k) /\ E2 = Upload(Replay(D, h), w)
  OBVIOUS
<1>2. Sim(D, h, P, E) /\ P.out = "ok" /\ k \in DOMAIN P.h.map /\ P.h.frames = h.frames /\ P.h.events = h.events
  BY <1>1, HasSim
<1>3. RecOK(P.h)
  BY <1>2 DEF Sim, RecStep
<1>4. PICK o : o = <<[val |-> <<"refined">>, live |-> MinLiveUntil(k)]>>
  OBVIOUS
<1>5. IsEntry(k, o) /\ k[1] # "instance"
  <2>1. MinLiveUntil(k) \in Int /\ MinLiveUntil(k) >= Seq0
    BY LedgerAssumption DEF MinLiveUntil
  <2>2. k[1] # "instance"
    BY DEF CodeKey
  <2>. QED BY <1>4, <2>1, <2>2, EntryMade
<1>6. PICK there : there = (P.h.map[k] # None /\ P.h.map[k][1].val = <<"refined">>)
  OBVIOUS
<1>7. R = IF there THEN Ok(P.h) ELSE PutOpt(P.h, k, o)
  BY <1>1, <1>2, <1>4, <1>6 DEF Upload, Then
<1>8. PICK Y : Y = IF there THEN Ok(Replay(D, P.h)) ELSE PutOpt(Replay(D, P.h), k, o)
  OBVIOUS
<1>9. Sim(D, P.h, R, Y) /\ R.out = "ok" /\ R.h.frames = P.h.frames /\ R.h.events = P.h.events
  <2>1. CASE there
    BY <1>3, <1>7, <1>8, <2>1, OkFail DEF Ok
  <2>2. CASE ~there
    <3>1. R = PutOpt(P.h, k, o) /\ Y = PutOpt(Replay(D, P.h), k, o)
      BY <1>7, <1>8, <2>2
    <3>. QED BY <1>3, <1>5, <3>1, PutSim
  <2>. QED BY <2>1, <2>2
<1>10. E.out # "ok" => E2 = E
  BY <1>1 DEF Upload, Then
<1>11. ASSUME E.out = "ok", E.h = Replay(D, P.h), Covers(D, P.h.fp) PROVE E2 = Y
  <2>1. E.h.map[k] = P.h.map[k]
    BY <1>2, <1>3, <1>11, ReplayFields
  <2>. QED BY <1>1, <1>4, <1>6, <1>8, <1>11, <2>1 DEF Upload, Then
<1>12. Sim(D, h, R, E2)
  BY <1>2, <1>3, <1>9, <1>10, <1>11, Chain
<1>. QED BY <1>1, <1>2, <1>9, <1>12

\* store_contract_instance(), with an executable or for an instance that is there.
LEMMA StoreInstanceSim ==
    ASSUME NEW D, FpOK(D), NEW h, RecOK(h), NEW c, InstKey(c) \in LedgerKeys, NEW exec, NEW data,
           exec # None => CodeKey(exec[1]) \in LedgerKeys, exec = None => Present(h.map, c),
           NEW R, R = StoreInstance(h, c, exec, data)
    PROVE  /\ Sim(D, h, R, StoreInstance(Replay(D, h), c, exec, data)) /\ R.out = "ok"
           /\ R.h.frames = h.frames /\ R.h.events = h.events /\ Present(R.h.map, c)
<1>. PICK k \in LedgerKeys : k = InstKey(c)
  OBVIOUS
<1>1. PICK P, E, E2 : P = Has(h, k) /\ E = Has(Replay(D, h), k) /\ E2 = StoreInstance(Replay(D, h), c, exec, data)
  OBVIOUS
<1>2. /\ Sim(D, h, P, E) /\ P.out = "ok" /\ k \in DOMAIN P.h.map /\ P.h.frames = h.frames /\ P.h.events = h.events
      /\ P.h.map[k] = (IF k \in DOMAIN h.map THEN h.map[k] ELSE Snapshot[k])
  BY <1>1, HasSim
<1>3. RecOK(P.h) /\ (exec = None => P.h.map[k] # None)
  BY <1>2 DEF Sim, RecStep, Present
<1>4. PICK e, d, l : /\ e = (IF exec # None THEN exec[1] ELSE P.h.map[k][1].val[1])
                     /\ d = (IF data # None THEN data[1] ELSE IF P.h.map[k] = None THEN None ELSE P.h.map[k][1].val[2])
                     /\ l = LifeOf(P.h.map, k)
  OBVIOUS
<1>5. PICK o : o = <<[val |-> <<e, d>>, live |-> l]>>
  OBVIOUS
<1>6. IsEntry(k, o) /\ o # None
  <2>1. l \in Int /\ l >= Seq0
    BY <1>2, <1>3, <1>4, LifeOK
  <2>2. CodeKey(e) \in LedgerKeys
    <3>1. CASE exec # None
      BY <1>4, <3>1
    <3>2. CASE exec = None
      <4>1. PICK v, x : EntryOf(k, P.h.map[k], v, x)
        BY <1>2, <1>3, <3>2, MapEntry
      <4>2. k[1] = "instance"
        BY DEF InstKey
      <4>. QED BY <1>4, <3>2, <4>1, <4>2 DEF EntryOf
    <3>. QED BY <3>1, <3>2
  <2>3. PICK v : v = <<e, d>>
    OBVIOUS
  <2>4. v = <<v[1], v[2]>> /\ CodeKey(v[1]) \in LedgerKeys
    BY <2>2, <2>3
  <2>5. o = <<[val |-> v, live |-> l]>>
    BY <1>5, <2>3
  <2>. QED BY <2>1, <2>4, <2>5, EntryMade DEF EntryOf
<1>7. R = PutOpt(P.h, k, o)
  BY <1>1, <1>2, <1>3, <1>4, <1>5 DEF StoreInstance, Then, LifeOf
<1>8. PICK Y : Y = PutOpt(Replay(D, P.h), k, o)
  OBVIOUS
<1>9. Sim(D, P.h, R, Y) /\ R.out = "ok" /\ R.h.frames = P.h.frames /\ R.h.events = P.h.events /\ R.h.map = SetAt(P.h.map, k, o)
  BY <1>3, <1>6, <1>7, <1>8, PutSim
<1>10. E.out # "ok" => E2 = E
  BY <1>1 DEF StoreInstance, Then
<1>11. ASSUME E.out = "ok", E.h = Replay(D, P.h), Covers(D, P.h.fp) PROVE E2 = Y
  <2>1. E.h.map[k] = P.h.map[k]
    BY <1>2, <1>3, <1>11, ReplayFields
  <2>. QED BY <1>1, <1>3, <1>4, <1>5, <1>8, <1>11, <2>1 DEF StoreInstance, Then, LifeOf
<1>12. Sim(D, h, R, E2)
  BY <1>2, <1>3, <1>9, <1>10, <1>11, Chain
<1>13. Present(R.h.map, c)
  BY <1>6, <1>9 DEF Present, SetAt
<1>. QED BY <1>1, <1>2, <1>9, <1>12, <1>13

-----------------------------------------------------------------------------
(* Frames                                                                  *)

\* The frames of the enforcing host.
LEMMA FullFramesForm ==
    ASSUME NEW S, NEW fr \in Seq(S), NEW D
    PROVE  /\ \E T : FullFrames(D, fr) \in Seq(T)
           /\ Len(FullFrames(D, fr)) = Len(fr) /\ Len(fr) \in Nat
           /\ \A i \in 1..Len(fr) : FullFrames(D, fr)[i] = FullFrame(D, fr[i])
<1>1. PICK n : n = Len(fr) /\ n \in Nat
  OBVIOUS
<1>2. PICK T : T = {FullFrame(D, fr[i]) : i \in 1..n}
  OBVIOUS
<1>3. FullFrames(D, fr) \in [1..n -> T]
  BY <1>1, <1>2 DEF FullFrames
<1>4. FullFrames(D, fr) \in Seq(T) /\ Len(FullFrames(D, fr)) = n
  BY <1>1, <1>3
<1>. QED BY <1>1, <1>4 DEF FullFrames

\* A frame is pushed on both.
LEMMA FullAppend ==
    ASSUME NEW S, NEW fr \in Seq(S), NEW D, NEW f
    PROVE  FullFrames(D, Append(fr, f)) = Append(FullFrames(D, fr), FullFrame(D, f))
<1>1. PICK T : FullFrames(D, fr) \in Seq(T)
  BY FullFramesForm
<1>2. PICK g, A, B : g = FullFrame(D, f) /\ A = S \cup {f} /\ B = T \cup {g}
  OBVIOUS
<1>3. PICK x, y : x = FullFrames(D, fr) /\ y = Append(x, g)
  OBVIOUS
<1>4. x \in Seq(B) /\ fr \in Seq(A) /\ Len(x) = Len(fr) /\ \A i \in 1..Len(fr) : x[i] = FullFrame(D, fr[i])
  BY <1>1, <1>2, <1>3, FullFramesForm
<1>5. y \in Seq(B) /\ Len(y) = Len(x) + 1 /\ (\A i \in 1..Len(x) : y[i] = x[i]) /\ y[Len(x) + 1] = g
  BY <1>2, <1>3, <1>4, AppendProperties
<1>6. PICK z, w : z = Append(fr, f) /\ w = FullFrames(D, z)
  OBVIOUS
<1>7. z \in Seq(A) /\ Len(z) = Len(fr) + 1 /\ (\A i \in 1..Len(fr) : z[i] = fr[i]) /\ z[Len(fr) + 1] = f
  BY <1>2, <1>4, <1>6, AppendProperties
<1>8. PICK C : w \in Seq(C) /\ Len(w) = Len(z) /\ \A i \in 1..Len(z) : w[i] = FullFrame(D, z[i])
  BY <1>6, <1>7, FullFramesForm
<1>9. \A i \in 1..Len(w) : w[i] = y[i]
  <2>1. TAKE i \in 1..Len(w)
  <2>2. Len(fr) \in Nat
    BY <1>4
  <2>3. CASE i \in 1..Len(fr)
    <3>1. y[i] = x[i] /\ z[i] = fr[i] /\ w[i] = FullFrame(D, z[i])
      BY <1>4, <1>5, <1>7, <1>8, <2>3
    <3>. QED BY <1>4, <2>3, <3>1
  <2>4. CASE i = Len(fr) + 1
    <3>1. w[i] = FullFrame(D, z[i])
      BY <1>8
    <3>2. z[i] = f /\ y[i] = g
      BY <1>4, <1>5, <1>7, <2>4
    <3>. QED BY <1>2, <3>1, <3>2
  <2>. QED BY <1>7, <1>8, <2>2, <2>3, <2>4
<1>10. Len(w) = Len(y)
  BY <1>4, <1>5, <1>7, <1>8
<1>11. w = y
  BY <1>5, <1>8, <1>9, <1>10, SameSeq
<1>. QED BY <1>2, <1>3, <1>6, <1>11

\* The last frame is popped from both, or changed on both.
LEMMA FullFront ==
    ASSUME NEW S, NEW fr \in Seq(S), NEW D, fr # <<>>, NEW n, n = Len(fr)
    PROVE  /\ FullFrames(D, Front(fr)) = Front(FullFrames(D, fr))
           /\ FullFrames(D, fr) # <<>> /\ Len(FullFrames(D, fr)) = n /\ n \in Nat \ {0}
           /\ Last(FullFrames(D, fr)) = FullFrame(D, Last(fr)) /\ FullFrames(D, fr)[n] = FullFrame(D, fr[n])
           /\ \A g : FullFrames(D, [fr EXCEPT ![n] = g]) = [FullFrames(D, fr) EXCEPT ![n] = FullFrame(D, g)]
<1>1. PICK x : x = FullFrames(D, fr)
  OBVIOUS
<1>2. PICK T : x \in Seq(T) /\ Len(x) = n /\ \A i \in 1..n : x[i] = FullFrame(D, fr[i])
  BY <1>1, FullFramesForm
<1>3. n \in Nat \ {0} /\ Last(fr) = fr[n] /\ Front(fr) \in Seq(S) /\ Len(Front(fr)) = n - 1 /\ \A i \in 1..(n - 1) : Front(fr)[i] = fr[i]
  BY LastFront, SMTT(30)
<1>4. x # <<>>
  BY <1>2, <1>3, EmptySeq
<1>5. Last(x) = x[n] /\ Front(x) \in Seq(T) /\ Len(Front(x)) = n - 1 /\ \A i \in 1..(n - 1) : Front(x)[i] = x[i]
  BY <1>2, <1>4, LastFront
<1>6. x[n] = FullFrame(D, fr[n])
  BY <1>2, <1>3
<1>7. FullFrames(D, Front(fr)) = Front(x)
  <2>1. PICK p, w : p = Front(fr) /\ w = FullFrames(D, p)
    OBVIOUS
  <2>2. PICK C : w \in Seq(C) /\ Len(w) = n - 1 /\ \A i \in 1..(n - 1) : w[i] = FullFrame(D, p[i])
    BY <1>3, <2>1, FullFramesForm, SMTT(30)
  <2>3. PICK y : y = Front(x)
    OBVIOUS
  <2>4. \A i \in 1..Len(w) : w[i] = y[i]
    <3>1. TAKE i \in 1..Len(w)
    <3>2. i \in 1..(n - 1) /\ i \in 1..n
      BY <1>3, <2>2
    <3>3. w[i] = FullFrame(D, p[i]) /\ p[i] = fr[i] /\ y[i] = x[i] /\ x[i] = FullFrame(D, fr[i])
      BY <1>2, <1>3, <1>5, <2>1, <2>2, <2>3, <3>2
    <3>. QED BY <3>3
  <2>. QED BY <1>5, <2>1, <2>2, <2>3, <2>4, SameSeq
<1>8. ASSUME NEW g PROVE FullFrames(D, [fr EXCEPT ![n] = g]) = [x EXCEPT ![n] = FullFrame(D, g)]
  <2>1. PICK y, U : y = [fr EXCEPT ![n] = g] /\ U = S \cup {g}
    OBVIOUS
  <2>2. y \in Seq(U) /\ Len(y) = n /\ \A i \in 1..n : y[i] = IF i = n THEN g ELSE fr[i]
    BY <1>3, <2>1
  <2>3. FullFrames(D, y) = [i \in 1..n |-> FullFrame(D, y[i])]
    BY <2>2 DEF FullFrames
  <2>4. x = [i \in 1..n |-> FullFrame(D, fr[i])]
    BY <1>1 DEF FullFrames
  <2>5. [i \in 1..n |-> FullFrame(D, y[i])] = [x EXCEPT ![n] = FullFrame(D, g)]
    <3>1. \A i \in 1..n : FullFrame(D, y[i]) = IF i = n THEN FullFrame(D, g) ELSE FullFrame(D, fr[i])
      BY <2>2
    <3>. QED BY <2>4, <3>1
  <2>. QED BY <2>1, <2>3, <2>5
<1>. QED BY <1>1, <1>2, <1>3, <1>4, <1>5, <1>6, <1>7, <1>8

\* The frame that runs.
LEMMA LastFrame ==
    ASSUME NEW D, FpOK(D), NEW h, RecOK(h), h.frames # <<>>, NEW f, f = Last(h.frames), NEW n, n = Len(h.frames)
    PROVE  /\ FrameOK(f) /\ Present(h.map, f.c) /\ f.c \in LContracts /\ InstKey(f.c) \in LedgerKeys
           /\ f = h.frames[n] /\ n \in Nat \ {0} /\ n \in DOMAIN h.frames
           /\ Last(Replay(D, h).frames) = FullFrame(D, f) /\ Len(Replay(D, h).frames) = n
<1>1. PICK S : h.frames \in Seq(S)
  BY DEF RecOK, FramesOK
<1>2. n \in Nat \ {0} /\ f = h.frames[n]
  <2>1. PICK fr \in Seq(S) : fr = h.frames
    BY <1>1
  <2>2. fr # <<>> /\ n = Len(fr)
    BY <2>1
  <2>3. n \in Nat \ {0} /\ Last(fr) = fr[n] /\ Front(fr) \in Seq(S)
    BY ONLY fr \in Seq(S), <2>2, LastFront
  <2>. QED BY <2>1, <2>3
<1>3. FrameOK(f) /\ Present(h.map, f.c)
  BY <1>2 DEF RecOK, FramesOK
<1>4. f.c \in LContracts /\ InstKey(f.c) \in LedgerKeys
  BY <1>3, LedgerAssumption DEF FrameOK
<1>5. Replay(D, h).frames = FullFrames(D, h.frames)
  BY ReplayFields
<1>6. Last(FullFrames(D, h.frames)) = FullFrame(D, f) /\ Len(FullFrames(D, h.frames)) = n
  BY <1>1, FullFront
<1>. QED BY <1>1, <1>2, <1>3, <1>4, <1>5, <1>6

\* record_contract_event().
LEMMA EventSim ==
    ASSUME NEW D, FpOK(D), NEW h, RecOK(h), NEW e, NEW R, R = Ok(RecordEvent(h, e))
    PROVE  /\ Sim(D, h, R, Ok(RecordEvent(Replay(D, h), e)))
           /\ R.out = "ok" /\ R.h.map = h.map /\ R.h.frames = h.frames /\ R.h.fp = h.fp
<1>1. PICK fp, m, fr, ev : fp = h.fp /\ m = h.map /\ fr = h.frames /\ ev = h.events
  OBVIOUS
<1>2. h = Host("recording", fp, m, fr, ev) /\ FpOK(fp) /\ MapOK(m) /\ DOMAIN m \subseteq DOMAIN fp /\ FramesOK(fr, fp, m)
  BY <1>1 DEF RecOK
<1>3. PICK ev2 : ev2 = Append(ev, [what |-> e, failed |-> FALSE])
  OBVIOUS
<1>4. PICK x : x = Host("recording", fp, m, fr, ev2)
  OBVIOUS
<1>5. RecordEvent(h, e) = x
  <2>1. RecordEvent(h, e) = [h EXCEPT !.events = ev2]
    BY <1>1, <1>3 DEF RecordEvent
  <2>. QED BY <1>2, <1>4, <2>1, HostFields
<1>6. x.fp = fp /\ x.map = m /\ x.frames = fr /\ x.events = ev2
  BY <1>4, HostFields
<1>7. RecOK(x)
  BY <1>2, <1>4, <1>6 DEF RecOK
<1>8. R = [h |-> x, out |-> "ok"] /\ R.h = x /\ R.out = "ok"
  BY <1>5 DEF Ok
<1>9. Covers(fp, fp)
  BY <1>2, CoversItself
<1>10. RecStep(h, R)
  BY <1>1, <1>6, <1>7, <1>8, <1>9 DEF RecStep
<1>11. RecordEvent(Replay(D, h), e) = Replay(D, x)
  <2>1. PICK y : y = Replay(D, h)
    OBVIOUS
  <2>2. y = Host("enforcing", D, Full(D, m), FullFrames(D, fr), ev)
    BY <1>1, <2>1 DEF Replay
  <2>3. RecordEvent(y, e) = [y EXCEPT !.events = ev2]
    <3>1. y.events = ev
      BY <2>2, HostFields
    <3>. QED BY <1>3, <3>1 DEF RecordEvent
  <2>4. RecordEvent(y, e) = Host("enforcing", D, Full(D, m), FullFrames(D, fr), ev2)
    BY <2>2, <2>3, HostFields
  <2>. QED BY <1>6, <2>1, <2>4 DEF Replay
<1>12. Covers(D, h.fp) => Follows(D, R, Ok(RecordEvent(Replay(D, h), e)))
  BY <1>1, <1>6, <1>8, <1>11 DEF Follows, Ok
<1>. QED BY <1>1, <1>6, <1>8, <1>10, <1>12 DEF Sim

\* create_contract_with_id(): the code must be there.
StoreWithCode(h, c, w) == Then(GetEntry(h, CodeKey(w)), LAMBDA f : StoreInstance(f, c, <<w>>, None))
\* The code and then the instance: both hosts alike.
LEMMA StoreWithCodeSim ==
    ASSUME NEW D, FpOK(D), NEW h, RecOK(h), NEW c, InstKey(c) \in LedgerKeys, NEW w, CodeKey(w) \in LedgerKeys,
           NEW R, R = StoreWithCode(h, c, w)
    PROVE  /\ Sim(D, h, R, StoreWithCode(Replay(D, h), c, w)) /\ R.h.frames = h.frames
           /\ R.out = "ok" => Present(R.h.map, c)
<1>. PICK k \in LedgerKeys : k = CodeKey(w)
  OBVIOUS
<1>1. PICK P, E, E2 : P = GetEntry(h, k) /\ E = GetEntry(Replay(D, h), k) /\ E2 = StoreWithCode(Replay(D, h), c, w)
  OBVIOUS
<1>2. Sim(D, h, P, E) /\ P.h.frames = h.frames
  BY <1>1, GetSim
<1>3. RecOK(P.h)
  BY <1>2 DEF Sim, RecStep
<1>4. PICK x, Y : x = <<w>> /\ Y = StoreInstance(Replay(D, P.h), c, x, None)
  OBVIOUS
<1>5. P.out # "ok" => R = P
  BY <1>1 DEF StoreWithCode, Then
<1>6. ASSUME P.out = "ok" PROVE Sim(D, P.h, R, Y) /\ R.h.frames = P.h.frames /\ Present(R.h.map, c)
  <2>1. R = StoreInstance(P.h, c, x, None)
    BY <1>1, <1>4, <1>6 DEF StoreWithCode, Then
  <2>2. x # None /\ CodeKey(x[1]) \in LedgerKeys
    BY <1>4 DEF None
  <2>. QED BY <1>3, <1>4, <2>1, <2>2, StoreInstanceSim
<1>7. E.out # "ok" => E2 = E
  BY <1>1 DEF StoreWithCode, Then
<1>8. E.out = "ok" /\ E.h = Replay(D, P.h) /\ Covers(D, P.h.fp) => E2 = Y
  BY <1>1, <1>4 DEF StoreWithCode, Then
<1>9. Sim(D, h, R, E2)
  BY <1>2, <1>3, <1>5, <1>6, <1>7, <1>8, Chain
<1>10. P.out # "ok" => R.out # "ok"
  BY <1>5
<1>. QED BY <1>1, <1>2, <1>5, <1>6, <1>9, <1>10

\* create_contract_with_id() is simulated.
LEMMA CreateSim ==
    ASSUME NEW D, FpOK(D), NEW h, RecOK(h), NEW c, InstKey(c) \in LedgerKeys, NEW w, CodeKey(w) \in LedgerKeys,
           NEW R, R = CreateWithId(h, c, w)
    PROVE  Sim(D, h, R, CreateWithId(Replay(D, h), c, w)) /\ R.h.frames = h.frames
<1>. PICK k \in LedgerKeys : k = InstKey(c)
  OBVIOUS
<1>1. PICK P, E, E2 : P = Has(h, k) /\ E = Has(Replay(D, h), k) /\ E2 = CreateWithId(Replay(D, h), c, w)
  OBVIOUS
<1>2. Sim(D, h, P, E) /\ P.out = "ok" /\ k \in DOMAIN P.h.map /\ P.h.frames = h.frames
  BY <1>1, HasSim
<1>3. RecOK(P.h)
  BY <1>2 DEF Sim, RecStep
<1>4. R = IF P.h.map[k] # None THEN Fail(P.h) ELSE StoreWithCode(P.h, c, w)
  BY <1>1, <1>2 DEF CreateWithId, Then, StoreWithCode
<1>5. PICK Y : Y = IF P.h.map[k] # None THEN Fail(Replay(D, P.h)) ELSE StoreWithCode(Replay(D, P.h), c, w)
  OBVIOUS
<1>6. Sim(D, P.h, R, Y) /\ R.h.frames = P.h.frames
  <2>1. CASE P.h.map[k] # None
    BY <1>3, <1>4, <1>5, <2>1, OkFail DEF Fail
  <2>2. CASE P.h.map[k] = None
    <3>1. R = StoreWithCode(P.h, c, w) /\ Y = StoreWithCode(Replay(D, P.h), c, w)
      BY <1>4, <1>5, <2>2
    <3>. QED BY <1>3, <3>1, StoreWithCodeSim
  <2>. QED BY <2>1, <2>2
<1>7. E.out # "ok" => E2 = E
  BY <1>1 DEF CreateWithId, Then
<1>8. ASSUME E.out = "ok", E.h = Replay(D, P.h), Covers(D, P.h.fp) PROVE E2 = Y
  <2>1. E.h.map[k] = P.h.map[k]
    BY <1>2, <1>3, <1>8, ReplayFields
  <2>. QED BY <1>1, <1>5, <1>8, <2>1 DEF CreateWithId, Then, StoreWithCode
<1>9. Sim(D, h, R, E2)
  BY <1>2, <1>3, <1>6, <1>7, <1>8, Chain
<1>. QED BY <1>1, <1>2, <1>6, <1>9

\* update_current_contract_wasm(): an event, then the instance.
StoreAfterEvent(h, e, c, w) == StoreInstance(RecordEvent(h, e), c, <<w>>, None)
\* The event, then the instance with the new code: both hosts alike.
LEMMA StoreAfterEventSim ==
    ASSUME NEW D, FpOK(D), NEW h, RecOK(h), NEW c, InstKey(c) \in LedgerKeys, NEW w, CodeKey(w) \in LedgerKeys, NEW e,
           NEW R, R = StoreAfterEvent(h, e, c, w)
    PROVE  Sim(D, h, R, StoreAfterEvent(Replay(D, h), e, c, w)) /\ R.h.frames = h.frames
<1>1. PICK P, E, E2 : P = Ok(RecordEvent(h, e)) /\ E = Ok(RecordEvent(Replay(D, h), e)) /\ E2 = StoreAfterEvent(Replay(D, h), e, c, w)
  OBVIOUS
<1>2. Sim(D, h, P, E) /\ P.h.frames = h.frames /\ P.out = "ok"
  BY <1>1, EventSim
<1>3. RecOK(P.h)
  BY <1>2 DEF Sim, RecStep
<1>4. PICK x, Y : x = <<w>> /\ Y = StoreInstance(Replay(D, P.h), c, x, None)
  OBVIOUS
<1>5. R = StoreInstance(P.h, c, x, None)
  BY <1>1, <1>4 DEF StoreAfterEvent, Ok
<1>6. x # None /\ CodeKey(x[1]) \in LedgerKeys
  BY <1>4 DEF None
<1>7. Sim(D, P.h, R, Y) /\ R.h.frames = P.h.frames
  BY <1>3, <1>4, <1>5, <1>6, StoreInstanceSim
<1>8. E.out = "ok" /\ E2 = StoreInstance(E.h, c, x, None)
  BY <1>1, <1>4 DEF StoreAfterEvent, Ok
<1>9. E.h = Replay(D, P.h) => E2 = Y
  BY <1>4, <1>8
<1>10. Sim(D, h, R, E2)
  BY <1>2, <1>3, <1>7, <1>8, <1>9, Chain
<1>. QED BY <1>1, <1>2, <1>7, <1>10

UpdateInstance(h, e, c, w) == Then(RetrieveInstance(h, c), LAMBDA f : StoreAfterEvent(f, e, c, w))
\* The instance is read before: both hosts alike.
LEMMA UpdateInstanceSim ==
    ASSUME NEW D, FpOK(D), NEW h, RecOK(h), NEW c, InstKey(c) \in LedgerKeys, NEW w, CodeKey(w) \in LedgerKeys, NEW e,
           NEW R, R = UpdateInstance(h, e, c, w)
    PROVE  Sim(D, h, R, UpdateInstance(Replay(D, h), e, c, w)) /\ R.h.frames = h.frames
<1>. PICK k \in LedgerKeys : k = InstKey(c)
  OBVIOUS
<1>1. PICK P, E, E2 : P = GetEntry(h, k) /\ E = GetEntry(Replay(D, h), k) /\ E2 = UpdateInstance(Replay(D, h), e, c, w)
  OBVIOUS
<1>2. Sim(D, h, P, E) /\ P.h.frames = h.frames
  BY <1>1, GetSim
<1>3. RecOK(P.h)
  BY <1>2 DEF Sim, RecStep
<1>4. PICK Y : Y = StoreAfterEvent(Replay(D, P.h), e, c, w)
  OBVIOUS
<1>5. P.out # "ok" => R = P
  BY <1>1 DEF UpdateInstance, RetrieveInstance, Then
<1>6. ASSUME P.out = "ok" PROVE Sim(D, P.h, R, Y) /\ R.h.frames = P.h.frames
  <2>1. R = StoreAfterEvent(P.h, e, c, w)
    BY <1>1, <1>6 DEF UpdateInstance, RetrieveInstance, Then
  <2>. QED BY <1>3, <1>4, <2>1, StoreAfterEventSim
<1>7. (E.out # "ok" => E2 = E) /\ (E.out = "ok" /\ E.h = Replay(D, P.h) => E2 = Y)
  BY <1>1, <1>4 DEF UpdateInstance, RetrieveInstance, Then
<1>8. Sim(D, h, R, E2)
  BY <1>2, <1>3, <1>5, <1>6, <1>7, Chain
<1>. QED BY <1>1, <1>2, <1>5, <1>6, <1>8

\* update_current_contract_wasm() is simulated.
LEMMA UpdateSim ==
    ASSUME NEW D, FpOK(D), NEW h, RecOK(h), h.frames # <<>>, NEW w, CodeKey(w) \in LedgerKeys, NEW R, R = UpdateWasm(h, w)
    PROVE  Sim(D, h, R, UpdateWasm(Replay(D, h), w)) /\ R.h.frames = h.frames
<1>. PICK k \in LedgerKeys : k = CodeKey(w)
  OBVIOUS
<1>1. PICK P, E, E2, c, e : /\ P = GetEntry(h, k) /\ E = GetEntry(Replay(D, h), k) /\ E2 = UpdateWasm(Replay(D, h), w)
                            /\ c = Last(h.frames).c /\ e = <<"update", w>>
  OBVIOUS
<1>2. Sim(D, h, P, E) /\ P.h.frames = h.frames
  BY <1>1, GetSim
<1>3. RecOK(P.h)
  BY <1>2 DEF Sim, RecStep
<1>4. InstKey(c) \in LedgerKeys /\ Last(Replay(D, h).frames).c = c
  <2>1. PICK f, n : f = Last(h.frames) /\ n = Len(h.frames)
    OBVIOUS
  <2>2. FrameOK(f) /\ InstKey(f.c) \in LedgerKeys /\ Last(Replay(D, h).frames) = FullFrame(D, f)
    BY <2>1, LastFrame
  <2>. QED BY <1>1, <2>1, <2>2 DEF FullFrame
<1>5. PICK Y : Y = UpdateInstance(Replay(D, P.h), e, c, w)
  OBVIOUS
<1>6. P.out # "ok" => R = P
  BY <1>1 DEF UpdateWasm, Then
<1>7. ASSUME P.out = "ok" PROVE Sim(D, P.h, R, Y) /\ R.h.frames = P.h.frames
  <2>1. R = UpdateInstance(P.h, e, c, w)
    BY <1>1, <1>7 DEF UpdateWasm, Then, UpdateInstance, StoreAfterEvent
  <2>. QED BY <1>3, <1>4, <1>5, <2>1, UpdateInstanceSim
<1>8. (E.out # "ok" => E2 = E) /\ (E.out = "ok" /\ E.h = Replay(D, P.h) => E2 = Y)
  BY <1>1, <1>4, <1>5 DEF UpdateWasm, Then, UpdateInstance, StoreAfterEvent
<1>9. Sim(D, h, R, E2)
  BY <1>2, <1>3, <1>6, <1>7, <1>8, Chain
<1>. QED BY <1>1, <1>2, <1>6, <1>7, <1>9

\* extend_contract_code_ttl() and extend_contract_instance_and_code_ttl().
LEMMA ExtendCodeSim ==
    ASSUME NEW D, FpOK(D), NEW h, RecOK(h), NEW c, InstKey(c) \in LedgerKeys, NEW th \in Nat, NEW ext \in Nat,
           NEW R, R = ExtendCode(h, c, th, ext)
    PROVE  Sim(D, h, R, ExtendCode(Replay(D, h), c, th, ext)) /\ R.h.frames = h.frames
<1>. PICK k \in LedgerKeys : k = InstKey(c)
  OBVIOUS
<1>1. PICK P, E, E2 : P = GetEntry(h, k) /\ E = GetEntry(Replay(D, h), k) /\ E2 = ExtendCode(Replay(D, h), c, th, ext)
  OBVIOUS
<1>2. Sim(D, h, P, E) /\ P.h.frames = h.frames /\ (P.out = "ok" => k \in DOMAIN P.h.map /\ P.h.map[k] # None)
  BY <1>1, GetSim
<1>3. RecOK(P.h)
  BY <1>2 DEF Sim, RecStep
<1>4. PICK j : j = CodeKey(P.h.map[k][1].val[1])
  OBVIOUS
<1>5. ASSUME P.out = "ok" PROVE j \in LedgerKeys
  <2>1. PICK v, l : EntryOf(k, P.h.map[k], v, l)
    BY <1>2, <1>3, <1>5, MapEntry
  <2>2. k[1] = "instance"
    BY DEF InstKey
  <2>. QED BY <1>4, <2>1, <2>2 DEF EntryOf
<1>6. PICK Y : Y = ExtendTtl(Replay(D, P.h), j, th, ext)
  OBVIOUS
<1>7. P.out # "ok" => R = P
  BY <1>1 DEF ExtendCode, RetrieveInstance, Then
<1>8. ASSUME P.out = "ok" PROVE Sim(D, P.h, R, Y) /\ R.h.frames = P.h.frames
  <2>1. R = ExtendTtl(P.h, j, th, ext)
    BY <1>1, <1>4, <1>8 DEF ExtendCode, RetrieveInstance, Then
  <2>. QED BY <1>3, <1>5, <1>6, <1>8, <2>1, ExtendTtlSim
<1>9. E.out # "ok" => E2 = E
  BY <1>1 DEF ExtendCode, RetrieveInstance, Then
<1>10. ASSUME P.out = "ok", E.out = "ok", E.h = Replay(D, P.h), Covers(D, P.h.fp) PROVE E2 = Y
  <2>1. E.h.map[k] = P.h.map[k]
    BY <1>2, <1>3, <1>10, ReplayFields
  <2>. QED BY <1>1, <1>4, <1>6, <1>10, <2>1 DEF ExtendCode, RetrieveInstance, Then
<1>11. CASE P.out = "ok"
  <2>1. Sim(D, h, R, E2)
    BY <1>2, <1>3, <1>8, <1>9, <1>10, <1>11, Chain
  <2>. QED BY <1>1, <1>2, <1>8, <1>11, <2>1
<1>12. CASE P.out # "ok"
  <2>1. ASSUME Covers(D, P.h.fp), Covers(D, h.fp) PROVE E.out # "ok"
    BY <1>2, <1>12, <2>1 DEF Sim, Follows
  <2>2. Sim(D, h, P, E2)
    BY <1>2, <1>9, <1>12 DEF Sim, Follows
  <2>. QED BY <1>1, <1>2, <1>7, <1>12, <2>2
<1>. QED BY <1>11, <1>12

\* extend_current_contract_instance_and_code_ttl() is simulated.
LEMMA ExtendBothSim ==
    ASSUME NEW D, FpOK(D), NEW h, RecOK(h), NEW c, InstKey(c) \in LedgerKeys, NEW th \in Nat, NEW ext \in Nat,
           NEW R, R = ExtendInstanceAndCode(h, c, th, ext)
    PROVE  Sim(D, h, R, ExtendInstanceAndCode(Replay(D, h), c, th, ext)) /\ R.h.frames = h.frames
<1>. PICK k \in LedgerKeys : k = InstKey(c)
  OBVIOUS
<1>1. PICK P, E, E2 : P = ExtendTtl(h, k, th, ext) /\ E = ExtendTtl(Replay(D, h), k, th, ext) /\ E2 = ExtendInstanceAndCode(Replay(D, h), c, th, ext)
  OBVIOUS
<1>2. Sim(D, h, P, E) /\ P.h.frames = h.frames
  BY <1>1, ExtendTtlSim
<1>3. RecOK(P.h)
  BY <1>2 DEF Sim, RecStep
<1>4. PICK Y : Y = ExtendCode(Replay(D, P.h), c, th, ext)
  OBVIOUS
<1>5. P.out # "ok" => R = P
  BY <1>1 DEF ExtendInstanceAndCode, Then
<1>6. ASSUME P.out = "ok" PROVE Sim(D, P.h, R, Y) /\ R.h.frames = P.h.frames
  <2>1. R = ExtendCode(P.h, c, th, ext)
    BY <1>1, <1>6 DEF ExtendInstanceAndCode, Then
  <2>. QED BY <1>3, <1>4, <2>1, ExtendCodeSim
<1>7. (E.out # "ok" => E2 = E) /\ (E.out = "ok" /\ E.h = Replay(D, P.h) => E2 = Y)
  BY <1>1, <1>4 DEF ExtendInstanceAndCode, Then
<1>8. Sim(D, h, R, E2)
  BY <1>2, <1>3, <1>5, <1>6, <1>7, Chain
<1>. QED BY <1>1, <1>2, <1>5, <1>6, <1>8

\* The instance storage of the frame that runs is read into its cache or written there.
WithLast(h, f) == [h EXCEPT !.frames[Len(h.frames)] = f]
\* A last frame that differs only in its cache and mark is put on both hosts alike.
LEMMA WithLastSim ==
    ASSUME NEW D, FpOK(D), NEW h, RecOK(h), h.frames # <<>>, NEW f, f = Last(h.frames), NEW cache, NEW dirty,
           NEW g, g = [c |-> f.c, inst |-> f.inst, cache |-> cache, dirty |-> dirty, map |-> f.map, events |-> f.events],
           NEW x, x = WithLast(h, g)
    PROVE  /\ RecOK(x) /\ x.map = h.map /\ x.fp = h.fp /\ x.frames # <<>>
           /\ Replay(D, x) = WithLast(Replay(D, h), FullFrame(D, g))
<1>1. PICK fp, m, fr, ev, n : fp = h.fp /\ m = h.map /\ fr = h.frames /\ ev = h.events /\ n = Len(fr)
  OBVIOUS
<1>2. h = Host("recording", fp, m, fr, ev) /\ FpOK(fp) /\ MapOK(m) /\ DOMAIN m \subseteq DOMAIN fp /\ FramesOK(fr, fp, m)
  BY <1>1 DEF RecOK
<1>3. PICK S : fr \in Seq(S)
  BY <1>2 DEF FramesOK
<1>4. n \in Nat \ {0} /\ f = fr[n] /\ FrameOK(f) /\ n \in DOMAIN fr
  BY <1>1, LastFrame
<1>5. PICK y, U : y = [fr EXCEPT ![n] = g] /\ U = S \cup {g}
  OBVIOUS
<1>6. y \in Seq(U) /\ Len(y) = n /\ \A i \in 1..n : y[i] = IF i = n THEN g ELSE fr[i]
  <2>1. fr \in Seq(S) /\ n = Len(fr) /\ n \in Nat \ {0} /\ y = [fr EXCEPT ![n] = g] /\ U = S \cup {g}
    BY <1>1, <1>3, <1>4, <1>5
  <2>. QED BY ONLY <2>1
<1>7. x = Host("recording", fp, m, y, ev)
  <2>1. x = [h EXCEPT !.frames = y]
    BY <1>1, <1>5 DEF WithLast
  <2>. QED BY <1>2, <2>1, HostFields
<1>8. x.fp = fp /\ x.map = m /\ x.frames = y /\ x.events = ev
  BY <1>7, HostFields
<1>9. FrameOK(g) /\ g.c = f.c /\ g.map = f.map
  BY <1>4 DEF FrameOK
<1>10. FramesOK(y, fp, m)
  <2>1. \A i \in 1..n : y[i].c = fr[i].c /\ y[i].map = fr[i].map /\ (FrameOK(fr[i]) => FrameOK(y[i]))
    BY <1>4, <1>6, <1>9
  <2>2. Len(fr) = n
    BY <1>1
  <2>3. ASSUME NEW i \in 1..n PROVE /\ FrameOK(y[i]) /\ DOMAIN y[i].map \subseteq DOMAIN fp /\ Present(m, y[i].c)
                                    /\ \A j \in 1..n : j <= i => Present(y[i].map, y[j].c)
    BY <1>2, <2>1, <2>2 DEF FramesOK
  <2>. QED BY <1>6, <2>3 DEF FramesOK
<1>11. RecOK(x)
  BY <1>2, <1>7, <1>8, <1>10 DEF RecOK
<1>12. y # <<>>
  BY <1>4, <1>6
<1>13. Replay(D, x) = WithLast(Replay(D, h), FullFrame(D, g))
  <2>1. PICK z, w : z = Replay(D, h) /\ w = FullFrames(D, fr)
    OBVIOUS
  <2>2. z = Host("enforcing", D, Full(D, m), w, ev)
    BY <1>1, <2>1 DEF Replay
  <2>3. z.frames = w
    BY <2>2, HostFields
  <2>4. Len(w) = n /\ FullFrames(D, y) = [w EXCEPT ![n] = FullFrame(D, g)]
    <3>1. fr # <<>>
      BY <1>1
    <3>. QED BY <1>1, <1>3, <1>5, <2>1, <3>1, FullFront
  <2>5. WithLast(z, FullFrame(D, g)) = [z EXCEPT !.frames = FullFrames(D, y)]
    BY <2>3, <2>4 DEF WithLast
  <2>6. [z EXCEPT !.frames = FullFrames(D, y)] = Host("enforcing", D, Full(D, m), FullFrames(D, y), ev)
    BY <2>2, HostFields
  <2>. QED BY <1>8, <2>1, <2>5, <2>6 DEF Replay
<1>. QED BY <1>1, <1>8, <1>11, <1>12, <1>13

\* What is assigned to parts of the last frame.
FrameWith(f, cache, dirty) ==
    [c |-> f.c, inst |-> f.inst, cache |-> cache, dirty |-> dirty, map |-> f.map, events |-> f.events]
SetCache(h, x) == [h EXCEPT !.frames[Len(h.frames)].cache = x]
SetDirty(h, x) == [h EXCEPT !.frames[Len(h.frames)].cache = x, !.frames[Len(h.frames)].dirty = TRUE]
RunsIn(h, f, d) ==
    \E md, fp, m, S, fr, ev, n, c :
        /\ fr \in Seq(S) /\ h = Host(md, fp, m, fr, ev) /\ n = Len(fr) /\ n \in Nat \ {0} /\ f = fr[n]
        /\ f = FrameWith(f, c, d)
\* Assigning to the cache and the mark puts such a frame.
LEMMA FrameParts ==
    ASSUME NEW h, NEW f, NEW d, RunsIn(h, f, d), NEW x
    PROVE  SetCache(h, x) = WithLast(h, FrameWith(f, x, d)) /\ SetDirty(h, x) = WithLast(h, FrameWith(f, x, TRUE))
<1>. PICK md, fp, m, S, fr, ev, n, c :
        /\ fr \in Seq(S) /\ h = Host(md, fp, m, fr, ev) /\ n = Len(fr) /\ n \in Nat \ {0} /\ f = fr[n]
        /\ f = FrameWith(f, c, d)
  BY DEF RunsIn
<1>1. h.frames = fr /\ Len(h.frames) = n
  BY HostFields
<1>2. PICK g : g = FrameWith(f, x, d)
  OBVIOUS
<1>3. [f EXCEPT !.cache = x] = g
  BY <1>2 DEF FrameWith
<1>4. [g EXCEPT !.dirty = TRUE] = FrameWith(f, x, TRUE)
  <2>1. PICK t : t = TRUE
    OBVIOUS
  <2>2. [g EXCEPT !.dirty = t] = FrameWith(f, x, t)
    BY <1>2 DEF FrameWith
  <2>. QED BY <2>1, <2>2
<1>5. PICK a : a = [fr EXCEPT ![n] = g]
  OBVIOUS
<1>6. PICK k : k = [h EXCEPT !.frames = a]
  OBVIOUS
<1>7. SetCache(h, x) = k
  BY <1>1, <1>3, <1>5, <1>6 DEF SetCache
<1>8. WithLast(h, g) = k
  BY <1>1, <1>5, <1>6 DEF WithLast
<1>9. k = Host(md, fp, m, a, ev) /\ k.frames = a
  BY <1>6, HostFields
<1>10. a[n] = g
  BY <1>5
<1>11. [a EXCEPT ![n] = FrameWith(f, x, TRUE)] = [fr EXCEPT ![n] = FrameWith(f, x, TRUE)]
  BY <1>5
<1>12. SetDirty(h, x)
          = [k EXCEPT !.frames[n].dirty = TRUE]
  BY <1>1, <1>7 DEF SetCache, SetDirty
<1>13. [k EXCEPT !.frames[n].dirty = TRUE] = [k EXCEPT !.frames = [fr EXCEPT ![n] = FrameWith(f, x, TRUE)]]
  BY <1>4, <1>9, <1>10, <1>11
<1>14. [k EXCEPT !.frames = [fr EXCEPT ![n] = FrameWith(f, x, TRUE)]] = WithLast(h, FrameWith(f, x, TRUE))
  <2>1. PICK z : z = [fr EXCEPT ![n] = FrameWith(f, x, TRUE)]
    OBVIOUS
  <2>2. [k EXCEPT !.frames = z] = Host(md, fp, m, z, ev) /\ [h EXCEPT !.frames = z] = Host(md, fp, m, z, ev)
    BY <1>9, HostFields
  <2>. QED BY <1>1, <2>1, <2>2 DEF WithLast
<1>. QED BY <1>2, <1>7, <1>8, <1>12, <1>13, <1>14

\* Whatever changes only the frames or the events, in the same way on both.
LEMMA SameStorage ==
    ASSUME NEW D, NEW h, RecOK(h), NEW x, RecOK(x), x.fp = h.fp, x.map = h.map, NEW y, y = Replay(D, x)
    PROVE  Sim(D, h, Ok(x), Ok(y)) /\ Sim(D, h, Fail(x), Fail(y))
<1>1. Covers(x.fp, h.fp)
  BY CoversItself DEF RecOK
<1>2. Ok(x).h = x /\ Ok(x).out = "ok" /\ Fail(x).h = x /\ Fail(x).out = "fail"
  BY DEF Ok, Fail
<1>. QED BY <1>1, <1>2 DEF Sim, RecStep, Follows, Ok, Fail

\* Both hosts' frames with a part assigned.
LEMMA AssignSim ==
    ASSUME NEW D, FpOK(D), NEW h, RecOK(h), h.frames # <<>>, NEW f, f = Last(h.frames), NEW e, e = Replay(D, h), NEW x
    PROVE  /\ \E y : /\ SetCache(h, x) = y /\ RecOK(y) /\ y.map = h.map /\ y.fp = h.fp
                     /\ SetCache(e, x) = Replay(D, y) /\ y.frames # <<>>
           /\ \E y : /\ SetDirty(h, x) = y
                     /\ SetDirty(e, x) = Replay(D, y)
                     /\ RecOK(y) /\ y.map = h.map /\ y.fp = h.fp /\ y.frames # <<>>
<1>1. PICK fp, m, fr, ev, n : fp = h.fp /\ m = h.map /\ fr = h.frames /\ ev = h.events /\ n = Len(fr)
  OBVIOUS
<1>2. h = Host("recording", fp, m, fr, ev)
  BY <1>1 DEF RecOK
<1>3. PICK S : fr \in Seq(S)
  BY <1>1 DEF RecOK, FramesOK
<1>4. n \in Nat \ {0} /\ f = fr[n] /\ FrameOK(f)
  BY <1>1, LastFrame
<1>5. f = FrameWith(f, f.cache, f.dirty)
  BY <1>4 DEF FrameOK, FrameWith
<1>6. PICK w, b : w = FullFrames(D, fr) /\ b = FullFrame(D, f)
  OBVIOUS
<1>7. PICK T : w \in Seq(T) /\ Len(w) = n
  BY <1>1, <1>3, <1>6, FullFramesForm
<1>8. w[n] = b
  <2>1. fr # <<>>
    BY <1>1
  <2>. QED BY <1>1, <1>3, <1>4, <1>6, <2>1, FullFront
<1>9. e = Host("enforcing", D, Full(D, m), w, ev)
  BY <1>1, <1>6 DEF Replay
<1>10. b = FrameWith(b, b.cache, b.dirty) /\ b.dirty = f.dirty
  BY <1>6 DEF FullFrame, FrameWith
<1>11. \A c, d : FrameWith(b, c, d) = FullFrame(D, FrameWith(f, c, d))
  BY <1>6 DEF FullFrame, FrameWith
<1>12. ASSUME NEW c, NEW d PROVE \E y : y = WithLast(h, FrameWith(f, c, d)) /\ RecOK(y) /\ y.map = h.map /\ y.fp = h.fp
                                        /\ y.frames # <<>> /\ Replay(D, y) = WithLast(e, FrameWith(b, c, d))
  <2>1. PICK g, y : g = FrameWith(f, c, d) /\ y = WithLast(h, g)
    OBVIOUS
  <2>2. g = [c |-> f.c, inst |-> f.inst, cache |-> c, dirty |-> d, map |-> f.map, events |-> f.events]
    BY <2>1 DEF FrameWith
  <2>3. RecOK(y) /\ y.map = h.map /\ y.fp = h.fp /\ y.frames # <<>> /\ Replay(D, y) = WithLast(Replay(D, h), FullFrame(D, g))
    BY <2>1, <2>2, WithLastSim
  <2>. QED BY <1>11, <2>1, <2>3
<1>17. PICK c, d : c = f.cache /\ d = f.dirty
  OBVIOUS
<1>13. SetCache(h, x) = WithLast(h, FrameWith(f, x, d)) /\ SetDirty(h, x) = WithLast(h, FrameWith(f, x, TRUE))
  <2>1. n = Len(fr) /\ n \in Nat \ {0} /\ f = fr[n] /\ f = FrameWith(f, c, d) /\ fr \in Seq(S)
    BY <1>1, <1>3, <1>4, <1>5, <1>17
  <2>2. RunsIn(h, f, d)
    BY ONLY <1>2, <2>1 DEF RunsIn
  <2>. QED BY <2>2, FrameParts, ZenonT(40)
<1>14. SetCache(e, x) = WithLast(e, FrameWith(b, x, d)) /\ SetDirty(e, x) = WithLast(e, FrameWith(b, x, TRUE))
  <2>1. n = Len(w) /\ n \in Nat \ {0} /\ b = w[n] /\ w \in Seq(T)
    BY <1>4, <1>7, <1>8
  <2>2. PICK c2 : b = FrameWith(b, c2, d)
    BY <1>10, <1>17
  <2>3. RunsIn(e, b, d)
    BY ONLY <1>9, <2>1, <2>2 DEF RunsIn
  <2>. QED BY <2>3, FrameParts, ZenonT(40)
<1>15. PICK y : /\ y = WithLast(h, FrameWith(f, x, d)) /\ RecOK(y) /\ y.map = h.map /\ y.fp = h.fp
                /\ y.frames # <<>> /\ Replay(D, y) = WithLast(e, FrameWith(b, x, d))
  BY <1>12
<1>16. PICK z : /\ z = WithLast(h, FrameWith(f, x, TRUE)) /\ RecOK(z) /\ z.map = h.map /\ z.fp = h.fp
                /\ z.frames # <<>> /\ Replay(D, z) = WithLast(e, FrameWith(b, x, TRUE))
  BY <1>12
<1>. QED BY ONLY <1>13, <1>14, <1>15, <1>16

\* maybe_init_instance_storage() and with_mut_instance_storage().
LEMMA ReadSim ==
    ASSUME NEW D, FpOK(D), NEW h, RecOK(h), h.frames # <<>>, NEW R, R = ReadInstance(h)
    PROVE  Sim(D, h, R, ReadInstance(Replay(D, h))) /\ R.h.frames # <<>>
<1>1. PICK f, e, n, x : f = Last(h.frames) /\ e = Replay(D, h) /\ n = Len(h.frames) /\ x = Cached(f)
  OBVIOUS
<1>2. Last(e.frames) = FullFrame(D, f) /\ FrameOK(f)
  BY <1>1, LastFrame
<1>3. Cached(Last(e.frames)) = x
  BY <1>1, <1>2 DEF Cached, FullFrame
<1>4. PICK y : /\ SetCache(h, x) = y /\ RecOK(y) /\ y.map = h.map /\ y.fp = h.fp
               /\ SetCache(e, x) = Replay(D, y) /\ y.frames # <<>>
  BY <1>1, AssignSim
<1>5. Sim(D, h, Ok(y), Ok(Replay(D, y))) /\ Sim(D, h, Fail(y), Fail(Replay(D, y)))
  BY <1>4, SameStorage
<1>6. R = (IF x[1] = None THEN Fail(y) ELSE Ok(y)) /\ R.h = y
  BY <1>1, <1>4 DEF ReadInstance, Ok, Fail, SetCache
<1>7. ReadInstance(e) = IF x[1] = None THEN Fail(Replay(D, y)) ELSE Ok(Replay(D, y))
  BY <1>3, <1>4 DEF ReadInstance, SetCache
<1>. QED BY <1>1, <1>4, <1>5, <1>6, <1>7

\* with_mut_instance_storage() is simulated.
LEMMA WriteSim ==
    ASSUME NEW D, FpOK(D), NEW h, RecOK(h), h.frames # <<>>, NEW opt, NEW R, R = WriteInstance(h, opt)
    PROVE  Sim(D, h, R, WriteInstance(Replay(D, h), opt)) /\ R.h.frames # <<>>
<1>1. PICK f, e, x : f = Last(h.frames) /\ e = Replay(D, h) /\ x = <<opt>>
  OBVIOUS
<1>2. PICK y : /\ SetDirty(h, x) = y
               /\ SetDirty(e, x) = Replay(D, y)
               /\ RecOK(y) /\ y.map = h.map /\ y.fp = h.fp /\ y.frames # <<>>
  BY <1>1, AssignSim
<1>3. Sim(D, h, Ok(y), Ok(Replay(D, y)))
  BY <1>2, SameStorage
<1>4. R = Ok(y) /\ R.h = y /\ WriteInstance(e, opt) = Ok(Replay(D, y))
  BY <1>1, <1>2 DEF WriteInstance, Ok, SetDirty
<1>. QED BY <1>1, <1>2, <1>3, <1>4

\* push_context().
NewFrame(h, c, inst) ==
    [c |-> c, inst |-> inst, cache |-> None, dirty |-> FALSE, map |-> h.map, events |-> Len(h.events)]
PushFrame(h, c, inst) == [h EXCEPT !.frames = Append(@, NewFrame(h, c, inst))]
\* push_context() is simulated for a contract whose instance is there.
LEMMA PushSim ==
    ASSUME NEW D, FpOK(D), NEW h, RecOK(h), NEW c \in LContracts, Present(h.map, c), NEW inst,
           NEW R, R = Ok(PushFrame(h, c, inst))
    PROVE  Sim(D, h, R, Ok(PushFrame(Replay(D, h), c, inst))) /\ R.h.frames # <<>>
<1>1. PICK fp, m, fr, ev, n : fp = h.fp /\ m = h.map /\ fr = h.frames /\ ev = h.events /\ n = Len(fr)
  OBVIOUS
<1>2. h = Host("recording", fp, m, fr, ev) /\ FpOK(fp) /\ MapOK(m) /\ DOMAIN m \subseteq DOMAIN fp /\ FramesOK(fr, fp, m)
  BY <1>1 DEF RecOK
<1>3. PICK S : fr \in Seq(S)
  BY <1>2 DEF FramesOK
<1>4. PICK f, y, U : f = NewFrame(h, c, inst) /\ y = Append(fr, f) /\ U = S \cup {f}
  OBVIOUS
<1>5. f = [c |-> c, inst |-> inst, cache |-> None, dirty |-> FALSE, map |-> m, events |-> Len(ev)]
  BY <1>1, <1>4 DEF NewFrame
<1>6. fr \in Seq(U) /\ f \in U /\ n \in Nat
  BY <1>1, <1>3, <1>4
<1>7. y \in Seq(U) /\ y # <<>> /\ Len(y) = n + 1 /\ (\A i \in 1..n : y[i] = fr[i]) /\ y[n + 1] = f
  <2>1. n = Len(fr)
    BY <1>1
  <2>. QED BY <1>4, <1>6, <2>1, AppendProperties
<1>8. FrameOK(f) /\ f.c = c /\ f.map = m
  BY <1>2, <1>5 DEF FrameOK
<1>9. FramesOK(y, fp, m)
  <2>1. ASSUME NEW i \in 1..(n + 1)
        PROVE  /\ FrameOK(y[i]) /\ DOMAIN y[i].map \subseteq DOMAIN fp /\ Present(m, y[i].c)
               /\ \A j \in 1..(n + 1) : j <= i => Present(y[i].map, y[j].c)
    <3>1. CASE i \in 1..n
      <4>1. y[i] = fr[i] /\ FrameOK(fr[i]) /\ DOMAIN fr[i].map \subseteq DOMAIN fp /\ Present(m, fr[i].c)
        BY <1>1, <1>2, <1>7, <3>1 DEF FramesOK
      <4>2. ASSUME NEW j \in 1..(n + 1), j <= i PROVE Present(y[i].map, y[j].c)
        <5>1. j \in 1..n
          BY <1>6, <3>1, <4>2
        <5>2. Present(fr[i].map, fr[j].c)
          BY <1>1, <1>2, <3>1, <4>2, <5>1 DEF FramesOK
        <5>. QED BY <1>7, <4>1, <5>1, <5>2
      <4>. QED BY <4>1, <4>2
    <3>2. CASE i = n + 1
      <4>1. y[i] = f
        BY <1>7, <3>2
      <4>2. ASSUME NEW j \in 1..(n + 1) PROVE Present(m, y[j].c)
        <5>1. CASE j = n + 1
          BY <1>1, <1>7, <1>8, <5>1
        <5>2. CASE j \in 1..n
          BY <1>1, <1>2, <1>7, <5>2 DEF FramesOK
        <5>. QED BY <1>6, <5>1, <5>2
      <4>. QED BY <1>1, <1>2, <1>8, <4>1, <4>2
    <3>. QED BY <1>6, <3>1, <3>2
  <2>. QED BY <1>7, <2>1 DEF FramesOK
<1>10. PICK x : x = Host("recording", fp, m, y, ev)
  OBVIOUS
<1>11. x.fp = fp /\ x.map = m /\ x.frames = y /\ x.events = ev
  BY <1>10, HostFields
<1>12. RecOK(x)
  BY <1>2, <1>9, <1>10, <1>11 DEF RecOK
<1>13. PushFrame(h, c, inst) = x
  <2>1. PushFrame(h, c, inst) = [h EXCEPT !.frames = y]
    BY <1>1, <1>4 DEF PushFrame
  <2>. QED BY <1>2, <1>10, <2>1, HostFields
<1>14. PushFrame(Replay(D, h), c, inst) = Replay(D, x)
  <2>1. PICK z, w, g : z = Replay(D, h) /\ w = FullFrames(D, fr) /\ g = NewFrame(z, c, inst)
    OBVIOUS
  <2>2. z = Host("enforcing", D, Full(D, m), w, ev)
    BY <1>1, <2>1 DEF Replay
  <2>3. z.frames = w /\ z.map = Full(D, m) /\ z.events = ev
    BY <2>2, HostFields
  <2>4. g = FullFrame(D, f)
    BY <1>5, <2>1, <2>3 DEF NewFrame, FullFrame
  <2>5. Append(w, g) = FullFrames(D, y)
    BY <1>3, <1>4, <2>1, <2>4, FullAppend
  <2>6. PushFrame(z, c, inst) = [z EXCEPT !.frames = FullFrames(D, y)]
    BY <2>1, <2>3, <2>5 DEF PushFrame
  <2>7. [z EXCEPT !.frames = FullFrames(D, y)] = Host("enforcing", D, Full(D, m), FullFrames(D, y), ev)
    BY <2>2, HostFields
  <2>. QED BY <1>11, <2>1, <2>6, <2>7 DEF Replay
<1>15. PICK e : e = Replay(D, x)
  OBVIOUS
<1>16. Sim(D, h, Ok(x), Ok(e))
  BY <1>1, <1>11, <1>12, <1>15, SameStorage
<1>17. R = Ok(x) /\ R.h = x
  BY <1>13 DEF Ok
<1>. QED BY <1>7, <1>11, <1>14, <1>15, <1>16, <1>17

\* call_contract_fn(): the instance, its code, then the frame.
EnterCode(h, c, inst) == Then(RetrieveWasm(h, inst[1]), LAMBDA f : Ok(PushFrame(f, c, inst)))
\* The code and then the frame: both hosts alike.
LEMMA EnterCodeSim ==
    ASSUME NEW D, FpOK(D), NEW h, RecOK(h), NEW c \in LContracts, Present(h.map, c), NEW inst, CodeKey(inst[1]) \in LedgerKeys,
           NEW R, R = EnterCode(h, c, inst)
    PROVE  /\ Sim(D, h, R, EnterCode(Replay(D, h), c, inst)) /\ (R.out # "ok" => R.h.frames = h.frames)
           /\ R.out = "ok" => R.h.frames # <<>>
<1>. PICK k \in LedgerKeys : k = CodeKey(inst[1])
  OBVIOUS
<1>1. PICK P, E, E2 : P = GetEntry(h, k) /\ E = GetEntry(Replay(D, h), k) /\ E2 = EnterCode(Replay(D, h), c, inst)
  OBVIOUS
<1>2. Sim(D, h, P, E) /\ P.h.frames = h.frames
  BY <1>1, GetSim
<1>3. RecOK(P.h) /\ Present(P.h.map, c)
  BY <1>2 DEF Sim, RecStep
<1>4. PICK Y : Y = Ok(PushFrame(Replay(D, P.h), c, inst))
  OBVIOUS
<1>5. P.out # "ok" => R = P
  BY <1>1 DEF EnterCode, RetrieveWasm, Then
<1>6. ASSUME P.out = "ok" PROVE Sim(D, P.h, R, Y) /\ R.h.frames # <<>> /\ R.out = "ok"
  <2>1. R = Ok(PushFrame(P.h, c, inst))
    BY <1>1, <1>6 DEF EnterCode, RetrieveWasm, Then
  <2>2. R.out = "ok"
    BY <2>1 DEF Ok
  <2>. QED BY <1>3, <1>4, <2>1, <2>2, PushSim
<1>7. (E.out # "ok" => E2 = E) /\ (E.out = "ok" /\ E.h = Replay(D, P.h) => E2 = Y)
  BY <1>1, <1>4 DEF EnterCode, RetrieveWasm, Then
<1>8. Sim(D, h, R, E2)
  BY <1>2, <1>3, <1>5, <1>6, <1>7, Chain
<1>. QED BY <1>1, <1>2, <1>5, <1>6, <1>8

\* call_contract_fn() is simulated.
LEMMA EnterSim ==
    ASSUME NEW D, FpOK(D), NEW h, RecOK(h), NEW c \in LContracts, NEW R, R = EnterFrame(h, c)
    PROVE  /\ Sim(D, h, R, EnterFrame(Replay(D, h), c)) /\ (R.out # "ok" => R.h.frames = h.frames)
           /\ R.out = "ok" => R.h.frames # <<>>
<1>. PICK k \in LedgerKeys : k = InstKey(c)
  BY LedgerAssumption
<1>1. PICK P, E, E2 : P = GetEntry(h, k) /\ E = GetEntry(Replay(D, h), k) /\ E2 = EnterFrame(Replay(D, h), c)
  OBVIOUS
<1>2. Sim(D, h, P, E) /\ P.h.frames = h.frames /\ (P.out = "ok" => k \in DOMAIN P.h.map /\ P.h.map[k] # None)
  BY <1>1, GetSim
<1>3. RecOK(P.h)
  BY <1>2 DEF Sim, RecStep
<1>4. PICK inst, Y : inst = P.h.map[k][1].val /\ Y = EnterCode(Replay(D, P.h), c, inst)
  OBVIOUS
<1>5. ASSUME P.out = "ok" PROVE CodeKey(inst[1]) \in LedgerKeys /\ Present(P.h.map, c)
  <2>1. PICK v, l : EntryOf(k, P.h.map[k], v, l)
    BY <1>2, <1>3, <1>5, MapEntry
  <2>2. k[1] = "instance"
    BY DEF InstKey
  <2>. QED BY <1>2, <1>4, <1>5, <2>1, <2>2 DEF EntryOf, Present
<1>6. P.out # "ok" => R = P
  BY <1>1 DEF EnterFrame, RetrieveInstance, Then
<1>7. ASSUME P.out = "ok"
      PROVE Sim(D, P.h, R, Y) /\ (R.out # "ok" => R.h.frames = P.h.frames) /\ (R.out = "ok" => R.h.frames # <<>>)
  <2>1. R = EnterCode(P.h, c, inst)
    BY <1>1, <1>4, <1>7 DEF EnterFrame, RetrieveInstance, EnterCode, PushFrame, NewFrame, Then
  <2>. QED BY <1>3, <1>4, <1>5, <1>7, <2>1, EnterCodeSim, SMTT(30)
<1>8. E.out # "ok" => E2 = E
  BY <1>1 DEF EnterFrame, RetrieveInstance, Then
<1>9. ASSUME P.out = "ok", E.out = "ok", E.h = Replay(D, P.h), Covers(D, P.h.fp) PROVE E2 = Y
  <2>1. E.h.map[k] = P.h.map[k]
    BY <1>2, <1>3, <1>9, ReplayFields
  <2>. QED BY <1>1, <1>4, <1>9, <2>1 DEF EnterFrame, RetrieveInstance, EnterCode, PushFrame, NewFrame, Then
<1>11. CASE P.out = "ok"
  <2>1. Sim(D, h, R, E2)
    BY <1>2, <1>3, <1>7, <1>8, <1>9, <1>11, Chain
  <2>. QED BY <1>1, <1>2, <1>7, <1>11, <2>1
<1>12. CASE P.out # "ok"
  <2>1. ASSUME Covers(D, P.h.fp), Covers(D, h.fp) PROVE E.out # "ok"
    BY <1>2, <1>12, <2>1 DEF Sim, Follows
  <2>2. Sim(D, h, P, E2)
    BY <1>2, <1>8, <1>12 DEF Sim, Follows
  <2>. QED BY <1>1, <1>2, <1>6, <1>12, <2>2
<1>. QED BY <1>11, <1>12

\* pop_context(): the frame goes, and when it failed so does what it wrote; the footprint stays.
PopFrame(h) == [h EXCEPT !.frames = Front(@)]
Marked(ev, n) == [i \in DOMAIN ev |-> IF i > n THEN [ev[i] EXCEPT !.failed = TRUE] ELSE ev[i]]
\* FailFrame() in these terms.
LEMMA FailFrameIs ==
    ASSUME NEW md, NEW fp, NEW m, NEW fr, NEW ev, NEW h, h = Host(md, fp, m, fr, ev), NEW f, f = Last(fr)
    PROVE  FailFrame(h) = Host(md, fp, f.map, Front(fr), Marked(ev, f.events))
<1>1. h.frames = fr /\ h.events = ev
  BY HostFields
<1>2. PICK a, b, e : a = f.map /\ b = Front(fr) /\ e = Marked(ev, f.events)
  OBVIOUS
<1>3. FailFrame(h) = [h EXCEPT !.map = a, !.frames = b, !.events = e]
  BY <1>1, <1>2 DEF FailFrame, Marked
<1>4. [h EXCEPT !.map = a, !.frames = b, !.events = e] = Host(md, fp, a, b, e)
  <2>1. PICK g : g = [h EXCEPT !.map = a]
    OBVIOUS
  <2>2. g = Host(md, fp, a, fr, ev)
    BY <2>1, HostFields
  <2>3. PICK x : x = [g EXCEPT !.frames = b]
    OBVIOUS
  <2>4. x = Host(md, fp, a, b, ev)
    BY ONLY <2>2, <2>3, HostFields
  <2>6. [x EXCEPT !.events = e] = Host(md, fp, a, b, e)
    BY ONLY <2>4, HostFields
  <2>5. [h EXCEPT !.map = a, !.frames = b, !.events = e] = [[[h EXCEPT !.map = a] EXCEPT !.frames = b] EXCEPT !.events = e]
    OBVIOUS
  <2>. QED BY <2>1, <2>3, <2>5, <2>6
<1>. QED BY <1>2, <1>3, <1>4
FramesBefore(h, x, m) == RecOK(x) /\ x.fp = h.fp /\ x.map = m /\ x.frames = Front(h.frames)
\* The frame that ends had the frames before it, in a state they can go on in.
LEMMA PopSim ==
    ASSUME NEW D, FpOK(D), NEW h, RecOK(h), h.frames # <<>>, NEW f, f = Last(h.frames)
    PROVE  /\ FramesBefore(h, PopFrame(h), h.map) /\ PopFrame(Replay(D, h)) = Replay(D, PopFrame(h))
           /\ FramesBefore(h, FailFrame(h), f.map) /\ FailFrame(Replay(D, h)) = Replay(D, FailFrame(h))
<1>1. PICK fp, m, fr, ev, n : fp = h.fp /\ m = h.map /\ fr = h.frames /\ ev = h.events /\ n = Len(fr)
  OBVIOUS
<1>2. h = Host("recording", fp, m, fr, ev) /\ FpOK(fp) /\ MapOK(m) /\ DOMAIN m \subseteq DOMAIN fp /\ FramesOK(fr, fp, m)
  BY <1>1 DEF RecOK
<1>3. PICK S : fr \in Seq(S)
  BY <1>2 DEF FramesOK
<1>4. n \in Nat \ {0} /\ f = fr[n] /\ FrameOK(f)
  BY <1>1, LastFrame
<1>5. PICK y : y = Front(fr)
  OBVIOUS
<1>6. y \in Seq(S) /\ Len(y) = n - 1 /\ \A i \in 1..(n - 1) : y[i] = fr[i]
  <2>1. fr # <<>>
    BY <1>1
  <2>. QED BY <1>1, <1>3, <1>5, <2>1, LastFront
<1>7. PICK w, b, z : w = FullFrames(D, fr) /\ b = FullFrame(D, f) /\ z = Replay(D, h)
  OBVIOUS
<1>8. FullFrames(D, y) = Front(w) /\ Last(w) = b
  <2>1. fr # <<>> /\ f = Last(fr)
    BY <1>1
  <2>. QED BY <1>1, <1>3, <1>5, <1>7, <2>1, FullFront
<1>9. z = Host("enforcing", D, Full(D, m), w, ev)
  BY <1>1, <1>7 DEF Replay
<1>10. ASSUME NEW mm, MapOK(mm), DOMAIN mm \subseteq DOMAIN fp, \A i \in 1..(n - 1) : Present(mm, fr[i].c), NEW ee,
              NEW x, x = Host("recording", fp, mm, y, ee)
       PROVE  FramesBefore(h, x, mm) /\ x.events = ee
  <2>1. x.fp = fp /\ x.map = mm /\ x.frames = y /\ x.events = ee
    BY <1>10, HostFields
  <2>2. FramesOK(y, fp, mm)
    <3>1. ASSUME NEW i \in 1..(n - 1)
          PROVE  /\ FrameOK(y[i]) /\ DOMAIN y[i].map \subseteq DOMAIN fp /\ Present(mm, y[i].c)
                 /\ \A j \in 1..(n - 1) : j <= i => Present(y[i].map, y[j].c)
      <4>1. i \in 1..n /\ \A j \in 1..(n - 1) : j \in 1..n
        BY <1>4
      <4>. QED BY <1>1, <1>2, <1>6, <1>10, <4>1 DEF FramesOK
    <3>. QED BY <1>6, <3>1 DEF FramesOK
  <2>. QED BY <1>1, <1>2, <1>5, <1>10, <2>1, <2>2 DEF RecOK, FramesBefore
<1>11. PICK x, u : x = Host("recording", fp, m, y, ev) /\ u = Host("recording", fp, f.map, y, Marked(ev, f.events))
  OBVIOUS
<1>12. PopFrame(h) = x
  <2>1. PopFrame(h) = [h EXCEPT !.frames = y]
    BY <1>1, <1>5 DEF PopFrame
  <2>. QED BY <1>2, <1>11, <2>1, HostFields
<1>13. FramesBefore(h, x, m) /\ x.events = ev
  <2>1. \A i \in 1..(n - 1) : Present(m, fr[i].c)
    BY <1>1, <1>2, <1>4 DEF FramesOK
  <2>. QED BY <1>2, <1>10, <1>11, <2>1
<1>14. PopFrame(z) = Replay(D, x)
  <2>1. PopFrame(z) = [z EXCEPT !.frames = Front(w)]
    BY <1>9, HostFields DEF PopFrame
  <2>2. [z EXCEPT !.frames = Front(w)] = Host("enforcing", D, Full(D, m), Front(w), ev)
    BY <1>9, HostFields
  <2>. QED BY <1>1, <1>5, <1>8, <1>13, <2>1, <2>2 DEF Replay, FramesBefore
<1>15. FailFrame(h) = u
  <2>1. FailFrame(h) = Host("recording", fp, f.map, y, Marked(ev, f.events))
    <3>1. f = Last(fr)
      BY <1>1
    <3>. QED BY <1>2, <1>5, <3>1, FailFrameIs
  <2>. QED BY <1>11, <2>1
<1>16. FramesBefore(h, u, f.map) /\ u.events = Marked(ev, f.events)
  <2>1. PICK mm, ee : mm = f.map /\ ee = Marked(ev, f.events)
    OBVIOUS
  <2>4. n \in 1..Len(fr) /\ fr[n] = f /\ \A i \in 1..(n - 1) : i \in 1..Len(fr) /\ i <= n
    BY <1>1, <1>4
  <2>2. MapOK(mm) /\ DOMAIN mm \subseteq DOMAIN fp
    BY <1>2, <2>1, <2>4 DEF FramesOK, FrameOK
  <2>3. \A i \in 1..(n - 1) : Present(mm, fr[i].c)
    BY <1>2, <2>1, <2>4 DEF FramesOK
  <2>. QED BY <1>10, <1>11, <2>1, <2>2, <2>3
<1>17. FailFrame(z) = Replay(D, u)
  <2>1. b.map = Full(D, f.map) /\ b.events = f.events
    BY <1>7 DEF FullFrame
  <2>2. FailFrame(z) = Host("enforcing", D, b.map, Front(w), Marked(ev, b.events))
    <3>1. PICK md, mm : md = "enforcing" /\ mm = Full(D, m)
      OBVIOUS
    <3>2. z = Host(md, D, mm, w, ev) /\ b = Last(w)
      BY <1>8, <1>9, <3>1
    <3>. QED BY <3>1, <3>2, FailFrameIs
  <2>. QED BY <1>1, <1>5, <1>8, <1>16, <2>1, <2>2 DEF Replay, FramesBefore
<1>. QED BY <1>1, <1>7, <1>12, <1>13, <1>14, <1>15, <1>16, <1>17

\* with_frame() after success.
LEMMA PersistSim ==
    ASSUME NEW D, FpOK(D), NEW h, RecOK(h), h.frames # <<>>, NEW R, R = PersistInstance(h)
    PROVE  Sim(D, h, R, PersistInstance(Replay(D, h))) /\ R.out = "ok" /\ R.h.frames = h.frames
<1>1. PICK f, c, x, none, e, n : f = Last(h.frames) /\ c = f.c /\ x = f.cache /\ none = None /\ e = Replay(D, h) /\ n = Len(h.frames)
  OBVIOUS
<1>2. Last(e.frames) = FullFrame(D, f) /\ Present(h.map, f.c) /\ InstKey(f.c) \in LedgerKeys
  BY <1>1, LastFrame
<1>3. Last(e.frames).dirty = f.dirty /\ Last(e.frames).c = c /\ Last(e.frames).cache = x
  BY <1>1, <1>2 DEF FullFrame
<1>4. CASE f.dirty
  <2>1. R = StoreInstance(h, c, none, x) /\ PersistInstance(e) = StoreInstance(e, c, none, x)
    BY <1>1, <1>3, <1>4 DEF PersistInstance
  <2>2. Present(h.map, c) /\ InstKey(c) \in LedgerKeys /\ (none # None => CodeKey(none[1]) \in LedgerKeys)
    BY <1>1, <1>2
  <2>3. Sim(D, h, R, StoreInstance(Replay(D, h), c, none, x)) /\ R.out = "ok" /\ R.h.frames = h.frames
    BY <2>1, <2>2, StoreInstanceSim
  <2>. QED BY <1>1, <2>1, <2>3
<1>5. CASE ~f.dirty
  <2>1. R = Ok(h) /\ PersistInstance(e) = Ok(e)
    BY <1>1, <1>3, <1>5 DEF PersistInstance
  <2>2. R.out = "ok" /\ R.h = h
    BY <2>1 DEF Ok
  <2>. QED BY <1>1, <2>1, <2>2, OkFail
<1>. QED BY <1>4, <1>5

\* pop_context() after success is simulated.
LEMMA LeaveSim ==
    ASSUME NEW D, FpOK(D), NEW h, RecOK(h), h.frames # <<>>, NEW R, R = LeaveFrame(h)
    PROVE  Sim(D, h, R, LeaveFrame(Replay(D, h))) /\ R.out = "ok"
<1>1. PICK P, E, E2 : P = PersistInstance(h) /\ E = PersistInstance(Replay(D, h)) /\ E2 = LeaveFrame(Replay(D, h))
  OBVIOUS
<1>2. Sim(D, h, P, E) /\ P.out = "ok" /\ P.h.frames = h.frames
  BY <1>1, PersistSim
<1>3. RecOK(P.h) /\ P.h.frames # <<>>
  BY <1>2 DEF Sim, RecStep
<1>4. R = Ok(PopFrame(P.h)) /\ R.out = "ok"
  BY <1>1, <1>2 DEF LeaveFrame, Then, PopFrame, Ok
<1>5. PICK g, x, y, Y : g = P.h /\ x = PopFrame(g) /\ y = Replay(D, x) /\ Y = Ok(y)
  OBVIOUS
<1>6. FramesBefore(g, x, g.map) /\ PopFrame(Replay(D, g)) = y
  <2>1. PICK f : f = Last(g.frames)
    OBVIOUS
  <2>2. RecOK(g) /\ g.frames # <<>>
    BY <1>3, <1>5
  <2>. QED BY <1>5, <2>1, <2>2, PopSim
<1>7. Sim(D, P.h, R, Y)
  BY <1>3, <1>4, <1>5, <1>6, SameStorage DEF FramesBefore
<1>8. (E.out # "ok" => E2 = E) /\ (E.out = "ok" /\ E.h = Replay(D, P.h) => E2 = Y)
  BY <1>1, <1>5, <1>6 DEF LeaveFrame, Then, PopFrame
<1>9. Sim(D, h, R, E2)
  BY <1>2, <1>3, <1>7, <1>8, Chain
<1>. QED BY <1>1, <1>4, <1>9

-----------------------------------------------------------------------------
(* The transaction                                                         *)

\* While nothing was refused the enforcing host is the replay of the recording one; it was refused when
\* what was recorded is not declared.
FpInv ==
    /\ RecOK(recorder) /\ declared \in Declared /\ FpOK(declared)
    /\ verdict = "aborted" => ~Covers(declared, recorder.fp)
    /\ verdict # "aborted" => Covers(declared, recorder.fp) /\ enforcer = Replay(declared, recorder)

\* It holds of two hosts that made no call.
LEMMA FpInvInit == LedgerInit => FpInv
<1>. SUFFICES ASSUME LedgerInit PROVE FpInv
  OBVIOUS
<1>1. PICK fp, m, fr : fp = <<>> /\ m = [k \in DOMAIN fp |-> Snapshot[k]] /\ fr = <<>>
  OBVIOUS
<1>2. recorder = Host("recording", fp, m, fr, fr)
  BY <1>1 DEF LedgerInit, NewHost, Host
<1>3. recorder.fp = fp /\ recorder.map = m /\ recorder.frames = fr /\ recorder.events = fr
  BY <1>2, HostFields
<1>4. DOMAIN fp = {}
  BY <1>1
<1>5. FpOK(fp) /\ MapOK(m) /\ DOMAIN m = {}
  BY <1>1, <1>4 DEF FpOK, MapOK
<1>6. FramesOK(fr, fp, m)
  <2>1. fr \in Seq({}) /\ Len(fr) = 0
    BY <1>1
  <2>. QED BY <2>1 DEF FramesOK
<1>7. RecOK(recorder)
  BY <1>2, <1>3, <1>5, <1>6 DEF RecOK
<1>8. declared \in Declared /\ FpOK(declared)
  BY LedgerAssumption DEF LedgerInit, FpOK
<1>9. Covers(declared, fp)
  BY <1>4 DEF Covers
<1>10. enforcer = Replay(declared, recorder)
  <2>1. enforcer = Host("enforcing", declared, [k \in DOMAIN declared |-> Snapshot[k]], fr, fr)
    BY <1>1 DEF LedgerInit, NewHost, Host
  <2>2. Full(declared, m) = [k \in DOMAIN declared |-> Snapshot[k]]
    BY <1>5 DEF Full
  <2>3. FullFrames(declared, fr) = fr
    BY <1>1 DEF FullFrames
  <2>. QED BY <1>3, <2>1, <2>2, <2>3 DEF Replay
<1>. QED BY <1>3, <1>7, <1>8, <1>9, <1>10 DEF FpInv, LedgerInit

\* The frames of both hosts are empty together.
LEMMA EmptyTogether ==
    ASSUME NEW D, FpOK(D), NEW h, RecOK(h) PROVE Replay(D, h).frames = <<>> <=> h.frames = <<>>
<1>1. PICK S : h.frames \in Seq(S)
  BY DEF RecOK, FramesOK
<1>2. PICK fr \in Seq(S) : fr = h.frames
  BY <1>1
<1>3. PICK w, T : w = FullFrames(D, fr) /\ w \in Seq(T) /\ Len(w) = Len(fr)
  BY FullFramesForm
<1>4. (fr # <<>> => Len(fr) \in Nat \ {0}) /\ (w # <<>> => Len(w) \in Nat \ {0}) /\ Len(<<>>) = 0
  BY <1>3, EmptySeq
<1>5. w = <<>> <=> fr = <<>>
  BY <1>3, <1>4
<1>. QED BY <1>2, <1>3, <1>5, ReplayFields

\* A host function on both hosts keeps it.
Settled(R) == IF R.out = "fail" /\ R.h.frames # <<>> THEN FailFrame(R.h) ELSE R.h
\* A host function that is simulated, with the failure of its frame, keeps the invariant.
LEMMA ApplyInv ==
    ASSUME FpInv, verdict # "aborted", NEW R, NEW E, Sim(declared, recorder, R, E), recorder' = Settled(R), enforcer' = Settled(E),
           verdict' = "aborted" <=> E.out = "abort" \/ R.out = "abort", declared' = declared
    PROVE  FpInv'
<1>1. PICK D, h : D = declared /\ h = recorder
  OBVIOUS
<1>2. FpOK(D) /\ RecOK(h) /\ Covers(D, h.fp) /\ D \in Declared
  BY <1>1 DEF FpInv
<1>3. RecOK(R.h) /\ R.out \in {"ok", "fail"} /\ Follows(D, R, E)
  BY <1>1, <1>2 DEF Sim, RecStep
<1>4. PICK g, s : g = R.h /\ s = Settled(R)
  OBVIOUS
<1>5. RecOK(s) /\ s.fp = g.fp /\ (R.out = "fail" /\ g.frames # <<>> => s = FailFrame(g) /\ FailFrame(Replay(D, g)) = Replay(D, s))
  <2>1. CASE R.out = "fail" /\ g.frames # <<>>
    <3>1. PICK f : f = Last(g.frames)
      OBVIOUS
    <3>2. FramesBefore(g, FailFrame(g), f.map) /\ FailFrame(Replay(D, g)) = Replay(D, FailFrame(g))
      BY <1>2, <1>3, <1>4, <2>1, <3>1, PopSim
    <3>3. s = FailFrame(g)
      BY <1>4, <2>1 DEF Settled
    <3>. QED BY <3>2, <3>3 DEF FramesBefore
  <2>2. CASE ~(R.out = "fail" /\ g.frames # <<>>)
    BY <1>3, <1>4, <2>2 DEF Settled
  <2>. QED BY <2>1, <2>2
<1>6. CASE Covers(D, g.fp)
  <2>1. E = [h |-> Replay(D, g), out |-> R.out]
    BY <1>3, <1>4, <1>6 DEF Follows
  <2>2. E.h = Replay(D, g) /\ E.out = R.out
    BY <2>1
  <2>3. Replay(D, g).frames = <<>> <=> g.frames = <<>>
    BY <1>2, <1>3, <1>4, EmptyTogether
  <2>4. Settled(E) = Replay(D, s)
    <3>1. CASE R.out = "fail" /\ g.frames # <<>>
      BY <1>5, <2>2, <2>3, <3>1 DEF Settled
    <3>2. CASE ~(R.out = "fail" /\ g.frames # <<>>)
      BY <1>4, <2>2, <2>3, <3>2 DEF Settled
    <3>. QED BY <3>1, <3>2
  <2>5. verdict' # "aborted"
    BY <1>3, <2>2
  <2>. QED BY <1>1, <1>2, <1>4, <1>5, <1>6, <2>4, <2>5 DEF FpInv
<1>7. CASE ~Covers(D, g.fp)
  <2>1. E.out = "abort"
    BY <1>3, <1>4, <1>7 DEF Follows
  <2>. QED BY <1>1, <1>2, <1>4, <1>5, <1>7, <2>1 DEF FpInv
<1>. QED BY <1>6, <1>7

\* try_call() goes on when the callee cannot be entered.
Forgiven(e) == [e EXCEPT !.out = IF @ = "fail" THEN "ok" ELSE @]
\* Forgiving an error is simulated.
LEMMA ForgivenSim ==
    ASSUME NEW D, NEW h, NEW R, NEW E, Sim(D, h, R, E)
    PROVE  Sim(D, h, Forgiven(R), Forgiven(E))
<1>1. RecStep(h, R) /\ R = [h |-> R.h, out |-> R.out]
  BY DEF Sim, RecStep
<1>2. PICK o : o = IF R.out = "fail" THEN "ok" ELSE R.out
  OBVIOUS
<1>3. Forgiven(R) = [h |-> R.h, out |-> o]
  BY <1>1, <1>2 DEF Forgiven
<1>4. PICK x : x = Forgiven(R)
  OBVIOUS
<1>5. x.h = R.h /\ x.out = o /\ x = [h |-> x.h, out |-> x.out]
  BY <1>3, <1>4
<1>6. o \in {"ok", "fail"}
  BY <1>1, <1>2 DEF RecStep
<1>7. RecStep(h, x)
  BY <1>1, <1>5, <1>6 DEF RecStep
<1>8. ASSUME Covers(D, h.fp) PROVE Follows(D, x, Forgiven(E))
  <2>1. Follows(D, R, E)
    BY <1>8 DEF Sim
  <2>2. CASE Covers(D, R.h.fp)
    <3>1. E = [h |-> Replay(D, R.h), out |-> R.out]
      BY <2>1, <2>2 DEF Follows
    <3>2. Forgiven(E) = [h |-> Replay(D, R.h), out |-> o]
      BY <1>2, <3>1 DEF Forgiven
    <3>. QED BY <1>5, <2>2, <3>2 DEF Follows
  <2>3. CASE ~Covers(D, R.h.fp)
    <3>1. E = [h |-> E.h, out |-> "abort"]
      BY <2>1, <2>3 DEF Follows
    <3>2. PICK y : y = E.h
      OBVIOUS
    <3>3. Forgiven(E) = [h |-> y, out |-> "abort"]
      BY <3>1, <3>2 DEF Forgiven
    <3>4. PICK z : z = Forgiven(E)
      OBVIOUS
    <3>5. z = [h |-> z.h, out |-> "abort"]
      BY <3>3, <3>4
    <3>. QED BY <1>5, <2>3, <3>4, <3>5 DEF Follows
  <2>. QED BY <2>2, <2>3
<1>. QED BY <1>4, <1>7, <1>8 DEF Sim

\* The creation of a contract and the call of its constructor.
CreateAndEnter(h, c, w) == Then(CreateWithId(h, c, w), LAMBDA g : EnterFrame(g, c))
\* It is simulated.
LEMMA CreateAndEnterSim ==
    ASSUME NEW D, FpOK(D), NEW h, RecOK(h), NEW c \in LContracts, NEW w, CodeKey(w) \in LedgerKeys,
           NEW R, R = CreateAndEnter(h, c, w)
    PROVE  Sim(D, h, R, CreateAndEnter(Replay(D, h), c, w))
<1>1. PICK P, E, E2 : P = CreateWithId(h, c, w) /\ E = CreateWithId(Replay(D, h), c, w) /\ E2 = CreateAndEnter(Replay(D, h), c, w)
  OBVIOUS
<1>2. InstKey(c) \in LedgerKeys
  BY LedgerAssumption
<1>3. Sim(D, h, P, E)
  BY <1>1, <1>2, CreateSim
<1>4. RecOK(P.h)
  BY <1>3 DEF Sim, RecStep
<1>5. PICK Y : Y = EnterFrame(Replay(D, P.h), c)
  OBVIOUS
<1>6. P.out # "ok" => R = P
  BY <1>1 DEF CreateAndEnter, Then
<1>7. ASSUME P.out = "ok" PROVE Sim(D, P.h, R, Y)
  <2>1. R = EnterFrame(P.h, c)
    BY <1>1, <1>7 DEF CreateAndEnter, Then
  <2>. QED BY <1>4, <1>5, <2>1, EnterSim
<1>8. (E.out # "ok" => E2 = E) /\ (E.out = "ok" /\ E.h = Replay(D, P.h) => E2 = Y)
  BY <1>1, <1>5 DEF CreateAndEnter, Then
<1>9. Sim(D, h, R, E2)
  BY <1>3, <1>4, <1>6, <1>7, <1>8, Chain
<1>. QED BY <1>1, <1>9

\* A step that applies R to the recording host and E to the enforcing one.
Applied(R, E) ==
    /\ recorder' = Settled(R) /\ enforcer' = Settled(E) /\ declared' = declared
    /\ verdict = "no" /\ (verdict' = "aborted" <=> E.out = "abort" \/ R.out = "abort")
\* Such a step keeps the invariant.
LEMMA AppliedInv ==
    ASSUME FpInv, NEW R, NEW E, Applied(R, E),
           FpOK(declared) /\ RecOK(recorder) /\ enforcer = Replay(declared, recorder) => Sim(declared, recorder, R, E)
    PROVE  FpInv'
<1>1. verdict # "aborted"
  BY DEF Applied
<1>2. Sim(declared, recorder, R, E)
  BY <1>1 DEF FpInv
<1>. QED BY <1>1, <1>2, ApplyInv DEF Applied

\* Calls keep it.
LEMMA CallsInv ==
    ASSUME FpInv, NEW c \in LContracts,
           Invoke(c) \/ Call(c) \/ TryCallRefused(c) \/ (\E w \in Codes : LedgerCreateContract(c, w)) \/ CheckAuthSelf
    PROVE  FpInv'
<1>1. PICK D, h, e : D = declared /\ h = recorder /\ e = enforcer
  OBVIOUS
<1>2. FpOK(D) /\ RecOK(h)
  BY <1>1 DEF FpInv
<1>3. CASE Invoke(c) \/ Call(c)
  <2>1. PICK R, E : R = EnterFrame(h, c) /\ E = EnterFrame(e, c)
    OBVIOUS
  <2>2. Applied(R, E)
    <3>1. CASE Invoke(c)
      BY <1>1, <2>1, <3>1 DEF Invoke, Apply, Applied, Settled, Running
    <3>2. CASE Call(c)
      BY <1>1, <2>1, <3>2 DEF Call, Apply, Applied, Settled, InContract, Running
    <3>. QED BY <1>3, <3>1, <3>2
  <2>3. e = Replay(D, h) => Sim(D, h, R, E)
    BY <1>2, <2>1, EnterSim
  <2>. QED BY <1>1, <2>2, <2>3, AppliedInv
<1>4. CASE TryCallRefused(c)
  <2>1. PICK R, E : R = EnterFrame(h, c) /\ E = EnterFrame(e, c)
    OBVIOUS
  <2>2. PICK R2, E2 : R2 = Forgiven(R) /\ E2 = Forgiven(E)
    OBVIOUS
  <2>3. Applied(R2, E2)
    BY <1>1, <1>4, <2>1, <2>2 DEF TryCallRefused, Apply, Applied, Settled, InContract, Running, Forgiven
  <2>4. e = Replay(D, h) => Sim(D, h, R, E)
    BY <1>2, <2>1, EnterSim
  <2>5. e = Replay(D, h) => Sim(D, h, R2, E2)
    BY <2>2, <2>4, ForgivenSim
  <2>. QED BY <1>1, <2>3, <2>5, AppliedInv
<1>5. ASSUME NEW w \in Codes, LedgerCreateContract(c, w) PROVE FpInv'
  <2>1. PICK R, E : R = CreateAndEnter(h, c, w) /\ E = CreateAndEnter(e, c, w)
    OBVIOUS
  <2>2. Applied(R, E)
    BY <1>1, <1>5, <2>1 DEF LedgerCreateContract, Apply, Applied, Settled, InContract, Running, CreateAndEnter
  <2>3. CodeKey(w) \in LedgerKeys
    BY LedgerAssumption
  <2>4. e = Replay(D, h) => Sim(D, h, R, E)
    BY <1>2, <2>1, <2>3, CreateAndEnterSim
  <2>. QED BY <1>1, <2>2, <2>4, AppliedInv
<1>6. CASE CheckAuthSelf
  <2>1. PICK m, R, E : m = Me /\ R = EnterFrame(h, m) /\ E = EnterFrame(e, m)
    OBVIOUS
  <2>2. Applied(R, E) /\ h.frames # <<>>
    BY <1>1, <1>6, <2>1 DEF CheckAuthSelf, Apply, Applied, Settled, InContract, Running
  <2>3. m \in LContracts
    <3>1. PICK f, n : f = Last(h.frames) /\ n = Len(h.frames)
      OBVIOUS
    <3>2. f.c \in LContracts
      BY <1>2, <2>2, <3>1, LastFrame
    <3>. QED BY <1>1, <2>1, <3>1, <3>2 DEF Me
  <2>4. e = Replay(D, h) => Sim(D, h, R, E)
    BY <1>2, <2>1, <2>3, EnterSim
  <2>. QED BY <1>1, <2>2, <2>4, AppliedInv
<1>. QED BY <1>3, <1>4, <1>5, <1>6

\* The contract that runs.
LEMMA MeIs ==
    ASSUME FpInv, recorder.frames # <<>>
    PROVE  Me \in LContracts /\ \A k \in DataKeys : k[1] = Me => k \in LedgerKeys /\ k[1] # "instance"
<1>1. PICK D, h, f, n : D = declared /\ h = recorder /\ f = Last(h.frames) /\ n = Len(h.frames)
  OBVIOUS
<1>2. FpOK(D) /\ RecOK(h) /\ h.frames # <<>>
  BY <1>1 DEF FpInv
<1>3. f.c \in LContracts
  BY <1>1, <1>2, LastFrame
<1>4. Me \in LContracts
  BY <1>1, <1>3 DEF Me
<1>. QED BY <1>4, LedgerAssumption

\* Access to contract data keeps it.
LEMMA DataInv ==
    ASSUME FpInv, NEW k \in DataKeys,
           (\E v \in Vals : PutContractData(k, v)) \/ GetContractData(k) \/ HasContractData(k) \/ DelContractData(k)
           \/ \E args \in TtlArgs : ExtendContractDataTtl(k, args)
    PROVE  FpInv'
<1>1. PICK D, h, e, none : D = declared /\ h = recorder /\ e = enforcer /\ none = None
  OBVIOUS
<1>2. FpOK(D) /\ RecOK(h)
  BY <1>1 DEF FpInv
<1>3. InContract /\ k[1] = Me
  BY DEF PutContractData, GetContractData, HasContractData, DelContractData, ExtendContractDataTtl
<1>4. k \in LedgerKeys /\ k[1] # "instance"
  BY <1>3, MeIs DEF InContract
<1>5. ASSUME NEW v \in Vals, PutContractData(k, v) PROVE FpInv'
  <2>1. PICK R, E : R = PutData(h, k, v) /\ E = PutData(e, k, v)
    OBVIOUS
  <2>2. Applied(R, E)
    BY <1>1, <1>5, <2>1 DEF PutContractData, Apply, Applied, Settled, InContract, Running
  <2>3. e = Replay(D, h) => Sim(D, h, R, E)
    BY <1>2, <1>4, <2>1, PutDataSim
  <2>. QED BY <1>1, <2>2, <2>3, AppliedInv
<1>6. CASE GetContractData(k)
  <2>1. PICK R, E : R = GetEntry(h, k) /\ E = GetEntry(e, k)
    OBVIOUS
  <2>2. Applied(R, E)
    BY <1>1, <1>6, <2>1 DEF GetContractData, Apply, Applied, Settled, InContract, Running
  <2>3. e = Replay(D, h) => Sim(D, h, R, E)
    BY <1>2, <1>4, <2>1, GetSim
  <2>. QED BY <1>1, <2>2, <2>3, AppliedInv
<1>7. CASE HasContractData(k)
  <2>1. PICK R, E : R = Has(h, k) /\ E = Has(e, k)
    OBVIOUS
  <2>2. Applied(R, E)
    BY <1>1, <1>7, <2>1 DEF HasContractData, Apply, Applied, Settled, InContract, Running
  <2>3. e = Replay(D, h) => Sim(D, h, R, E)
    BY <1>2, <1>4, <2>1, HasSim
  <2>. QED BY <1>1, <2>2, <2>3, AppliedInv
<1>8. CASE DelContractData(k)
  <2>1. PICK R, E : R = PutOpt(h, k, none) /\ E = PutOpt(e, k, none)
    OBVIOUS
  <2>2. Applied(R, E)
    BY <1>1, <1>8, <2>1 DEF DelContractData, Apply, Applied, Settled, InContract, Running
  <2>3. IsEntry(k, none)
    BY <1>1 DEF IsEntry
  <2>4. e = Replay(D, h) => Sim(D, h, R, E)
    BY <1>2, <1>4, <2>1, <2>3, PutSim
  <2>. QED BY <1>1, <2>2, <2>4, AppliedInv
<1>9. ASSUME NEW args \in TtlArgs, ExtendContractDataTtl(k, args) PROVE FpInv'
  <2>1. PICK th, ext, R, E : th = args[1] /\ ext = args[2] /\ R = ExtendTtl(h, k, th, ext) /\ E = ExtendTtl(e, k, th, ext)
    OBVIOUS
  <2>2. Applied(R, E)
    BY <1>1, <1>9, <2>1 DEF ExtendContractDataTtl, Apply, Applied, Settled, InContract, Running
  <2>3. th \in Nat /\ ext \in Nat
    BY <2>1, LedgerAssumption
  <2>4. e = Replay(D, h) => Sim(D, h, R, E)
    BY <1>2, <1>4, <2>1, <2>3, ExtendTtlSim
  <2>. QED BY <1>1, <2>2, <2>4, AppliedInv
<1>. QED BY <1>5, <1>6, <1>7, <1>8, <1>9

\* Code, and the lives of instances and code.
LEMMA CodeInv ==
    ASSUME FpInv,
           \/ \E w \in Codes : UploadWasm(w) \/ UpdateCurrentContractWasm(w)
           \/ \E c \in LContracts, args \in TtlArgs :
                 \/ ExtendContractInstanceTtl(c, args)
                 \/ ExtendContractCodeTtl(c, args)
                 \/ ExtendContractInstanceAndCodeTtl(c, args)
    PROVE  FpInv'
<1>1. PICK D, h, e : D = declared /\ h = recorder /\ e = enforcer
  OBVIOUS
<1>2. FpOK(D) /\ RecOK(h)
  BY <1>1 DEF FpInv
<1>3. ASSUME NEW w \in Codes, UploadWasm(w) PROVE FpInv'
  <2>1. PICK R, E : R = Upload(h, w) /\ E = Upload(e, w)
    OBVIOUS
  <2>2. Applied(R, E)
    BY <1>1, <1>3, <2>1 DEF UploadWasm, Apply, Applied, Settled, InContract, Running
  <2>3. CodeKey(w) \in LedgerKeys
    BY LedgerAssumption
  <2>4. e = Replay(D, h) => Sim(D, h, R, E)
    BY <1>2, <2>1, <2>3, UploadSim
  <2>. QED BY <1>1, <2>2, <2>4, AppliedInv
<1>4. ASSUME NEW w \in Codes, UpdateCurrentContractWasm(w) PROVE FpInv'
  <2>1. PICK R, E : R = UpdateWasm(h, w) /\ E = UpdateWasm(e, w)
    OBVIOUS
  <2>2. Applied(R, E) /\ h.frames # <<>>
    BY <1>1, <1>4, <2>1 DEF UpdateCurrentContractWasm, Apply, Applied, Settled, InContract, Running
  <2>3. CodeKey(w) \in LedgerKeys
    BY LedgerAssumption
  <2>4. e = Replay(D, h) => Sim(D, h, R, E)
    BY <1>2, <2>1, <2>2, <2>3, UpdateSim
  <2>. QED BY <1>1, <2>2, <2>4, AppliedInv
<1>5. ASSUME NEW c \in LContracts, NEW args \in TtlArgs,
             ExtendContractInstanceTtl(c, args) \/ ExtendContractCodeTtl(c, args) \/ ExtendContractInstanceAndCodeTtl(c, args)
      PROVE  FpInv'
  <2>1. PICK th, ext, k : th = args[1] /\ ext = args[2] /\ k = InstKey(c)
    OBVIOUS
  <2>2. th \in Nat /\ ext \in Nat /\ k \in LedgerKeys
    BY <2>1, LedgerAssumption
  <2>3. CASE ExtendContractInstanceTtl(c, args)
    <3>1. PICK R, E : R = ExtendTtl(h, k, th, ext) /\ E = ExtendTtl(e, k, th, ext)
      OBVIOUS
    <3>2. Applied(R, E)
      BY <1>1, <2>1, <2>3, <3>1 DEF ExtendContractInstanceTtl, Apply, Applied, Settled, InContract, Running
    <3>3. e = Replay(D, h) => Sim(D, h, R, E)
      BY <1>2, <2>2, <3>1, ExtendTtlSim
    <3>. QED BY <1>1, <3>2, <3>3, AppliedInv
  <2>4. CASE ExtendContractCodeTtl(c, args)
    <3>1. PICK R, E : R = ExtendCode(h, c, th, ext) /\ E = ExtendCode(e, c, th, ext)
      OBVIOUS
    <3>2. Applied(R, E)
      BY <1>1, <2>1, <2>4, <3>1 DEF ExtendContractCodeTtl, Apply, Applied, Settled, InContract, Running
    <3>3. e = Replay(D, h) => Sim(D, h, R, E)
      BY <1>2, <2>1, <2>2, <3>1, ExtendCodeSim
    <3>. QED BY <1>1, <3>2, <3>3, AppliedInv
  <2>5. CASE ExtendContractInstanceAndCodeTtl(c, args)
    <3>1. PICK R, E : R = ExtendInstanceAndCode(h, c, th, ext) /\ E = ExtendInstanceAndCode(e, c, th, ext)
      OBVIOUS
    <3>2. Applied(R, E)
      BY <1>1, <2>1, <2>5, <3>1 DEF ExtendContractInstanceAndCodeTtl, Apply, Applied, Settled, InContract, Running
    <3>3. e = Replay(D, h) => Sim(D, h, R, E)
      BY <1>2, <2>1, <2>2, <3>1, ExtendBothSim
    <3>. QED BY <1>1, <3>2, <3>3, AppliedInv
  <2>. QED BY <1>5, <2>3, <2>4, <2>5
<1>. QED BY <1>3, <1>4, <1>5

\* Instance storage and events.
LEMMA InstanceInv ==
    ASSUME FpInv, (\E v \in Vals : PutInstanceData(v)) \/ GetInstanceData \/ DelInstanceData \/ ContractEvent
    PROVE  FpInv'
<1>1. PICK D, h, e : D = declared /\ h = recorder /\ e = enforcer
  OBVIOUS
<1>2. FpOK(D) /\ RecOK(h)
  BY <1>1 DEF FpInv
<1>3. h.frames # <<>>
  BY <1>1 DEF PutInstanceData, GetInstanceData, DelInstanceData, ContractEvent, InContract
<1>4. ASSUME NEW opt, NEW R, NEW E, R = WriteInstance(h, opt), E = WriteInstance(e, opt), Applied(R, E) PROVE FpInv'
  <2>1. e = Replay(D, h) => Sim(D, h, R, E)
    BY <1>2, <1>3, <1>4, WriteSim
  <2>. QED BY <1>1, <1>4, <2>1, AppliedInv
<1>5. ASSUME NEW v \in Vals, PutInstanceData(v) PROVE FpInv'
  <2>1. PICK opt, R, E : opt = <<v>> /\ R = WriteInstance(h, opt) /\ E = WriteInstance(e, opt)
    OBVIOUS
  <2>2. Applied(R, E)
    BY <1>1, <1>5, <2>1 DEF PutInstanceData, Apply, Applied, Settled, InContract, Running
  <2>. QED BY <1>4, <2>1, <2>2
<1>6. CASE DelInstanceData
  <2>1. PICK opt, R, E : opt = None /\ R = WriteInstance(h, opt) /\ E = WriteInstance(e, opt)
    OBVIOUS
  <2>2. Applied(R, E)
    BY <1>1, <1>6, <2>1 DEF DelInstanceData, Apply, Applied, Settled, InContract, Running
  <2>. QED BY <1>4, <2>1, <2>2
<1>7. CASE GetInstanceData
  <2>1. PICK R, E : R = ReadInstance(h) /\ E = ReadInstance(e)
    OBVIOUS
  <2>2. Applied(R, E)
    BY <1>1, <1>7, <2>1 DEF GetInstanceData, Apply, Applied, Settled, InContract, Running
  <2>3. e = Replay(D, h) => Sim(D, h, R, E)
    BY <1>2, <1>3, <2>1, ReadSim
  <2>. QED BY <1>1, <2>2, <2>3, AppliedInv
<1>8. CASE ContractEvent
  <2>1. PICK x, R, E : x = <<"event", ops>> /\ R = Ok(RecordEvent(h, x)) /\ E = Ok(RecordEvent(e, x))
    OBVIOUS
  <2>2. Applied(R, E)
    BY <1>1, <1>8, <2>1 DEF ContractEvent, Apply, Applied, Settled, InContract, Running
  <2>3. e = Replay(D, h) => Sim(D, h, R, E)
    BY <1>2, <2>1, EventSim
  <2>. QED BY <1>1, <2>2, <2>3, AppliedInv
<1>. QED BY <1>5, <1>6, <1>7, <1>8

\* The end of a frame.
LEMMA EndInv == ASSUME FpInv, ReturnFrame \/ LedgerFrameFails PROVE FpInv'
<1>1. PICK D, h, e : D = declared /\ h = recorder /\ e = enforcer
  OBVIOUS
<1>2. /\ FpOK(D) /\ RecOK(h) /\ D \in Declared /\ Covers(D, h.fp) /\ e = Replay(D, h) /\ h.frames # <<>>
      /\ verdict = "no" /\ declared' = D
  BY <1>1 DEF FpInv, ReturnFrame, LedgerFrameFails
<1>3. CASE ReturnFrame
  <2>1. PICK R, E : R = LeaveFrame(h) /\ E = LeaveFrame(e)
    OBVIOUS
  <2>2. Sim(D, h, R, E) /\ R.out = "ok"
    BY <1>2, <2>1, LeaveSim
  <2>3. Follows(D, R, E)
    BY <1>2, <2>2 DEF Sim
  <2>4. E.out # "fail"
    BY <2>2, <2>3 DEF Follows
  <2>5. recorder' = R.h /\ enforcer' = E.h /\ (verdict' = "aborted" <=> E.out = "abort" \/ R.out = "abort")
    BY <1>1, <1>3, <2>1 DEF ReturnFrame
  <2>6. recorder' = Settled(R) /\ enforcer' = Settled(E)
    BY <2>2, <2>4, <2>5 DEF Settled
  <2>. QED BY <1>1, <1>2, <2>2, <2>5, <2>6, ApplyInv
<1>4. CASE LedgerFrameFails
  <2>1. PICK f, s : f = Last(h.frames) /\ s = FailFrame(h)
    OBVIOUS
  <2>2. FramesBefore(h, s, f.map) /\ FailFrame(e) = Replay(D, s)
    BY <1>2, <2>1, PopSim
  <2>3. recorder' = s /\ enforcer' = Replay(D, s) /\ verdict' # "aborted"
    BY <1>1, <1>4, <2>1, <2>2 DEF LedgerFrameFails
  <2>. QED BY <1>1, <1>2, <2>2, <2>3 DEF FpInv, FramesBefore
<1>. QED BY <1>3, <1>4

\* Every step keeps it.
LEMMA FpInvNext == FpInv /\ [LedgerNext]_gvars => FpInv'
<1>. SUFFICES ASSUME FpInv, [LedgerNext]_gvars PROVE FpInv'
  OBVIOUS
<1>1. CASE UNCHANGED gvars
  BY <1>1 DEF gvars, FpInv
<1>2. CASE Ended
  BY <1>2 DEF Ended, gvars, FpInv
<1>3. ASSUME NEW c \in LContracts,
             Invoke(c) \/ Call(c) \/ TryCallRefused(c) \/ (\E w \in Codes : LedgerCreateContract(c, w))
      PROVE  FpInv'
  BY <1>3, CallsInv
<1>4. CASE CheckAuthSelf
  <2>1. \E c : c \in LContracts
    BY <1>4, MeIs DEF CheckAuthSelf, InContract
  <2>. QED BY <1>4, <2>1, CallsInv
<1>5. ASSUME NEW k \in DataKeys,
             (\E v \in Vals : PutContractData(k, v)) \/ GetContractData(k) \/ HasContractData(k) \/ DelContractData(k)
             \/ \E args \in TtlArgs : ExtendContractDataTtl(k, args)
      PROVE  FpInv'
  BY <1>5, DataInv
<1>6. CASE (\E v \in Vals : PutInstanceData(v)) \/ GetInstanceData \/ DelInstanceData \/ ContractEvent
  BY <1>6, InstanceInv
<1>7. CASE \/ \E w \in Codes : UploadWasm(w) \/ UpdateCurrentContractWasm(w)
           \/ \E c \in LContracts, args \in TtlArgs :
                 \/ ExtendContractInstanceTtl(c, args)
                 \/ ExtendContractCodeTtl(c, args)
                 \/ ExtendContractInstanceAndCodeTtl(c, args)
  BY <1>7, CodeInv
<1>8. CASE ReturnFrame \/ LedgerFrameFails
  BY <1>8, EndInv
<1>. QED BY <1>1, <1>2, <1>3, <1>4, <1>5, <1>6, <1>7, <1>8 DEF LedgerNext

-----------------------------------------------------------------------------
(* Rent                                                                    *)

NewSize(ch) == IF ch.newValue # None THEN Size(ch.newValue) ELSE ch.oldSize
Bears(ch) == ch.oldLive < ch.newLive \/ ch.oldSize < NewSize(ch)
RentFacts(ch) ==
    [key |-> ch.key, oldSize |-> ch.oldSize, newSize |-> NewSize(ch), oldLive |-> ch.oldLive, newLive |-> ch.newLive]

\* A key that is only in the declared footprint and not in the map of the recording host bears no rent.
LEMMA UnusedBearsNone ==
    ASSUME NEW h, NEW k \in LedgerKeys, h.map[k] = Snapshot[k], NEW ch, ch = LedgerChange(h, k)
    PROVE  ~Bears(ch)
<1>1. PICK o, old : o = Snapshot[k] /\ old = (IF o = None THEN 0 ELSE o[1].live)
  OBVIOUS
<1>2. old \in Int
  <2>1. IsEntry(k, o)
    BY <1>1, LedgerAssumption
  <2>2. o # None => o[1].live \in Int
    BY <2>1 DEF IsEntry
  <2>. QED BY <1>1, <2>2
<1>3. PICK nv : nv = IF h.fp[k] = "RW" THEN h.map[k] ELSE None
  OBVIOUS
<1>4. ch.oldLive = old /\ ch.newLive = old /\ ch.oldSize = Size(o) /\ ch.newValue = nv
  BY <1>1, <1>3 DEF LedgerChange
<1>5. NewSize(ch) = Size(o)
  BY <1>1, <1>3, <1>4 DEF NewSize
<1>6. Size(o) \in Int
  BY DEF Size
<1>. QED BY <1>2, <1>4, <1>5, <1>6 DEF Bears

\* With the recorded footprint both hosts report the same rent changes.
LEMMA SameRent ==
    ASSUME NEW D, FpOK(D), NEW h, RecOK(h), D = h.fp, NEW e, e = Replay(D, h)
    PROVE  RentChanges(h) = RentChanges(e)
<1>1. Covers(D, h.fp)
  BY CoversItself
<1>2. e.fp = D /\ e.map = Full(D, h.map) /\ \A k \in DOMAIN h.map : k \in DOMAIN D /\ e.map[k] = h.map[k]
  BY <1>1, ReplayFields
<1>3. DOMAIN e.map = DOMAIN D /\ \A k \in DOMAIN D : k \notin DOMAIN h.map => e.map[k] = Snapshot[k]
  BY <1>2 DEF Full
<1>4. ASSUME NEW k \in DOMAIN h.map PROVE LedgerChange(e, k) = LedgerChange(h, k)
  <2>1. e.map[k] = h.map[k] /\ e.fp[k] = h.fp[k]
    BY <1>2
  <2>. QED BY <2>1 DEF LedgerChange
<1>5. ASSUME NEW k \in DOMAIN e.map, k \notin DOMAIN h.map PROVE ~Bears(LedgerChange(e, k))
  <2>1. e.map[k] = Snapshot[k] /\ k \in LedgerKeys
    BY <1>3, <1>5 DEF FpOK
  <2>. QED BY <2>1, UnusedBearsNone
<1>6. {x \in LedgerChanges(h) : Bears(x)} = {x \in LedgerChanges(e) : Bears(x)}
  <2>1. ASSUME NEW x \in LedgerChanges(h) PROVE x \in LedgerChanges(e)
    <3>1. PICK k \in DOMAIN h.map : x = LedgerChange(h, k)
      BY DEF LedgerChanges
    <3>2. k \in DOMAIN e.map /\ x = LedgerChange(e, k)
      BY <1>2, <1>3, <1>4, <3>1
    <3>. QED BY <3>2 DEF LedgerChanges
  <2>2. ASSUME NEW x \in LedgerChanges(e), Bears(x) PROVE x \in LedgerChanges(h)
    <3>1. PICK k \in DOMAIN e.map : x = LedgerChange(e, k)
      BY DEF LedgerChanges
    <3>2. k \in DOMAIN h.map
      BY <1>5, <2>2, <3>1
    <3>3. x = LedgerChange(h, k)
      BY <1>4, <3>1, <3>2
    <3>. QED BY <3>2, <3>3 DEF LedgerChanges
  <2>. QED BY <2>1, <2>2
<1>7. \A g : RentChanges(g) = {RentFacts(ch) : ch \in {x \in LedgerChanges(g) : Bears(x)}}
  BY DEF RentChanges, RentFacts, Bears, NewSize
<1>8. RentChanges(h) = {RentFacts(ch) : ch \in {x \in LedgerChanges(h) : Bears(x)}}
  BY <1>7
<1>9. RentChanges(e) = {RentFacts(ch) : ch \in {x \in LedgerChanges(e) : Bears(x)}}
  BY <1>7
<1>. QED BY <1>6, <1>8, <1>9

\* The footprint recorded in simulation (storage.rs, recording mode) is the one the transaction needs: for
\* every ledger, declared footprint and sequence of host functions, the enforcing host refuses the
\* transaction exactly when the declared footprint does not cover what was recorded, failed frames included,
\* and with the recorded footprint itself it bills the rent changes of the simulation.
THEOREM FootprintIsExact == LedgerSpec => []FootprintExact
<1>1. LedgerInit => FpInv
  BY FpInvInit
<1>2. FpInv /\ [LedgerNext]_gvars => FpInv'
  BY FpInvNext
<1>3. FpInv => FootprintExact
  <2>. SUFFICES ASSUME FpInv PROVE FootprintExact
    OBVIOUS
  <2>1. verdict = "aborted" <=> ~Covers(declared, recorder.fp)
    BY DEF FpInv
  <2>2. ASSUME verdict = "done", declared = recorder.fp PROVE RentChanges(recorder) = RentChanges(enforcer)
    <3>1. PICK D, h, e : D = declared /\ h = recorder /\ e = enforcer
      OBVIOUS
    <3>2. FpOK(D) /\ RecOK(h) /\ D = h.fp /\ e = Replay(D, h)
      BY <2>2, <3>1 DEF FpInv
    <3>. QED BY <3>1, <3>2, SameRent
  <2>. QED BY <2>1, <2>2 DEF FootprintExact
<1>. QED BY <1>1, <1>2, <1>3, PTL DEF LedgerSpec

-----------------------------------------------------------------------------
(* Events                                                                  *)

\* The events that are left of a log, and their names.
Living(ev) == ContractEvents([events |-> ev])
Names(s) == [i \in DOMAIN s |-> s[i].event]
Event(S) == [what : S, failed : BOOLEAN]
Logs(S) == Seq(Event(S))
Marks(S) == [event : S, failedCall : BOOLEAN]
Survivors(S) == [event : S, failedCall : {FALSE}]
Ext(ev) == Externalized([events |-> ev])

\* What externalize() hands out of a log.
LEMMA ExtIs ==
    ASSUME NEW S, NEW ev \in Logs(S)
    PROVE  /\ Ext(ev) \in Seq(Marks(S)) /\ Len(Ext(ev)) = Len(ev) /\ Len(ev) \in Nat
           /\ \A i \in 1..Len(ev) : Ext(ev)[i] = [event |-> ev[i].what, failedCall |-> ev[i].failed]
<1>1. PICK n : n = Len(ev) /\ n \in Nat /\ DOMAIN ev = 1..n
  BY DEF Logs
<1>2. \A i \in 1..n : ev[i].what \in S /\ ev[i].failed \in BOOLEAN
  <2>1. \A i \in 1..n : ev[i] \in Event(S)
    BY <1>1 DEF Logs
  <2>. QED BY <2>1 DEF Event
<1>3. Ext(ev) = [i \in 1..n |-> [event |-> ev[i].what, failedCall |-> ev[i].failed]]
  BY <1>1 DEF Ext, Externalized
<1>4. \A i \in 1..n : [event |-> ev[i].what, failedCall |-> ev[i].failed] \in Marks(S)
  BY <1>2 DEF Marks
<1>5. Ext(ev) \in [1..n -> Marks(S)]
  BY <1>3, <1>4
<1>6. Ext(ev) \in Seq(Marks(S)) /\ Len(Ext(ev)) = n
  BY <1>1, <1>5
<1>. QED BY <1>1, <1>3, <1>6

\* Which events of a log are left.
LEMMA LivingIs ==
    ASSUME NEW S, NEW ev \in Logs(S)
    PROVE  Living(ev) = Names(Kept(Ext(ev), Survivors(S)))
<1>1. PICK x, K : x = Ext(ev) /\ K = {e \in Range(x) : ~e.failedCall}
  OBVIOUS
<1>2. x \in Seq(Marks(S))
  BY <1>1, ExtIs
<1>3. \A i \in 1..Len(x) : x[i] \in Range(x) /\ x[i] \in Marks(S)
  BY <1>2 DEF Range
<1>4. ASSUME NEW i \in 1..Len(x) PROVE x[i] \in K <=> x[i] \in Survivors(S)
  <2>1. PICK e, b : x[i] = [event |-> e, failedCall |-> b] /\ e \in S /\ b \in BOOLEAN
    <3>1. x[i] \in Marks(S)
      BY <1>3
    <3>2. PICK y \in Marks(S) : y = x[i]
      BY <3>1
    <3>3. y = [event |-> y.event, failedCall |-> y.failedCall] /\ y.event \in S /\ y.failedCall \in BOOLEAN
      BY DEF Marks
    <3>. QED BY <3>2, <3>3
  <2>2. x[i] \in K <=> b = FALSE
    BY <1>1, <1>3, <2>1
  <2>3. x[i] \in Survivors(S) <=> b = FALSE
    <3>1. PICK y : y = [event |-> e, failedCall |-> b]
      OBVIOUS
    <3>2. y \in Survivors(S) <=> b \in {FALSE}
      BY <2>1, <3>1 DEF Survivors
    <3>. QED BY <2>1, <3>1, <3>2
  <2>. QED BY <2>2, <2>3
<1>5. Kept(x, K) = Kept(x, Survivors(S))
  BY <1>2, <1>4, KeptSame
<1>6. Living(ev) = Names(Kept(x, K))
  BY <1>1 DEF Living, ContractEvents, Names, Ext
<1>. QED BY <1>1, <1>5, <1>6

\* A log with one event more.
LEMMA LivingAppend ==
    ASSUME NEW S, NEW ev \in Logs(S), NEW e \in S, NEW y, y = [what |-> e, failed |-> FALSE]
    PROVE  Append(ev, y) \in Logs(S) /\ Living(Append(ev, y)) = Append(Living(ev), e)
<1>1. PICK n, z : n = Len(ev) /\ n \in Nat /\ z = Append(ev, y)
  <2>1. Len(ev) \in Nat
    BY DEF Logs
  <2>. QED BY <2>1
<1>2. y \in Event(S)
  BY DEF Event
<1>3. z \in Logs(S) /\ Len(z) = n + 1 /\ (\A i \in 1..n : z[i] = ev[i]) /\ z[n + 1] = y
  BY <1>1, <1>2, AppendProperties DEF Logs
<1>4. PICK m : m = [event |-> e, failedCall |-> FALSE]
  OBVIOUS
<1>5. m \in Marks(S) /\ m \in Survivors(S) /\ m.event = e
  BY <1>4 DEF Marks, Survivors
<1>6. Ext(ev) \in Seq(Marks(S)) /\ Len(Ext(ev)) = n /\ \A i \in 1..n : Ext(ev)[i] = [event |-> ev[i].what, failedCall |-> ev[i].failed]
  BY <1>1, ExtIs
<1>7. Ext(z) \in Seq(Marks(S)) /\ Len(Ext(z)) = n + 1 /\ \A i \in 1..(n + 1) : Ext(z)[i] = [event |-> z[i].what, failedCall |-> z[i].failed]
  BY <1>3, ExtIs
<1>8. Ext(z) = Append(Ext(ev), m)
  <2>1. PICK a : a = Append(Ext(ev), m)
    OBVIOUS
  <2>2. a \in Seq(Marks(S)) /\ Len(a) = n + 1 /\ (\A i \in 1..n : a[i] = Ext(ev)[i]) /\ a[n + 1] = m
    BY <1>5, <1>6, <2>1, AppendProperties
  <2>3. ASSUME NEW i \in 1..(n + 1) PROVE a[i] = Ext(z)[i]
    <3>1. CASE i \in 1..n
      BY <1>3, <1>6, <1>7, <2>2, <3>1
    <3>2. CASE i = n + 1
      <4>1. Ext(z)[i] = [event |-> y.what, failedCall |-> y.failed]
        BY <1>1, <1>3, <1>7, <3>2
      <4>. QED BY <1>4, <2>2, <3>2, <4>1
    <3>. QED BY <1>1, <3>1, <3>2
  <2>. QED BY <1>7, <2>1, <2>2, <2>3, SameSeq
<1>9. PICK k : k = Kept(Ext(ev), Survivors(S)) /\ k \in Seq(Marks(S))
  BY <1>6, KeptFrom
<1>10. Kept(Ext(z), Survivors(S)) = Append(k, m)
  BY <1>5, <1>6, <1>8, <1>9, KeptAppend
<1>11. Names(Append(k, m)) = Append(Names(k), e)
  <2>1. PICK l, N : l = Len(k) /\ l \in Nat /\ N = {k[i].event : i \in 1..l} \cup {e}
    <3>1. Len(k) \in Nat
      BY <1>9
    <3>. QED BY <3>1
  <2>2. DOMAIN k = 1..l
    BY <1>9, <2>1
  <2>3. Names(k) \in [1..l -> N]
    BY <2>1, <2>2 DEF Names
  <2>4. Names(k) \in Seq(N) /\ Len(Names(k)) = l /\ (\A i \in 1..l : Names(k)[i] = k[i].event) /\ e \in N
    BY <2>1, <2>2, <2>3 DEF Names
  <2>5. Append(k, m) \in Seq(Marks(S)) /\ Len(Append(k, m)) = l + 1 /\ (\A i \in 1..l : Append(k, m)[i] = k[i]) /\ Append(k, m)[l + 1] = m
    BY <1>5, <1>9, <2>1, AppendProperties
  <2>6. DOMAIN Append(k, m) = 1..(l + 1)
    BY <2>5
  <2>7. PICK a, b : a = Append(Names(k), e) /\ b = Names(Append(k, m))
    OBVIOUS
  <2>8. a \in Seq(N) /\ Len(a) = l + 1 /\ (\A i \in 1..l : a[i] = Names(k)[i]) /\ a[l + 1] = e
    BY <2>4, <2>7, AppendProperties
  <2>9. b = [i \in 1..(l + 1) |-> Append(k, m)[i].event]
    BY <2>6, <2>7 DEF Names
  <2>10. \A i \in 1..(l + 1) : b[i] = a[i]
    <3>1. \A i \in 1..l : b[i] = a[i]
      BY <2>1, <2>4, <2>5, <2>8, <2>9
    <3>2. b[l + 1] = a[l + 1]
      BY <1>5, <2>1, <2>5, <2>8, <2>9
    <3>. QED BY <2>1, <3>1, <3>2
  <2>11. \A i \in 1..(l + 1) : a[i] \in N
    BY <2>8
  <2>12. b \in [1..(l + 1) -> N]
    BY <2>9, <2>10, <2>11
  <2>13. b \in Seq(N) /\ Len(b) = l + 1
    BY <2>1, <2>12
  <2>. QED BY <2>7, <2>8, <2>10, <2>13, SameSeq
<1>. QED BY <1>1, <1>3, <1>9, <1>10, <1>11, LivingIs

\* Of a log whose later events were marked the earlier ones are left.
LEMMA LivingMarked ==
    ASSUME NEW S, NEW ev \in Logs(S), NEW p \in 0..Len(ev)
    PROVE  /\ Marked(ev, p) \in Logs(S) /\ Len(Marked(ev, p)) = Len(ev)
           /\ \A j \in 0..p : SubSeq(Marked(ev, p), 1, j) = SubSeq(ev, 1, j)
           /\ Living(Marked(ev, p)) = Living(SubSeq(ev, 1, p))
<1>1. PICK n, z, a : n = Len(ev) /\ n \in Nat /\ z = Marked(ev, p) /\ a = SubSeq(ev, 1, p)
  <2>1. Len(ev) \in Nat
    BY DEF Logs
  <2>. QED BY <2>1
<1>2. p \in Nat /\ p <= n
  BY <1>1
<1>3. DOMAIN ev = 1..n /\ \A i \in 1..n : ev[i] \in Event(S)
  BY <1>1 DEF Logs
<1>4. z = [i \in 1..n |-> IF i > p THEN [ev[i] EXCEPT !.failed = TRUE] ELSE ev[i]]
  BY <1>1, <1>3 DEF Marked
<1>5. \A i \in 1..n : z[i] \in Event(S) /\ z[i].what = ev[i].what /\ (i > p => z[i].failed = TRUE) /\ (~(i > p) => z[i] = ev[i])
  <2> TAKE i \in 1..n
  <2>1. PICK w \in S, b \in BOOLEAN : ev[i] = [what |-> w, failed |-> b]
    <3>1. PICK x \in Event(S) : x = ev[i]
      BY <1>3
    <3>2. x = [what |-> x.what, failed |-> x.failed] /\ x.what \in S /\ x.failed \in BOOLEAN
      BY DEF Event
    <3>. QED BY <3>1, <3>2
  <2>2. PICK t : t = TRUE
    OBVIOUS
  <2>3. [ev[i] EXCEPT !.failed = t] = [what |-> w, failed |-> t]
    BY <2>1
  <2>4. z[i] = IF i > p THEN [what |-> w, failed |-> t] ELSE [what |-> w, failed |-> b]
    BY <1>4, <2>1, <2>2, <2>3
  <2>. QED BY <2>1, <2>2, <2>4 DEF Event
<1>6. z \in Logs(S) /\ Len(z) = n
  <2>1. z \in [1..n -> Event(S)]
    BY <1>4, <1>5
  <2>. QED BY <1>1, <2>1 DEF Logs
<1>7. ASSUME NEW j \in 0..p PROVE SubSeq(z, 1, j) = SubSeq(ev, 1, j)
  <2>1. j \in Nat /\ j <= n
    BY <1>1, <1>2
  <2>2. SubSeq(z, 1, j) \in Logs(S) /\ Len(SubSeq(z, 1, j)) = j /\ \A i \in 1..j : SubSeq(z, 1, j)[i] = z[i]
    BY <1>6, <2>1, SubSeqProperties DEF Logs
  <2>3. SubSeq(ev, 1, j) \in Logs(S) /\ Len(SubSeq(ev, 1, j)) = j /\ \A i \in 1..j : SubSeq(ev, 1, j)[i] = ev[i]
    BY <1>1, <2>1, SubSeqProperties DEF Logs
  <2>4. \A i \in 1..j : z[i] = ev[i]
    BY <1>1, <1>2, <1>5, <2>1
  <2>. QED BY <2>2, <2>3, <2>4, SameSeq DEF Logs
<1>8. a \in Logs(S) /\ Len(a) = p /\ \A i \in 1..p : a[i] = ev[i]
  BY <1>1, <1>2, SubSeqProperties DEF Logs
<1>9. PICK q, t : q = n - p /\ t = [i \in 1..q |-> [event |-> ev[p + i].what, failedCall |-> TRUE]]
  OBVIOUS
<1>10. q \in Nat /\ t \in Seq(Marks(S)) /\ Len(t) = q /\ (\A i \in 1..q : t[i] = [event |-> ev[p + i].what, failedCall |-> TRUE])
  <2>1. q \in Nat
    BY <1>1, <1>2, <1>9
  <2>2. \A i \in 1..q : p + i \in 1..n
    BY <1>1, <1>2, <1>9
  <2>3. \A i \in 1..q : ev[p + i].what \in S
    BY <1>3, <2>2 DEF Event
  <2>4. t \in [1..q -> Marks(S)]
    BY <1>9, <2>3 DEF Marks
  <2>5. t \in Seq(Marks(S)) /\ Len(t) = q
    BY <2>1, <2>4
  <2>6. \A i \in 1..q : t[i] = [event |-> ev[p + i].what, failedCall |-> TRUE]
    BY <1>9
  <2>. QED BY <2>1, <2>5, <2>6
<1>11. Ext(a) \in Seq(Marks(S)) /\ Len(Ext(a)) = p /\ \A i \in 1..p : Ext(a)[i] = [event |-> a[i].what, failedCall |-> a[i].failed]
  BY <1>8, ExtIs
<1>12. Ext(z) \in Seq(Marks(S)) /\ Len(Ext(z)) = n /\ \A i \in 1..n : Ext(z)[i] = [event |-> z[i].what, failedCall |-> z[i].failed]
  BY <1>6, ExtIs
<1>13. Ext(z) = Ext(a) \o t
  <2>1. PICK c : c = Ext(a) \o t
    OBVIOUS
  <2>2. c \in Seq(Marks(S)) /\ Len(c) = p + q /\ (\A i \in 1..p : c[i] = Ext(a)[i]) /\ (\A i \in 1..q : c[p + i] = t[i])
    <3>1. PICK x : x = Ext(a)
      OBVIOUS
    <3>2. x \in Seq(Marks(S)) /\ t \in Seq(Marks(S)) /\ Len(x) = p /\ Len(t) = q /\ c = x \o t /\ p \in Nat /\ q \in Nat
      BY <1>2, <1>10, <1>11, <2>1, <3>1
    <3>3. /\ c \in Seq(Marks(S)) /\ Len(c) = p + q /\ (\A i \in 1..p : c[i] = x[i])
          /\ \A i \in 1..q : c[p + i] = t[i]
      <4>1. /\ x \o t \in Seq(Marks(S)) /\ Len(x \o t) = Len(x) + Len(t)
            /\ \A i \in 1..(Len(x) + Len(t)) : (x \o t)[i] = IF i <= Len(x) THEN x[i] ELSE t[i - Len(x)]
        BY ONLY <3>2, ConcatProperties
      <4>2. \A i \in 1..(p + q) : c[i] = IF i <= p THEN x[i] ELSE t[i - p]
        BY ONLY <3>2, <4>1
      <4>3. \A i \in 1..p : i \in 1..(p + q) /\ i <= p
        BY <3>2
      <4>4. \A i \in 1..q : p + i \in 1..(p + q) /\ ~(p + i <= p) /\ (p + i) - p = i
        BY <3>2
      <4>. QED BY ONLY <3>2, <4>1, <4>2, <4>3, <4>4
    <3>. QED BY <3>1, <3>3
  <2>3. ASSUME NEW i \in 1..n PROVE Ext(z)[i] = c[i]
    <3>1. CASE i <= p
      <4>1. i \in 1..p /\ ~(i > p)
        BY <1>2, <3>1
      <4>2. z[i] = a[i]
        BY <1>5, <1>8, <4>1
      <4>. QED BY <1>11, <1>12, <2>2, <4>1, <4>2
    <3>2. CASE ~(i <= p)
      <4>1. PICK j : j = i - p
        OBVIOUS
      <4>2. j \in 1..q /\ i = p + j /\ i > p
        BY <1>1, <1>2, <1>9, <3>2, <4>1
      <4>3. z[i].what = ev[i].what /\ z[i].failed = TRUE
        BY <1>5, <4>2
      <4>4. Ext(z)[i] = [event |-> ev[i].what, failedCall |-> TRUE]
        BY <1>12, <4>3
      <4>. QED BY <1>10, <2>2, <4>2, <4>4
    <3>. QED BY <3>1, <3>2
  <2>4. Len(c) = n
    BY <1>1, <1>2, <1>9, <2>2
  <2>. QED BY <1>12, <2>1, <2>2, <2>3, <2>4, SameSeq
<1>14. Kept(t, Survivors(S)) = <<>>
  <2>1. ASSUME NEW i \in 1..Len(t) PROVE t[i] \notin Survivors(S)
    <3>1. PICK w : t[i] = [event |-> w, failedCall |-> TRUE]
      BY <1>10
    <3>2. PICK y : y = [event |-> w, failedCall |-> TRUE]
      OBVIOUS
    <3>3. y \in Survivors(S) => y.failedCall \in {FALSE}
      BY DEF Survivors
    <3>. QED BY <3>1, <3>2, <3>3
  <2>. QED BY <1>10, <2>1, KeptNone
<1>15. PICK k : k = Kept(Ext(a), Survivors(S)) /\ k \in Seq(Marks(S))
  BY <1>11, KeptFrom
<1>16. Kept(Ext(z), Survivors(S)) = k
  <2>3. Ext(a) \in Seq(Marks(S)) /\ t \in Seq(Marks(S))
    BY <1>10, <1>11
  <2>4. Kept(Ext(a) \o t, Survivors(S)) = Kept(Ext(a), Survivors(S)) \o Kept(t, Survivors(S))
    BY ONLY <2>3, KeptConcat
  <2>1. Kept(Ext(a) \o t, Survivors(S)) = k \o <<>>
    BY <1>14, <1>15, <2>4
  <2>2. k \o <<>> = k
    BY <1>15, ConcatEmptySeq
  <2>. QED BY <1>13, <2>1, <2>2
<1>17. Living(z) = Living(a)
  BY <1>6, <1>8, <1>15, <1>16, LivingIs
<1>. QED BY <1>1, <1>6, <1>7, <1>17

\* Nothing is left of no event.
LEMMA LivingNone == <<>> \in Logs({}) /\ Living(<<>>) = <<>>
<1>1. PICK e : e = <<>>
  OBVIOUS
<1>2. e \in Logs({}) /\ Len(e) = 0
  BY <1>1 DEF Logs
<1>3. Ext(e) \in Seq(Marks({})) /\ Len(Ext(e)) = 0
  BY <1>2, ExtIs
<1>4. Kept(Ext(e), Survivors({})) = <<>>
  <2>1. \A i \in 1..Len(Ext(e)) : Ext(e)[i] \notin Survivors({})
    BY <1>3
  <2>. QED BY <1>3, <2>1, KeptNone
<1>5. Names(<<>>) = <<>>
  BY DEF Names
<1>. QED BY <1>1, <1>2, <1>4, <1>5, LivingIs

-----------------------------------------------------------------------------
(* What host functions do to the storage of the recording host             *)

\* What a map has for the keys of the ledger, those it does not hold included.
Stored(m) == Full(Snapshot, m)
\* Nothing changes but the footprint and what is cached; one key changes.
Keeps(h, g) == Stored(g.map) = Stored(h.map) /\ g.frames = h.frames /\ g.events = h.events
SetsTo(h, g, k, o) == Stored(g.map) = [Stored(h.map) EXCEPT ![k] = o] /\ g.frames = h.frames /\ g.events = h.events

\* It has the cached entry, and for other keys that of the ledger.
LEMMA StoredIs ==
    ASSUME NEW m
    PROVE  /\ DOMAIN Stored(m) = LedgerKeys /\ Stored(m) = [k \in LedgerKeys |-> Stored(m)[k]]
           /\ \A k \in LedgerKeys : Stored(m)[k] = IF k \in DOMAIN m THEN m[k] ELSE Snapshot[k]
BY DEF Stored, Full, LedgerKeys

\* It is determined by its entries.
LEMMA StoredSame ==
    ASSUME NEW m, NEW n, \A k \in LedgerKeys : Stored(n)[k] = Stored(m)[k]
    PROVE  Stored(n) = Stored(m)
BY StoredIs

\* A map that differs in one key.
LEMMA StoredSet ==
    ASSUME NEW m, NEW n, NEW k \in LedgerKeys, k \in DOMAIN n, NEW o, n[k] = o,
           \A j \in LedgerKeys : j # k => ((j \in DOMAIN n <=> j \in DOMAIN m) /\ (j \in DOMAIN m => n[j] = m[j]))
    PROVE  Stored(n) = [Stored(m) EXCEPT ![k] = o]
<1>1. PICK s, t : s = Stored(m) /\ t = Stored(n)
  OBVIOUS
<1>2. s = [j \in LedgerKeys |-> s[j]] /\ t = [j \in LedgerKeys |-> t[j]]
  BY <1>1, StoredIs
<1>3. \A j \in LedgerKeys : t[j] = IF j = k THEN o ELSE s[j]
  BY <1>1, StoredIs
<1>. QED BY <1>1, <1>2, <1>3

\* It has entries.
LEMMA StoredOK == ASSUME NEW m, MapOK(m), NEW k \in LedgerKeys PROVE IsEntry(k, Stored(m)[k])
<1>1. Stored(m)[k] = IF k \in DOMAIN m THEN m[k] ELSE Snapshot[k]
  BY StoredIs
<1>2. CASE k \in DOMAIN m
  BY <1>1, <1>2 DEF MapOK
<1>3. CASE k \notin DOMAIN m
  BY <1>1, <1>3, LedgerAssumption
<1>. QED BY <1>2, <1>3

\* has() caches and records, and what is stored stays.
LEMMA HasKeeps ==
    ASSUME NEW h, RecOK(h), NEW k \in LedgerKeys, NEW R, R = Has(h, k)
    PROVE  RecOK(R.h) /\ R.out = "ok" /\ Keeps(h, R.h) /\ k \in DOMAIN R.h.map /\ R.h.map[k] = Stored(h.map)[k]
<1>1. PICK D : FpOK(D)
  BY DEF RecOK
<1>2. /\ Sim(D, h, R, Has(Replay(D, h), k))
      /\ R.out = "ok" /\ k \in DOMAIN R.h.map /\ R.h.frames = h.frames /\ R.h.events = h.events
      /\ R.h.map[k] = (IF k \in DOMAIN h.map THEN h.map[k] ELSE Snapshot[k])
      /\ \A j : j # k => ((j \in DOMAIN R.h.map <=> j \in DOMAIN h.map) /\ (j \in DOMAIN h.map => R.h.map[j] = h.map[j]))
  BY <1>1, HasSim
<1>3. RecOK(R.h)
  BY <1>2 DEF Sim, RecStep
<1>4. R.h.map[k] = Stored(h.map)[k]
  BY <1>2, StoredIs
<1>5. Stored(R.h.map) = Stored(h.map)
  <2>1. PICK m, n : m = h.map /\ n = R.h.map
    OBVIOUS
  <2>2. \A j \in LedgerKeys : Stored(n)[j] = Stored(m)[j]
    BY <1>2, <1>4, <2>1, StoredIs
  <2>. QED BY <2>1, <2>2, StoredSame
<1>. QED BY <1>2, <1>3, <1>4, <1>5 DEF Keeps

\* So does get(), which fails for a key that has no entry.
LEMMA GetKeeps ==
    ASSUME NEW h, RecOK(h), NEW k \in LedgerKeys, NEW R, R = GetEntry(h, k)
    PROVE  /\ RecOK(R.h) /\ Keeps(h, R.h) /\ k \in DOMAIN R.h.map /\ R.h.map[k] = Stored(h.map)[k]
           /\ R.out = (IF Stored(h.map)[k] = None THEN "fail" ELSE "ok")
<1>1. PICK P : P = Has(h, k)
  OBVIOUS
<1>2. RecOK(P.h) /\ P.out = "ok" /\ Keeps(h, P.h) /\ k \in DOMAIN P.h.map /\ P.h.map[k] = Stored(h.map)[k]
  BY <1>1, HasKeeps
<1>3. R = IF P.h.map[k] = None THEN Fail(P.h) ELSE Ok(P.h)
  BY <1>1, <1>2 DEF GetEntry, Then
<1>4. R.h = P.h /\ R.out = IF P.h.map[k] = None THEN "fail" ELSE "ok"
  BY <1>3 DEF Fail, Ok
<1>. QED BY <1>2, <1>4

\* put() sets one key.
LEMMA PutSets ==
    ASSUME NEW h, RecOK(h), NEW k \in LedgerKeys, NEW opt, IsEntry(k, opt), k[1] = "instance" => opt # None,
           NEW R, R = PutOpt(h, k, opt)
    PROVE  RecOK(R.h) /\ R.out = "ok" /\ SetsTo(h, R.h, k, opt)
<1>1. PICK D : FpOK(D)
  BY DEF RecOK
<1>2. /\ Sim(D, h, R, PutOpt(Replay(D, h), k, opt)) /\ R.out = "ok"
      /\ R.h.frames = h.frames /\ R.h.events = h.events /\ R.h.map = SetAt(h.map, k, opt)
  BY <1>1, PutSim
<1>3. RecOK(R.h)
  BY <1>2 DEF Sim, RecStep
<1>4. PICK m, n : m = h.map /\ n = R.h.map
  OBVIOUS
<1>5. k \in DOMAIN n /\ n[k] = opt
      /\ \A j \in LedgerKeys : j # k => ((j \in DOMAIN n <=> j \in DOMAIN m) /\ (j \in DOMAIN m => n[j] = m[j]))
  BY <1>2, <1>4 DEF SetAt
<1>6. Stored(n) = [Stored(m) EXCEPT ![k] = opt]
  BY <1>5, StoredSet
<1>. QED BY <1>2, <1>3, <1>4, <1>6 DEF SetsTo

\* Keeping and then setting; setting and then keeping.
LEMMA KeepsThen ==
    ASSUME NEW h, NEW g, NEW x, Keeps(h, g)
    PROVE  /\ Keeps(g, x) => Keeps(h, x)
           /\ \A k, o : SetsTo(g, x, k, o) => SetsTo(h, x, k, o)
BY DEF Keeps, SetsTo

\* The life of an entry becomes n.
WithLife(o, n) == <<[val |-> o[1].val, live |-> n]>>
\* The life of a cached entry is assigned.
LEMMA LiveSets ==
    ASSUME NEW h, RecOK(h), NEW k \in LedgerKeys, k \in DOMAIN h.map, NEW o, h.map[k] = o, o # None,
           NEW n \in Int, n >= Seq0, NEW g, g = Live(h, k, n)
    PROVE  RecOK(g) /\ SetsTo(h, g, k, WithLife(o, n))
<1>1. PICK D : FpOK(D)
  BY DEF RecOK
<1>2. PICK R, E : R = Ok(Live(h, k, n)) /\ E = Ok(Live(Replay(D, h), k, n))
  OBVIOUS
<1>3. Sim(D, h, R, E) /\ R.out = "ok" /\ R.h.frames = h.frames /\ R.h.events = h.events
  BY <1>1, <1>2, LiveSim
<1>4. RecOK(R.h) /\ R.h = g
  BY <1>2, <1>3 DEF Sim, RecStep, Ok
<1>5. PICK v, l : EntryOf(k, o, v, l)
  BY MapEntry
<1>6. PICK fp, m, fr, ev : fp = h.fp /\ m = h.map /\ fr = h.frames /\ ev = h.events
  OBVIOUS
<1>7. h = Host("recording", fp, m, fr, ev) /\ m = [j \in DOMAIN m |-> m[j]] /\ k \in DOMAIN m
  BY <1>6 DEF RecOK, MapOK
<1>8. m[k] = <<[val |-> v, live |-> l]>> /\ o[1].val = v
  BY <1>5, <1>6 DEF EntryOf
<1>9. g = Host("recording", fp, SetAt(m, k, <<[val |-> v, live |-> n]>>), fr, ev)
  BY <1>7, <1>8, LiveSet DEF Live
<1>10. PICK w, x : w = WithLife(o, n) /\ x = g.map
  OBVIOUS
<1>11. x = SetAt(m, k, w)
  BY <1>8, <1>9, <1>10, HostFields DEF WithLife
<1>12. k \in DOMAIN x /\ x[k] = w
       /\ \A j \in LedgerKeys : j # k => ((j \in DOMAIN x <=> j \in DOMAIN m) /\ (j \in DOMAIN m => x[j] = m[j]))
  BY <1>7, <1>11 DEF SetAt
<1>13. Stored(x) = [Stored(m) EXCEPT ![k] = w]
  BY <1>12, StoredSet
<1>. QED BY <1>3, <1>4, <1>6, <1>10, <1>13 DEF SetsTo

\* The entries after an extension.
Cap(ext) == IF Seq0 + ext > MaxLiveUntil THEN MaxLiveUntil ELSE Seq0 + ext
IsDue(o, th, ext) == ~(o[1].live > Seq0 + th) /\ ~(Cap(ext) < o[1].live)
Extended(s, k, th, ext) == IF IsDue(s[k], th, ext) THEN [s EXCEPT ![k] = WithLife(s[k], Cap(ext))] ELSE s
Extends(h, g, k, th, ext) ==
    /\ Stored(h.map)[k] # None /\ Stored(g.map) = Extended(Stored(h.map), k, th, ext)
    /\ g.frames = h.frames /\ g.events = h.events
\* extend_ttl() extends an entry that is there.
LEMMA ExtendTtlExtends ==
    ASSUME NEW h, RecOK(h), NEW k \in LedgerKeys, NEW th \in Nat, NEW ext \in Nat, NEW R, R = ExtendTtl(h, k, th, ext)
    PROVE  /\ RecOK(R.h) /\ R.out \in {"ok", "fail"} /\ R.h.frames = h.frames /\ R.h.events = h.events
           /\ R.out = "ok" => Extends(h, R.h, k, th, ext)
<1>1. PICK D : FpOK(D)
  BY DEF RecOK
<1>2. Sim(D, h, R, ExtendTtl(Replay(D, h), k, th, ext)) /\ R.h.frames = h.frames /\ R.h.events = h.events
  BY <1>1, ExtendTtlSim
<1>3. RecOK(R.h) /\ R.out \in {"ok", "fail"}
  BY <1>2 DEF Sim, RecStep
<1>4. ASSUME R.out = "ok" PROVE Extends(h, R.h, k, th, ext)
  <2>1. ~(th > ext)
    BY <1>4 DEF ExtendTtl, Fail
  <2>2. PICK P : P = GetEntry(h, k)
    OBVIOUS
  <2>3. /\ RecOK(P.h) /\ Keeps(h, P.h) /\ k \in DOMAIN P.h.map /\ P.h.map[k] = Stored(h.map)[k]
        /\ P.out = (IF Stored(h.map)[k] = None THEN "fail" ELSE "ok")
    BY <2>2, GetKeeps
  <2>4. P.out = "ok" /\ Stored(h.map)[k] # None
    <3>1. P.out # "ok" => R = P
      BY <2>1, <2>2 DEF ExtendTtl, Then
    <3>. QED BY <1>4, <2>3, <3>1
  <2>5. PICK s, o, g, n : s = Stored(h.map) /\ o = s[k] /\ g = P.h /\ n = Cap(ext)
    OBVIOUS
  <2>6. PICK v, l : EntryOf(k, o, v, l)
    BY <2>3, <2>4, <2>5, MapEntry
  <2>7. o[1].live = l /\ l \in Int /\ l >= Seq0 /\ o[1].val = v /\ o = <<[val |-> v, live |-> l]>> /\ o # None
    BY <2>6 DEF EntryOf
  <2>8. R = IF n > l /\ l - Seq0 <= th THEN Ok(Live(g, k, n)) ELSE Ok(g)
    <3>1. g.map[k][1].live = l /\ ~(l < Seq0)
      BY <2>3, <2>5, <2>7, LedgerAssumption
    <3>2. PICK late : late = (Seq0 + ext > MaxLiveUntil /\ IsTemporary(k))
      OBVIOUS
    <3>3. R = IF late THEN Fail(g) ELSE IF n > l /\ l - Seq0 <= th THEN Ok(Live(g, k, n)) ELSE Ok(g)
      BY <2>1, <2>2, <2>4, <2>5, <3>1, <3>2 DEF ExtendTtl, Then, Live, Cap
    <3>4. ~late
      BY <1>4, <3>3 DEF Fail
    <3>. QED BY <3>3, <3>4
  <2>9. n \in Int /\ Seq0 \in Int
    BY <2>5, LedgerAssumption DEF Cap, MaxLiveUntil
  <2>10. IsDue(o, th, ext) <=> l - Seq0 <= th /\ n >= l
    BY <2>5, <2>7, <2>9 DEF IsDue
  <2>11. s = [j \in LedgerKeys |-> s[j]]
    BY <2>5, StoredIs
  <2>12. CASE n > l /\ l - Seq0 <= th
    <3>1. R.h = Live(g, k, n)
      BY <2>8, <2>12 DEF Ok
    <3>2. n >= Seq0
      BY <2>7, <2>9, <2>12, LedgerAssumption
    <3>3. SetsTo(g, R.h, k, WithLife(o, n))
      BY <2>3, <2>5, <2>7, <2>9, <3>1, <3>2, LiveSets
    <3>4. Stored(R.h.map) = [s EXCEPT ![k] = WithLife(o, n)]
      BY <2>3, <2>5, <3>3 DEF SetsTo, Keeps
    <3>5. IsDue(o, th, ext)
      BY <2>7, <2>9, <2>10, <2>12
    <3>6. Extended(s, k, th, ext) = [s EXCEPT ![k] = WithLife(o, n)]
      BY <2>5, <3>5 DEF Extended
    <3>. QED BY <1>2, <2>4, <2>5, <3>4, <3>6 DEF Extends
  <2>13. CASE ~(n > l /\ l - Seq0 <= th)
    <3>1. Stored(R.h.map) = s
      BY <2>3, <2>5, <2>8, <2>13 DEF Ok, Keeps
    <3>2. Extended(s, k, th, ext) = s
      <4>1. CASE IsDue(o, th, ext)
        <5>1. n = l
          BY <2>7, <2>9, <2>10, <2>13, <4>1
        <5>2. WithLife(o, n) = o
          BY <2>7, <5>1 DEF WithLife
        <5>. QED BY <2>5, <2>11, <4>1, <5>2 DEF Extended
      <4>2. CASE ~IsDue(o, th, ext)
        BY <2>5, <4>2 DEF Extended
      <4>. QED BY <4>1, <4>2
    <3>. QED BY <1>2, <2>4, <2>5, <3>1, <3>2 DEF Extends
  <2>. QED BY <2>12, <2>13
<1>. QED BY <1>2, <1>3, <1>4

\* put_contract_data_into_ledger().
DataEntry(s, k, v) == <<[val |-> <<v>>, live |-> LifeOf(s, k)]>>
\* It sets the key, keeping the life of an entry that was there.
LEMMA PutDataSets ==
    ASSUME NEW h, RecOK(h), NEW k \in LedgerKeys, k[1] # "instance", NEW v, NEW R, R = PutData(h, k, v)
    PROVE  /\ RecOK(R.h) /\ R.out = "ok" /\ SetsTo(h, R.h, k, DataEntry(Stored(h.map), k, v))
           /\ IsEntry(k, DataEntry(Stored(h.map), k, v))
<1>1. PICK P, o : P = Has(h, k) /\ o = DataEntry(Stored(h.map), k, v)
  OBVIOUS
<1>2. RecOK(P.h) /\ P.out = "ok" /\ Keeps(h, P.h) /\ k \in DOMAIN P.h.map /\ P.h.map[k] = Stored(h.map)[k]
  BY <1>1, HasKeeps
<1>3. PICK l : l = LifeOf(P.h.map, k)
  OBVIOUS
<1>4. o = <<[val |-> <<v>>, live |-> l]>>
  BY <1>1, <1>2, <1>3 DEF DataEntry, LifeOf
<1>5. IsEntry(k, o)
  <2>1. l \in Int /\ l >= Seq0
    BY <1>2, <1>3, LifeOK
  <2>. QED BY <1>4, <2>1, EntryMade
<1>6. R = PutOpt(P.h, k, o)
  BY <1>1, <1>2, <1>3, <1>4 DEF PutData, Then, LifeOf
<1>7. RecOK(R.h) /\ R.out = "ok" /\ SetsTo(P.h, R.h, k, o)
  BY <1>2, <1>5, <1>6, PutSets
<1>. QED BY <1>1, <1>2, <1>5, <1>7, KeepsThen

\* upload_contract_wasm().
IsRefined(s, k) == s[k] # None /\ s[k][1].val = <<"refined">>
Refined(k) == <<[val |-> <<"refined">>, live |-> MinLiveUntil(k)]>>
\* Code that is refined stays, other code is written with a life that begins now.
LEMMA UploadSets ==
    ASSUME NEW h, RecOK(h), NEW w, NEW k \in LedgerKeys, k = CodeKey(w), NEW R, R = Upload(h, w)
    PROVE  /\ RecOK(R.h) /\ R.out = "ok" /\ IsEntry(k, Refined(k))
           /\ IF IsRefined(Stored(h.map), k) THEN Keeps(h, R.h) ELSE SetsTo(h, R.h, k, Refined(k))
<1>1. PICK P, o, s : P = Has(h, k) /\ o = Refined(k) /\ s = Stored(h.map)
  OBVIOUS
<1>2. RecOK(P.h) /\ P.out = "ok" /\ Keeps(h, P.h) /\ k \in DOMAIN P.h.map /\ P.h.map[k] = s[k]
  BY <1>1, HasKeeps
<1>3. IsEntry(k, o) /\ k[1] # "instance"
  <2>1. MinLiveUntil(k) \in Int /\ MinLiveUntil(k) >= Seq0
    BY LedgerAssumption DEF MinLiveUntil
  <2>2. k[1] # "instance"
    BY DEF CodeKey
  <2>. QED BY <1>1, <2>1, <2>2, EntryMade DEF Refined
<1>4. R = IF IsRefined(s, k) THEN Ok(P.h) ELSE PutOpt(P.h, k, o)
  BY <1>1, <1>2 DEF Upload, Then, IsRefined, Refined
<1>5. CASE IsRefined(s, k)
  <2>1. R.h = P.h /\ R.out = "ok"
    BY <1>4, <1>5 DEF Ok
  <2>. QED BY <1>1, <1>2, <1>3, <1>5, <2>1
<1>6. CASE ~IsRefined(s, k)
  <2>1. RecOK(R.h) /\ R.out = "ok" /\ SetsTo(P.h, R.h, k, o)
    BY <1>2, <1>3, <1>4, <1>6, PutSets
  <2>2. SetsTo(h, R.h, k, o)
    BY <1>2, <2>1, KeepsThen
  <2>. QED BY <1>1, <1>3, <1>6, <2>1, <2>2
<1>. QED BY <1>5, <1>6

\* store_contract_instance(): what is written over what was stored.
Instance(e, d, l) == <<[val |-> <<e, d>>, live |-> l]>>
InstanceOver(s, k, exec, data) ==
    Instance(IF exec # None THEN exec[1] ELSE s[k][1].val[1],
             IF data # None THEN data[1] ELSE IF s[k] = None THEN None ELSE s[k][1].val[2], LifeOf(s, k))
\* It sets the instance.
LEMMA StoreInstanceSets ==
    ASSUME NEW h, RecOK(h), NEW c, NEW k \in LedgerKeys, k = InstKey(c), NEW exec, NEW data,
           exec # None => CodeKey(exec[1]) \in LedgerKeys, exec = None => Stored(h.map)[k] # None,
           NEW R, R = StoreInstance(h, c, exec, data), NEW o, o = InstanceOver(Stored(h.map), k, exec, data)
    PROVE  RecOK(R.h) /\ R.out = "ok" /\ SetsTo(h, R.h, k, o) /\ IsEntry(k, o) /\ o # None
<1>1. PICK P, s, b : P = Has(h, k) /\ s = Stored(h.map) /\ b = s[k]
  OBVIOUS
<1>2. RecOK(P.h) /\ P.out = "ok" /\ Keeps(h, P.h) /\ k \in DOMAIN P.h.map /\ P.h.map[k] = b
  BY <1>1, HasKeeps
<1>4. PICK e, d, l : /\ e = (IF exec # None THEN exec[1] ELSE b[1].val[1])
                     /\ d = (IF data # None THEN data[1] ELSE IF b = None THEN None ELSE b[1].val[2])
                     /\ l = LifeOf(P.h.map, k)
  OBVIOUS
<1>5. o = Instance(e, d, l)
  <2>1. LifeOf(s, k) = l
    BY <1>1, <1>2, <1>4 DEF LifeOf
  <2>. QED BY <1>1, <1>4, <2>1 DEF InstanceOver
<1>6. IsEntry(k, o) /\ o # None
  <2>1. l \in Int /\ l >= Seq0
    BY <1>2, <1>4, LifeOK
  <2>2. CodeKey(e) \in LedgerKeys
    <3>1. CASE exec # None
      BY <1>4, <3>1
    <3>2. CASE exec = None
      <4>1. PICK v, x : EntryOf(k, b, v, x)
        BY <1>1, <1>2, <3>2, MapEntry
      <4>2. k[1] = "instance"
        BY DEF InstKey
      <4>. QED BY <1>4, <3>2, <4>1, <4>2 DEF EntryOf
    <3>. QED BY <3>1, <3>2
  <2>3. PICK v : v = <<e, d>>
    OBVIOUS
  <2>4. v = <<v[1], v[2]>> /\ CodeKey(v[1]) \in LedgerKeys
    BY <2>2, <2>3
  <2>5. o = <<[val |-> v, live |-> l]>>
    BY <1>5, <2>3 DEF Instance
  <2>. QED BY <2>1, <2>4, <2>5, EntryMade DEF EntryOf
<1>7. R = PutOpt(P.h, k, o)
  <2>1. ~(b = None /\ exec = None)
    BY <1>1
  <2>. QED BY <1>1, <1>2, <1>4, <1>5, <2>1 DEF StoreInstance, Then, LifeOf, Instance
<1>8. RecOK(R.h) /\ R.out = "ok" /\ SetsTo(P.h, R.h, k, o)
  BY <1>2, <1>6, <1>7, PutSets
<1>9. SetsTo(h, R.h, k, o)
  BY ONLY <1>2, <1>8, KeepsThen
<1>. QED BY <1>6, <1>8, <1>9

\* create_contract_with_id().
LEMMA CreateSets ==
    ASSUME NEW h, RecOK(h), NEW c, NEW k \in LedgerKeys, k = InstKey(c), NEW w, CodeKey(w) \in LedgerKeys,
           NEW R, R = CreateWithId(h, c, w), NEW o, o = Instance(w, None, MinLiveUntil(k))
    PROVE  /\ RecOK(R.h) /\ R.out \in {"ok", "fail"}
           /\ R.out = "ok" => Stored(h.map)[k] = None /\ SetsTo(h, R.h, k, o) /\ IsEntry(k, o) /\ o # None
           /\ R.out = "fail" => Keeps(h, R.h)
<1>1. PICK P, s : P = Has(h, k) /\ s = Stored(h.map)
  OBVIOUS
<1>2. RecOK(P.h) /\ P.out = "ok" /\ Keeps(h, P.h) /\ P.h.map[k] = s[k]
  BY <1>1, HasKeeps
<1>3. PICK Q : Q = GetEntry(P.h, CodeKey(w))
  OBVIOUS
<1>4. RecOK(Q.h) /\ Keeps(P.h, Q.h) /\ Q.out \in {"ok", "fail"}
  BY <1>2, <1>3, GetKeeps
<1>5. Keeps(h, Q.h)
  BY <1>2, <1>4, KeepsThen
<1>6. PICK x, none : x = <<w>> /\ none = None
  OBVIOUS
<1>7. R = IF s[k] # None THEN Fail(P.h) ELSE IF Q.out = "ok" THEN StoreInstance(Q.h, c, x, none) ELSE Q
  BY <1>1, <1>2, <1>3, <1>6 DEF CreateWithId, Then
<1>8. CASE s[k] # None
  <2>1. R.h = P.h /\ R.out = "fail"
    BY <1>7, <1>8 DEF Fail
  <2>. QED BY <1>2, <2>1
<1>9. CASE s[k] = None /\ Q.out # "ok"
  BY <1>4, <1>5, <1>7, <1>9
<1>10. CASE s[k] = None /\ Q.out = "ok"
  <2>1. R = StoreInstance(Q.h, c, x, none) /\ x # None /\ x[1] = w
    BY <1>6, <1>7, <1>10 DEF None
  <2>2. Stored(Q.h.map) = s
    BY <1>1, <1>5 DEF Keeps
  <2>3. PICK p : p = InstanceOver(Stored(Q.h.map), k, x, none)
    OBVIOUS
  <2>4. RecOK(R.h) /\ R.out = "ok" /\ SetsTo(Q.h, R.h, k, p) /\ IsEntry(k, p) /\ p # None
    BY <1>4, <2>1, <2>3, StoreInstanceSets
  <2>5. p = o
    BY <1>6, <1>10, <2>1, <2>2, <2>3 DEF InstanceOver, LifeOf
  <2>6. SetsTo(h, R.h, k, o)
    BY <1>5, <2>4, <2>5, KeepsThen
  <2>. QED BY <1>1, <1>10, <2>4, <2>5, <2>6
<1>. QED BY <1>8, <1>9, <1>10

\* update_current_contract_wasm(): an event, and the instance with other code.
WithCode(o, w) == <<[val |-> <<w, o[1].val[2]>>, live |-> o[1].live]>>
Updates(h, g, k, w) ==
    /\ Stored(h.map)[k] # None /\ Stored(g.map) = [Stored(h.map) EXCEPT ![k] = WithCode(Stored(h.map)[k], w)]
    /\ IsEntry(k, WithCode(Stored(h.map)[k], w))
    /\ g.frames = h.frames /\ g.events = Append(h.events, [what |-> <<"update", w>>, failed |-> FALSE])
\* It updates an instance that is there, or fails and keeps what is stored.
LEMMA UpdateSets ==
    ASSUME NEW h, RecOK(h), NEW c, c = Last(h.frames).c, NEW k \in LedgerKeys, k = InstKey(c),
           NEW w, CodeKey(w) \in LedgerKeys, NEW R, R = UpdateWasm(h, w)
    PROVE  /\ RecOK(R.h) /\ R.out \in {"ok", "fail"}
           /\ R.out = "ok" => Updates(h, R.h, k, w)
           /\ R.out = "fail" => Keeps(h, R.h)
<1>1. PICK P, Q, s, b : P = GetEntry(h, CodeKey(w)) /\ Q = GetEntry(P.h, k) /\ s = Stored(h.map) /\ b = s[k]
  OBVIOUS
<1>2. RecOK(P.h) /\ Keeps(h, P.h) /\ P.out \in {"ok", "fail"}
  BY <1>1, GetKeeps
<1>3. RecOK(Q.h) /\ Keeps(P.h, Q.h) /\ Q.out = (IF s[k] = None THEN "fail" ELSE "ok")
  BY <1>1, <1>2, GetKeeps DEF Keeps
<1>4. Keeps(h, Q.h)
  BY <1>2, <1>3, KeepsThen
<1>5. PICK x, none, e, g, E : /\ x = <<w>> /\ none = None /\ e = <<"update", w>> /\ g = RecordEvent(Q.h, e)
                              /\ E = Ok(g)
  OBVIOUS
<1>6. R = IF P.out # "ok" THEN P ELSE IF Q.out # "ok" THEN Q ELSE StoreInstance(g, c, x, none)
  BY <1>1, <1>5 DEF UpdateWasm, Then, RetrieveInstance
<1>7. CASE P.out # "ok"
  BY <1>2, <1>6, <1>7
<1>8. CASE P.out = "ok" /\ Q.out # "ok"
  BY <1>3, <1>4, <1>6, <1>8
<1>9. CASE P.out = "ok" /\ Q.out = "ok"
  <2>1. R = StoreInstance(g, c, x, none) /\ x # None /\ x[1] = w /\ b # None
    BY <1>1, <1>3, <1>5, <1>6, <1>9 DEF None
  <2>2. RecOK(g) /\ g.map = Q.h.map /\ g.frames = Q.h.frames
    <3>1. PICK D : FpOK(D)
      BY DEF RecOK
    <3>2. Sim(D, Q.h, E, Ok(RecordEvent(Replay(D, Q.h), e))) /\ E.h.map = Q.h.map /\ E.h.frames = Q.h.frames
      BY <1>3, <1>5, <3>1, EventSim
    <3>3. RecOK(E.h) /\ E.h = g
      BY <1>5, <3>2 DEF Sim, RecStep, Ok
    <3>. QED BY <3>2, <3>3
  <2>3. g.events = Append(Q.h.events, [what |-> e, failed |-> FALSE])
    <3>1. PICK q, fp, m, fr, ev, a : /\ q = Q.h /\ fp = q.fp /\ m = q.map /\ fr = q.frames /\ ev = q.events
                                     /\ a = Append(ev, [what |-> e, failed |-> FALSE])
      OBVIOUS
    <3>2. q = Host("recording", fp, m, fr, ev)
      BY <1>3, <3>1 DEF RecOK
    <3>3. g = [q EXCEPT !.events = a]
      BY <1>5, <3>1 DEF RecordEvent
    <3>4. g = Host("recording", fp, m, fr, a)
      BY <3>2, <3>3, HostFields
    <3>5. g.events = a
      BY <3>4, HostFields
    <3>. QED BY <3>1, <3>5
  <2>4. Stored(g.map) = s /\ g.frames = h.frames /\ Q.h.events = h.events
    BY <1>1, <1>4, <2>2 DEF Keeps
  <2>5. PICK o : o = InstanceOver(Stored(g.map), k, x, none)
    OBVIOUS
  <2>6. RecOK(R.h) /\ R.out = "ok" /\ SetsTo(g, R.h, k, o) /\ IsEntry(k, o)
    BY <2>1, <2>2, <2>5, StoreInstanceSets
  <2>7. o = WithCode(b, w)
    <3>1. x # None /\ x[1] = w /\ none = None /\ s[k] = b /\ b # None
      BY <1>1, <1>5, <2>1
    <3>2. InstanceOver(s, k, x, none) = Instance(w, b[1].val[2], b[1].live)
      BY ONLY <3>1 DEF InstanceOver, LifeOf
    <3>. QED BY <2>4, <2>5, <3>2 DEF Instance, WithCode
  <2>8. R.h.frames = h.frames /\ R.h.events = g.events /\ Stored(R.h.map) = [s EXCEPT ![k] = o]
    BY <2>4, <2>6 DEF SetsTo
  <2>. QED BY <1>1, <1>5, <2>1, <2>3, <2>4, <2>6, <2>7, <2>8 DEF Updates
<1>. QED BY <1>7, <1>8, <1>9

\* extend_contract_code_ttl(): of the code the stored instance names.
CodeOf(s, c) == CodeKey(s[InstKey(c)][1].val[1])
\* It is a key of the ledger.
LEMMA CodeOfOK ==
    ASSUME NEW s, NEW c, NEW k, k = InstKey(c), IsEntry(k, s[k]), s[k] # None
    PROVE  CodeOf(s, c) \in LedgerKeys
BY DEF CodeOf, IsEntry, InstKey

\* It extends that code.
LEMMA ExtendCodeExtends ==
    ASSUME NEW h, RecOK(h), NEW c, NEW k \in LedgerKeys, k = InstKey(c), NEW th \in Nat, NEW ext \in Nat,
           NEW R, R = ExtendCode(h, c, th, ext), NEW j, j = CodeOf(Stored(h.map), c)
    PROVE  /\ RecOK(R.h) /\ R.out \in {"ok", "fail"} /\ R.h.frames = h.frames /\ R.h.events = h.events
           /\ R.out = "ok" => Stored(h.map)[k] # None /\ j \in LedgerKeys /\ Extends(h, R.h, j, th, ext)
<1>1. PICK P : P = GetEntry(h, k)
  OBVIOUS
<1>2. /\ RecOK(P.h) /\ Keeps(h, P.h) /\ P.h.map[k] = Stored(h.map)[k]
      /\ P.out = (IF Stored(h.map)[k] = None THEN "fail" ELSE "ok")
  BY <1>1, GetKeeps
<1>3. CASE P.out # "ok"
  <2>1. R = P
    BY <1>1, <1>3 DEF ExtendCode, RetrieveInstance, Then
  <2>. QED BY <1>2, <1>3, <2>1 DEF Keeps
<1>4. CASE P.out = "ok"
  <2>1. R = ExtendTtl(P.h, j, th, ext)
    BY <1>1, <1>2, <1>4 DEF ExtendCode, RetrieveInstance, Then, CodeOf
  <2>2. Stored(h.map)[k] # None
    BY <1>2, <1>4
  <2>3. j \in LedgerKeys
    <3>1. MapOK(h.map)
      BY DEF RecOK
    <3>2. IsEntry(k, Stored(h.map)[k])
      BY <3>1, StoredOK
    <3>. QED BY <2>2, <3>2, CodeOfOK
  <2>4. /\ RecOK(R.h) /\ R.out \in {"ok", "fail"} /\ R.h.frames = P.h.frames /\ R.h.events = P.h.events
        /\ R.out = "ok" => Extends(P.h, R.h, j, th, ext)
    <3>1. RecOK(P.h)
      BY <1>2
    <3>. QED BY ONLY <2>1, <2>3, <3>1, th \in Nat, ext \in Nat, ExtendTtlExtends
  <2>5. R.out = "ok" => Extends(h, R.h, j, th, ext)
    BY <1>2, <2>4 DEF Extends, Keeps
  <2>. QED BY <1>2, <2>2, <2>3, <2>4, <2>5 DEF Keeps
<1>. QED BY <1>3, <1>4

\* extend_contract_instance_and_code_ttl(): the instance, then its code.
ExtendsBoth(h, g, c, th, ext) ==
    LET k == InstKey(c)
        s == Extended(Stored(h.map), k, th, ext)
        j == CodeOf(s, c)
    IN  /\ Stored(h.map)[k] # None /\ s[k] # None /\ j \in LedgerKeys /\ s[j] # None
        /\ Stored(g.map) = Extended(s, j, th, ext) /\ g.frames = h.frames /\ g.events = h.events
\* It extends both.
LEMMA ExtendBothExtends ==
    ASSUME NEW h, RecOK(h), NEW c, NEW k \in LedgerKeys, k = InstKey(c), NEW th \in Nat, NEW ext \in Nat,
           NEW R, R = ExtendInstanceAndCode(h, c, th, ext)
    PROVE  /\ RecOK(R.h) /\ R.out \in {"ok", "fail"} /\ R.h.frames = h.frames /\ R.h.events = h.events
           /\ R.out = "ok" => ExtendsBoth(h, R.h, c, th, ext)
<1>1. PICK P, s, j : P = ExtendTtl(h, k, th, ext) /\ s = Stored(P.h.map) /\ j = CodeOf(s, c)
  OBVIOUS
<1>2. /\ RecOK(P.h) /\ P.out \in {"ok", "fail"} /\ P.h.frames = h.frames /\ P.h.events = h.events
      /\ P.out = "ok" => Extends(h, P.h, k, th, ext)
  BY ONLY RecOK(h), k \in LedgerKeys, th \in Nat, ext \in Nat, <1>1, ExtendTtlExtends
<1>3. CASE P.out # "ok"
  <2>1. R = P
    BY <1>1, <1>3 DEF ExtendInstanceAndCode, Then
  <2>. QED BY <1>2, <1>3, <2>1
<1>4. CASE P.out = "ok"
  <2>1. R = ExtendCode(P.h, c, th, ext)
    BY <1>1, <1>4 DEF ExtendInstanceAndCode, Then
  <2>2. /\ RecOK(R.h) /\ R.out \in {"ok", "fail"} /\ R.h.frames = P.h.frames /\ R.h.events = P.h.events
        /\ R.out = "ok" => s[k] # None /\ j \in LedgerKeys /\ Extends(P.h, R.h, j, th, ext)
    <3>1. PICK g : g = P.h
      OBVIOUS
    <3>2. RecOK(g) /\ k \in LedgerKeys /\ k = InstKey(c) /\ th \in Nat /\ ext \in Nat /\ R = ExtendCode(g, c, th, ext)
          /\ j = CodeOf(Stored(g.map), c) /\ s = Stored(g.map)
      BY <1>1, <1>2, <2>1, <3>1
    <3>3. /\ RecOK(R.h) /\ R.out \in {"ok", "fail"} /\ R.h.frames = g.frames /\ R.h.events = g.events
          /\ R.out = "ok" => Stored(g.map)[k] # None /\ j \in LedgerKeys /\ Extends(g, R.h, j, th, ext)
      BY ONLY <3>2, ExtendCodeExtends
    <3>. QED BY ONLY <3>1, <3>2, <3>3
  <2>3. s = Extended(Stored(h.map), k, th, ext) /\ Stored(h.map)[k] # None
    BY <1>1, <1>2, <1>4 DEF Extends
  <2>4. ASSUME R.out = "ok" PROVE ExtendsBoth(h, R.h, c, th, ext)
    <3>1. s[k] # None /\ j \in LedgerKeys /\ s[j] # None /\ Stored(R.h.map) = Extended(s, j, th, ext)
          /\ R.h.frames = h.frames /\ R.h.events = h.events
      BY <1>1, <1>2, <2>2, <2>4 DEF Extends
    <3>. QED BY <1>1, <2>3, <3>1 DEF ExtendsBoth
  <2>. QED BY <1>2, <2>2, <2>4
<1>. QED BY <1>3, <1>4

\* push_context(): a frame that returns to what is stored now.
IsFresh(f, c, st, n) == f.c = c /\ f.dirty = FALSE /\ f.cache = None /\ Stored(f.map) = st /\ f.events = n
Enters(h, g, c) ==
    /\ Stored(h.map)[InstKey(c)] # None /\ Stored(g.map) = Stored(h.map) /\ g.events = h.events
    /\ \E f : IsFresh(f, c, Stored(h.map), Len(h.events)) /\ g.frames = Append(h.frames, f)
\* It pushes such a frame, or fails and keeps what is stored.
LEMMA EnterEnters ==
    ASSUME NEW h, RecOK(h), NEW c \in LContracts, NEW R, R = EnterFrame(h, c)
    PROVE  /\ RecOK(R.h) /\ R.out \in {"ok", "fail"}
           /\ R.out = "ok" => Enters(h, R.h, c)
           /\ R.out = "fail" => Keeps(h, R.h)
<1>1. PICK D : FpOK(D)
  BY DEF RecOK
<1>2. Sim(D, h, R, EnterFrame(Replay(D, h), c))
  BY <1>1, EnterSim
<1>3. RecOK(R.h) /\ R.out \in {"ok", "fail"}
  BY <1>2 DEF Sim, RecStep
<1>4. PICK k \in LedgerKeys : k = InstKey(c)
  BY LedgerAssumption
<1>5. PICK P, b, inst, j, Q : /\ P = GetEntry(h, k) /\ b = P.h.map[k] /\ inst = b[1].val /\ j = CodeKey(inst[1])
                              /\ Q = GetEntry(P.h, j)
  OBVIOUS
<1>6. /\ RecOK(P.h) /\ Keeps(h, P.h) /\ k \in DOMAIN P.h.map /\ b = Stored(h.map)[k]
      /\ P.out = (IF Stored(h.map)[k] = None THEN "fail" ELSE "ok")
  BY <1>4, <1>5, GetKeeps
<1>7. CASE P.out # "ok"
  <2>1. R = P
    BY <1>4, <1>5, <1>7 DEF EnterFrame, RetrieveInstance, Then
  <2>. QED BY <1>3, <1>6, <1>7, <2>1
<1>8. CASE P.out = "ok"
  <2>1. b # None
    BY <1>6, <1>8
  <2>2. PICK v, l : EntryOf(k, b, v, l)
    BY <1>5, <1>6, <2>1, MapEntry
  <2>3. j \in LedgerKeys
    <3>1. k[1] = "instance"
      BY <1>4 DEF InstKey
    <3>. QED BY <1>5, <2>2, <3>1 DEF EntryOf
  <2>4. RecOK(Q.h) /\ Keeps(P.h, Q.h) /\ Q.out \in {"ok", "fail"}
    BY <1>5, <1>6, <2>3, GetKeeps
  <2>5. Keeps(h, Q.h)
    BY ONLY <1>6, <2>4, KeepsThen
  <2>6. R = IF Q.out # "ok" THEN Q ELSE Ok(PushFrame(Q.h, c, inst))
    BY <1>4, <1>5, <1>8 DEF EnterFrame, RetrieveInstance, RetrieveWasm, Then, PushFrame, NewFrame
  <2>7. CASE Q.out # "ok"
    BY <1>3, <2>4, <2>5, <2>6, <2>7
  <2>8. CASE Q.out = "ok"
    <3>1. PICK q, fp, m, fr, ev, f, x : /\ q = Q.h /\ fp = q.fp /\ m = q.map /\ fr = q.frames /\ ev = q.events
                                        /\ f = NewFrame(q, c, inst) /\ x = Append(fr, f)
      OBVIOUS
    <3>2. q = Host("recording", fp, m, fr, ev)
      BY <2>4, <3>1 DEF RecOK
    <3>3. R.h = [q EXCEPT !.frames = x] /\ R.out = "ok"
      BY <2>6, <2>8, <3>1 DEF Ok, PushFrame
    <3>4. R.h = Host("recording", fp, m, x, ev)
      BY <3>2, <3>3, HostFields
    <3>5. R.h.map = m /\ R.h.frames = x /\ R.h.events = ev
      BY <3>4, HostFields
    <3>6. f.c = c /\ f.cache = None /\ f.map = m /\ f.events = Len(ev)
      BY <3>1 DEF NewFrame
    <3>7. f.dirty = FALSE
      <4>1. PICK t : t = FALSE
        OBVIOUS
      <4>2. f = [c |-> c, inst |-> inst, cache |-> None, dirty |-> t, map |-> m, events |-> Len(ev)]
        BY <3>1, <4>1 DEF NewFrame
      <4>3. f.dirty = t
        BY <4>2
      <4>. QED BY <4>1, <4>3
    <3>8. Stored(m) = Stored(h.map) /\ fr = h.frames /\ ev = h.events
      BY <2>5, <3>1 DEF Keeps
    <3>9. IsFresh(f, c, Stored(h.map), Len(h.events))
      BY <3>6, <3>7, <3>8 DEF IsFresh
    <3>10. Stored(h.map)[InstKey(c)] # None
      BY <1>4, <1>6, <2>1
    <3>11. R.h.frames = Append(h.frames, f) /\ Stored(R.h.map) = Stored(h.map) /\ R.h.events = h.events
      BY <3>1, <3>5, <3>8
    <3>12. Enters(h, R.h, c)
      BY ONLY <3>9, <3>10, <3>11 DEF Enters
    <3>. QED BY <1>3, <3>3, <3>12
  <2>. QED BY <2>7, <2>8
<1>. QED BY <1>7, <1>8

\* The host with another cache in the frame that runs, and perhaps marked.
SetFrame(h, r, n, f, x, d) ==
    RecOK(r) /\ r.map = h.map /\ r.events = h.events /\ r.frames = [h.frames EXCEPT ![n] = FrameWith(f, x, d)]
\* Both assignments to the frame that runs change nothing else.
LEMMA AssignSets ==
    ASSUME NEW h, RecOK(h), h.frames # <<>>, NEW f, f = Last(h.frames), NEW n, n = Len(h.frames), NEW x
    PROVE  SetFrame(h, SetCache(h, x), n, f, x, f.dirty) /\ SetFrame(h, SetDirty(h, x), n, f, x, TRUE)
<1>1. PICK D, e : FpOK(D) /\ e = Replay(D, h)
  BY DEF RecOK
<1>2. \E y : /\ SetCache(h, x) = y /\ RecOK(y) /\ y.map = h.map /\ y.fp = h.fp
             /\ SetCache(e, x) = Replay(D, y) /\ y.frames # <<>>
  BY <1>1, AssignSim
<1>3. \E y : /\ SetDirty(h, x) = y
             /\ SetDirty(e, x) = Replay(D, y)
             /\ RecOK(y) /\ y.map = h.map /\ y.fp = h.fp /\ y.frames # <<>>
  BY <1>1, AssignSim
<1>4. PICK fp, m, fr, ev : fp = h.fp /\ m = h.map /\ fr = h.frames /\ ev = h.events
  OBVIOUS
<1>5. h = Host("recording", fp, m, fr, ev)
  BY <1>4 DEF RecOK
<1>6. PICK S : fr \in Seq(S)
  BY <1>4 DEF RecOK, FramesOK
<1>7. n \in Nat \ {0} /\ f = fr[n] /\ FrameOK(f)
  BY <1>1, <1>4, LastFrame
<1>8. PICK c, d : c = f.cache /\ d = f.dirty
  OBVIOUS
<1>9. f = FrameWith(f, c, d)
  BY <1>7, <1>8 DEF FrameOK, FrameWith
<1>10. RunsIn(h, f, d)
  <2>1. n = Len(fr) /\ n \in Nat \ {0} /\ f = fr[n] /\ f = FrameWith(f, c, d) /\ fr \in Seq(S)
    BY <1>4, <1>6, <1>7, <1>9
  <2>. QED BY ONLY <1>5, <2>1 DEF RunsIn
<1>11. SetCache(h, x) = WithLast(h, FrameWith(f, x, d)) /\ SetDirty(h, x) = WithLast(h, FrameWith(f, x, TRUE))
  BY <1>10, FrameParts, ZenonT(40)
<1>12. ASSUME NEW g PROVE WithLast(h, g).frames = [h.frames EXCEPT ![n] = g] /\ WithLast(h, g).events = h.events
  <2>1. PICK y : y = [fr EXCEPT ![n] = g]
    OBVIOUS
  <2>2. WithLast(h, g) = [h EXCEPT !.frames = y]
    BY <1>4, <2>1 DEF WithLast
  <2>3. WithLast(h, g) = Host("recording", fp, m, y, ev)
    BY <1>5, <2>2, HostFields
  <2>. QED BY <1>4, <2>1, <2>3, HostFields
<1>13. SetCache(h, x).frames = [h.frames EXCEPT ![n] = FrameWith(f, x, d)] /\ SetCache(h, x).events = h.events
  BY <1>11, <1>12
<1>14. SetDirty(h, x).frames = [h.frames EXCEPT ![n] = FrameWith(f, x, TRUE)] /\ SetDirty(h, x).events = h.events
  BY <1>11, <1>12
<1>15. /\ RecOK(SetCache(h, x)) /\ RecOK(SetDirty(h, x)) /\ SetCache(h, x).map = h.map
       /\ SetDirty(h, x).map = h.map
  BY <1>2, <1>3, Zenon
<1>. QED BY <1>8, <1>13, <1>14, <1>15, Zenon DEF SetFrame

-----------------------------------------------------------------------------
(* What the frames, what is stored and the ideal store have in common      *)

\* An instance entry with other data; a frame that answers for a key.
WithData(o, d) == Instance(o[1].val[1], d, o[1].live)
Open(f, k) == InstKey(f.c) = k /\ f.dirty
\* The ideal entry w under k is what the first n frames and the stored entry o say, ...
Answers(fr, n, k, o, w) ==
    /\ \A i \in 1..n : Open(fr[i], k) => w = WithData(o, fr[i].cache[1])
    /\ (\A i \in 1..n : ~Open(fr[i], k)) => w = o
\* ... and of a contract that re-entered itself it has what is not in frames.
Alike(o, w) == (o = None <=> w = None) /\ (w # None => o[1].live = w[1].live /\ o[1].val[1] = w[1].val[1])
Cell(fr, n, T, k, o, w) ==
    IsEntry(k, w) /\ IsEntry(k, o) /\ Alike(o, w) /\ ((\A c \in T : k # InstKey(c)) => Answers(fr, n, k, o, w))
Level(fr, n, T, s, w) ==
    w = [k \in LedgerKeys |-> w[k]] /\ \A k \in LedgerKeys : Cell(fr, n, T, k, s[k], w[k])
\* Frames of one contract are only those of one that re-entered itself.
FramesApart(fr, n, T) ==
    /\ \A i, j \in 1..n : i # j /\ fr[i].c = fr[j].c => fr[i].c \in T
    /\ \A i \in 1..n : fr[i].dirty \in BOOLEAN /\ (fr[i].dirty => fr[i].cache # None)

\* Contracts have different instances.
LEMMA InstKeys == \A c, d : InstKey(c) = InstKey(d) => c = d
BY DEF InstKey

\* Frames that answer the same.
SameFrame(f, g) == g.c = f.c /\ g.dirty = f.dirty /\ (f.dirty => g.cache = f.cache)
\* They keep the level.
LEMMA LevelFrames ==
    ASSUME NEW fr, NEW gr, NEW n, NEW T, NEW U, T \subseteq U, NEW s, NEW w, Level(fr, n, T, s, w),
           \A i \in 1..n : SameFrame(fr[i], gr[i])
    PROVE  Level(gr, n, U, s, w)
<1>1. ASSUME NEW k \in LedgerKeys, NEW o, NEW v, Cell(fr, n, T, k, o, v) PROVE Cell(gr, n, U, k, o, v)
  <2>1. ASSUME Answers(fr, n, k, o, v) PROVE Answers(gr, n, k, o, v)
    <3>1. \A i \in 1..n : (Open(gr[i], k) <=> Open(fr[i], k)) /\ (Open(fr[i], k) => gr[i].cache = fr[i].cache)
      BY DEF SameFrame, Open
    <3>. QED BY <2>1, <3>1 DEF Answers
  <2>. QED BY <1>1, <2>1 DEF Cell
<1>. QED BY <1>1 DEF Level

\* A frame that answers for nothing comes or goes.
LEMMA LevelFrame ==
    ASSUME NEW fr, NEW n \in Nat, ~fr[n + 1].dirty, NEW T, NEW s, NEW w
    PROVE  Level(fr, n, T, s, w) <=> Level(fr, n + 1, T, s, w)
<1>1. ASSUME NEW k, NEW o, NEW v PROVE Answers(fr, n, k, o, v) <=> Answers(fr, n + 1, k, o, v)
  <2>1. 1..(n + 1) = 1..n \cup {n + 1}
    OBVIOUS
  <2>2. ~Open(fr[n + 1], k)
    BY DEF Open
  <2>. QED BY <2>1, <2>2 DEF Answers
<1>2. ASSUME NEW k, NEW o, NEW v PROVE Cell(fr, n, T, k, o, v) <=> Cell(fr, n + 1, T, k, o, v)
  BY <1>1 DEF Cell
<1>. QED BY <1>2 DEF Level

\* One key is written.
LEMMA LevelPut ==
    ASSUME NEW fr, NEW n, NEW T, NEW s, NEW w, Level(fr, n, T, s, w), s = [j \in LedgerKeys |-> s[j]],
           NEW k \in LedgerKeys, NEW o, NEW v, Cell(fr, n, T, k, o, v)
    PROVE  Level(fr, n, T, [s EXCEPT ![k] = o], [w EXCEPT ![k] = v])
BY DEF Level

\* A key that no frame answers for.
LEMMA CellPlain ==
    ASSUME NEW fr, NEW n, NEW T, NEW k, k[1] # "instance"
    PROVE  /\ \A w : IsEntry(k, w) => Cell(fr, n, T, k, w, w)
           /\ (\A c \in T : k # InstKey(c)) /\ \A o, w : Cell(fr, n, T, k, o, w) => o = w
<1>1. (\A c : k # InstKey(c)) /\ \A i : ~Open(fr[i], k)
  BY DEF InstKey, Open
<1>. QED BY <1>1 DEF Cell, Answers, Alike

\* A contract is created.
LEMMA CellNew ==
    ASSUME NEW fr, NEW n, NEW T, NEW k, NEW w, Cell(fr, n, T, k, None, w), NEW o, IsEntry(k, o)
    PROVE  Cell(fr, n, T, k, o, o)
<1>1. w = None
  BY DEF Cell, Alike
<1>2. \A x, d : WithData(x, d) # None
  BY DEF WithData, Instance, None
<1>. QED BY <1>1, <1>2 DEF Cell, Answers, Alike

\* The parts of an instance.
InstanceOf(o) == Instance(o[1].val[1], o[1].val[2], o[1].live)
\* An instance entry consists of them, and with code of the ledger and a life that is not over they are one.
LEMMA InstanceForm ==
    ASSUME NEW k, k[1] = "instance"
    PROVE  /\ \A o : IsEntry(k, o) /\ o # None => o = InstanceOf(o) /\ o[1].live \in Int /\ o[1].live >= Seq0 /\ CodeKey(o[1].val[1]) \in LedgerKeys
           /\ \A e, d, l : CodeKey(e) \in LedgerKeys /\ l \in Int /\ l >= Seq0 => IsEntry(k, Instance(e, d, l))
           /\ \A e, d, l : Instance(e, d, l) # None /\ Instance(e, d, l)[1].val[1] = e /\ Instance(e, d, l)[1].val[2] = d /\ Instance(e, d, l)[1].live = l
<1>1. ASSUME NEW o, IsEntry(k, o), o # None
      PROVE  o = InstanceOf(o) /\ o[1].live \in Int /\ o[1].live >= Seq0 /\ CodeKey(o[1].val[1]) \in LedgerKeys
  <2>1. PICK v, l : EntryOf(k, o, v, l)
    BY <1>1, EntryForm
  <2>. QED BY <2>1 DEF EntryOf, InstanceOf, Instance
<1>2. ASSUME NEW e, NEW d, NEW l \in Int, l >= Seq0, CodeKey(e) \in LedgerKeys PROVE IsEntry(k, Instance(e, d, l))
  <2>1. PICK v, o : v = <<e, d>> /\ o = <<[val |-> v, live |-> l]>>
    OBVIOUS
  <2>2. v = <<v[1], v[2]>> /\ CodeKey(v[1]) \in LedgerKeys
    BY <1>2, <2>1
  <2>. QED BY <1>2, <2>1, <2>2, EntryMade DEF Instance
<1>3. \A e, d, l : Instance(e, d, l) # None /\ Instance(e, d, l)[1].val[1] = e /\ Instance(e, d, l)[1].val[2] = d /\ Instance(e, d, l)[1].live = l
  BY DEF Instance, None
<1>. QED BY <1>1, <1>2, <1>3

\* The code or the life of an instance changes, whatever frames keep of its data.
LEMMA CellPart ==
    ASSUME NEW fr, NEW n, NEW T, NEW k, k[1] = "instance", NEW o, NEW w, Cell(fr, n, T, k, o, w), o # None, NEW e, CodeKey(e) \in LedgerKeys,
           NEW l \in Int, l >= Seq0, NEW p, p = Instance(e, o[1].val[2], l), NEW v, v = Instance(e, w[1].val[2], l)
    PROVE  Cell(fr, n, T, k, p, v)
<1>1. w # None /\ IsEntry(k, w) /\ IsEntry(k, o)
  BY DEF Cell, Alike
<1>2. IsEntry(k, p) /\ IsEntry(k, v)
  BY InstanceForm
<1>3. Alike(p, v)
  BY InstanceForm DEF Alike
<1>4. ASSUME Answers(fr, n, k, o, w) PROVE Answers(fr, n, k, p, v)
  <2>1. ASSUME NEW i \in 1..n, Open(fr[i], k) PROVE v = WithData(p, fr[i].cache[1])
    <3>1. PICK d : d = fr[i].cache[1]
      OBVIOUS
    <3>2. w = WithData(o, d)
      BY <1>4, <2>1, <3>1 DEF Answers
    <3>3. w[1].val[2] = d
      BY <3>2, InstanceForm DEF WithData
    <3>4. p[1].val[1] = e /\ p[1].live = l
      BY InstanceForm
    <3>. QED BY <3>1, <3>3, <3>4 DEF WithData
  <2>2. ASSUME \A i \in 1..n : ~Open(fr[i], k) PROVE v = p
    BY <1>4, <2>2 DEF Answers
  <2>. QED BY <2>1, <2>2 DEF Answers
<1>. QED BY <1>2, <1>3, <1>4 DEF Cell

\* The frame that runs writes the data of its instance.
LEMMA LevelWrite ==
    ASSUME NEW fr, NEW n \in Nat \ {0}, NEW T, NEW s, NEW w, Level(fr, n, T, s, w), FramesApart(fr, n, T), NEW gr, NEW c, NEW d,
           \A i \in 1..(n - 1) : gr[i] = fr[i], fr[n].c = c, gr[n].c = c, gr[n].dirty, gr[n].cache[1] = d,
           NEW k \in LedgerKeys, k = InstKey(c), s[k] # None
    PROVE  w[k] # None /\ Level(gr, n, T, s, [w EXCEPT ![k] = WithData(w[k], d)])
<1>1. PICK o, x, v : o = s[k] /\ x = w[k] /\ v = WithData(x, d)
  OBVIOUS
<1>2. k[1] = "instance"
  BY DEF InstKey
<1>3. Cell(fr, n, T, k, o, x) /\ x # None /\ IsEntry(k, x)
  BY <1>1 DEF Level, Cell, Alike
<1>4. 1..n = 1..(n - 1) \cup {n} /\ n \in 1..n
  OBVIOUS
<1>5. Cell(gr, n, T, k, o, v)
  <2>1. IsEntry(k, v) /\ IsEntry(k, o)
    BY <1>1, <1>2, <1>3, InstanceForm DEF WithData, Cell
  <2>2. v # None /\ v[1].live = x[1].live /\ v[1].val[1] = x[1].val[1]
    BY <1>1, <1>2, InstanceForm DEF WithData
  <2>3. o # None /\ o[1].live = x[1].live /\ o[1].val[1] = x[1].val[1]
    BY <1>3 DEF Cell, Alike
  <2>4. v = WithData(o, d)
    BY <1>1, <2>3 DEF WithData
  <2>5. ASSUME \A t \in T : k # InstKey(t) PROVE Answers(gr, n, k, o, v)
    <3>1. ASSUME NEW i \in 1..(n - 1) PROVE ~Open(gr[i], k)
      <4>1. i \in 1..n /\ i # n
        BY <1>4
      <4>2. fr[i].c # c
        BY <1>4, <2>5, <4>1 DEF FramesApart
      <4>. QED BY <4>2, InstKeys DEF Open
    <3>2. Open(gr[n], k)
      BY DEF Open
    <3>. QED BY <1>4, <2>4, <3>1, <3>2 DEF Answers
  <2>. QED BY <2>1, <2>2, <2>3, <2>5 DEF Cell, Alike
<1>6. ASSUME NEW j \in LedgerKeys, j # k, NEW a, NEW b, Cell(fr, n, T, j, a, b) PROVE Cell(gr, n, T, j, a, b)
  <2>1. \A i \in 1..n : (Open(gr[i], j) <=> Open(fr[i], j)) /\ (Open(fr[i], j) => gr[i].cache = fr[i].cache)
    BY <1>4, <1>6 DEF Open
  <2>. QED BY <1>6, <2>1 DEF Cell, Answers
<1>7. Level(gr, n, T, s, [w EXCEPT ![k] = v])
  BY <1>1, <1>5, <1>6 DEF Level
<1>. QED BY <1>1, <1>3, <1>7

\* A frame that wrote its instance ends: the data it kept are stored.
LEMMA LevelEnd ==
    ASSUME NEW fr, NEW n \in Nat \ {0}, NEW T, NEW s, s = [j \in LedgerKeys |-> s[j]], NEW w, Level(fr, n, T, s, w),
           FramesApart(fr, n, T), fr[n].dirty, NEW k \in LedgerKeys, k = InstKey(fr[n].c), s[k] # None
    PROVE  Level(fr, n - 1, T, [s EXCEPT ![k] = WithData(s[k], fr[n].cache[1])], w)
<1>1. PICK o, x, d, p : o = s[k] /\ x = w[k] /\ d = fr[n].cache[1] /\ p = WithData(o, d)
  OBVIOUS
<1>2. k[1] = "instance"
  BY DEF InstKey
<1>3. Cell(fr, n, T, k, o, x) /\ x # None /\ IsEntry(k, x) /\ IsEntry(k, o)
  BY <1>1 DEF Level, Cell, Alike
<1>4. 1..n = 1..(n - 1) \cup {n} /\ n \in 1..n
  OBVIOUS
<1>5. Cell(fr, n - 1, T, k, p, x)
  <2>1. IsEntry(k, p) /\ p # None /\ p[1].live = o[1].live /\ p[1].val[1] = o[1].val[1]
    <3>1. PICK e, l : e = o[1].val[1] /\ l = o[1].live
      OBVIOUS
    <3>2. o # None
      BY <1>3 DEF Cell, Alike
    <3>3. CodeKey(e) \in LedgerKeys /\ l \in Int /\ l >= Seq0
      BY ONLY <1>2, <1>3, <3>1, <3>2, InstanceForm
    <3>4. p = Instance(e, d, l)
      BY <1>1, <3>1 DEF WithData
    <3>5. IsEntry(k, p) /\ p # None /\ p[1].live = l /\ p[1].val[1] = e
      BY ONLY <1>2, <3>3, <3>4, InstanceForm
    <3>. QED BY <3>1, <3>5
  <2>2. Alike(p, x)
    BY <1>3, <2>1 DEF Cell, Alike
  <2>3. ASSUME \A t \in T : k # InstKey(t) PROVE Answers(fr, n - 1, k, p, x)
    <3>1. ASSUME NEW i \in 1..(n - 1) PROVE ~Open(fr[i], k)
      <4>1. i \in 1..n /\ i # n
        BY <1>4
      <4>2. fr[i].c # fr[n].c
        BY <1>4, <2>3, <4>1 DEF FramesApart
      <4>. QED BY <4>2, InstKeys DEF Open
    <3>2. Open(fr[n], k)
      BY DEF Open
    <3>3. x = p
      BY <1>1, <1>3, <1>4, <2>3, <3>2 DEF Cell, Answers
    <3>. QED BY <3>1, <3>3 DEF Answers
  <2>. QED BY <1>3, <2>1, <2>2, <2>3 DEF Cell
<1>6. ASSUME NEW j \in LedgerKeys, j # k, NEW a, NEW b, Cell(fr, n, T, j, a, b) PROVE Cell(fr, n - 1, T, j, a, b)
  <2>1. ~Open(fr[n], j)
    BY <1>6 DEF Open
  <2>. QED BY <1>4, <1>6, <2>1 DEF Cell, Answers
<1>. QED BY <1>1, <1>5, <1>6 DEF Level

\* The life of an entry is extended on both sides.
LEMMA LevelExtended ==
    ASSUME NEW fr, NEW n, NEW T, NEW s, NEW w, Level(fr, n, T, s, w), s = [j \in LedgerKeys |-> s[j]],
           NEW k \in LedgerKeys, s[k] # None, NEW th \in Nat, NEW ext \in Nat
    PROVE  Level(fr, n, T, Extended(s, k, th, ext), Extended(w, k, th, ext)) /\ w[k] # None
<1>1. PICK o, x, l, m : o = s[k] /\ x = w[k] /\ l = Cap(ext) /\ m = o[1].live
  OBVIOUS
<1>2. Cell(fr, n, T, k, o, x) /\ x # None /\ x[1].live = m
  BY <1>1 DEF Level, Cell, Alike
<1>3. IsDue(o, th, ext) <=> IsDue(x, th, ext)
  BY <1>1, <1>2 DEF IsDue
<1>4. CASE ~IsDue(o, th, ext)
  BY <1>1, <1>2, <1>3, <1>4 DEF Extended
<1>5. CASE IsDue(o, th, ext)
  <2>1. IsEntry(k, o) /\ IsEntry(k, x) /\ o # None
    BY <1>1, <1>2 DEF Cell
  <2>2. l \in Int /\ l >= Seq0
    <3>1. PICK v, b : EntryOf(k, o, v, b)
      BY <2>1, EntryForm
    <3>2. m \in Int /\ m >= Seq0 /\ ~(l < m)
      BY <1>1, <1>5, <3>1 DEF EntryOf, IsDue
    <3>3. l \in Int
      BY <1>1, LedgerAssumption DEF Cap, MaxLiveUntil
    <3>. QED BY <3>2, <3>3, LedgerAssumption
  <2>3. PICK p, v : p = WithLife(o, l) /\ v = WithLife(x, l)
    OBVIOUS
  <2>4. Cell(fr, n, T, k, p, v)
    <3>1. CASE k[1] # "instance"
      <4>1. o = x
        BY <1>2, <3>1, CellPlain
      <4>2. PICK a, b : EntryOf(k, x, a, b)
        BY <1>2, <2>1, EntryForm
      <4>3. v = <<[val |-> a, live |-> l]>>
        BY <2>3, <4>2 DEF EntryOf, WithLife
      <4>4. IsEntry(k, v)
        BY <2>2, <3>1, <4>3, EntryMade
      <4>. QED BY <2>3, <3>1, <4>1, <4>4, CellPlain
    <3>2. CASE k[1] = "instance"
      <4>1. PICK e : e = o[1].val[1]
        OBVIOUS
      <4>2. o = InstanceOf(o) /\ x = InstanceOf(x) /\ CodeKey(e) \in LedgerKeys
        BY <1>2, <2>1, <3>2, <4>1, InstanceForm
      <4>3. x[1].val[1] = e
        BY <1>2, <4>1 DEF Cell, Alike
      <4>4. p = Instance(e, o[1].val[2], l) /\ v = Instance(e, x[1].val[2], l)
        <5>1. \A a, b, c : WithLife(Instance(a, b, c), l) = Instance(a, b, l)
          BY DEF WithLife, Instance
        <5>. QED BY <2>3, <4>1, <4>2, <4>3, <5>1 DEF InstanceOf
      <4>5. Cell(fr, n, T, k, p, v)
        BY ONLY <1>2, <2>1, <2>2, <3>2, <4>2, <4>4, CellPart
      <4>. QED BY <4>5
    <3>. QED BY <3>1, <3>2
  <2>5. Level(fr, n, T, [s EXCEPT ![k] = p], [w EXCEPT ![k] = v])
    BY ONLY Level(fr, n, T, s, w), s = [j \in LedgerKeys |-> s[j]], k \in LedgerKeys, <2>4, LevelPut
  <2>. QED BY <1>1, <1>2, <1>3, <1>5, <2>3, <2>5 DEF Extended
<1>. QED BY <1>4, <1>5

-----------------------------------------------------------------------------
(* The events that are left                                                *)

EventsAt(ev, iev) == (\E S : ev \in Logs(S) /\ iev \in Seq(S)) /\ Living(ev) = iev
\* A frame that fails at event p is an ideal one that fails at event q.
Mark(ev, iev, p, q) == p \in 0..Len(ev) /\ q \in 0..Len(iev) /\ Living(SubSeq(ev, 1, p)) = SubSeq(iev, 1, q)
MarksOK(fr, sv, n, ev, iev) ==
    \A j \in 1..n : /\ Mark(ev, iev, fr[j].events, sv[j].events)
                    /\ \A l \in 1..j : fr[l].events <= fr[j].events /\ sv[l].events <= sv[j].events

\* A prefix of a sequence with one element more.
LEMMA PrefixAppend ==
    ASSUME NEW S, NEW s \in Seq(S), NEW x \in S, NEW p \in 0..Len(s)
    PROVE  SubSeq(Append(s, x), 1, p) = SubSeq(s, 1, p) /\ p \in 0..Len(Append(s, x)) /\ Append(s, x) \in Seq(S) /\ Len(Append(s, x)) = Len(s) + 1
<1>1. PICK n, z : n = Len(s) /\ n \in Nat /\ z = Append(s, x)
  <2>1. Len(s) \in Nat
    OBVIOUS
  <2>. QED BY <2>1
<1>2. z \in Seq(S) /\ Len(z) = n + 1 /\ \A i \in 1..n : z[i] = s[i]
  BY <1>1, AppendProperties
<1>3. p \in Nat /\ p <= n /\ p \in 0..Len(z)
  BY <1>1, <1>2
<1>4. SubSeq(z, 1, p) \in Seq(S) /\ Len(SubSeq(z, 1, p)) = p /\ \A i \in 1..p : SubSeq(z, 1, p)[i] = z[i]
  BY <1>2, <1>3, SubSeqProperties
<1>5. SubSeq(s, 1, p) \in Seq(S) /\ Len(SubSeq(s, 1, p)) = p /\ \A i \in 1..p : SubSeq(s, 1, p)[i] = s[i]
  BY <1>1, <1>3, SubSeqProperties
<1>6. \A i \in 1..p : z[i] = s[i]
  BY <1>1, <1>2, <1>3
<1>7. SubSeq(z, 1, p) = SubSeq(s, 1, p)
  BY <1>4, <1>5, <1>6, SameSeq
<1>. QED BY <1>1, <1>2, <1>3, <1>7

\* A prefix of a prefix, and the whole.
LEMMA PrefixPrefix ==
    ASSUME NEW S, NEW s \in Seq(S), NEW q \in 0..Len(s)
    PROVE  /\ SubSeq(s, 1, q) \in Seq(S) /\ Len(SubSeq(s, 1, q)) = q /\ SubSeq(s, 1, Len(s)) = s /\ Len(s) \in 0..Len(s)
           /\ \A p \in 0..q : SubSeq(SubSeq(s, 1, q), 1, p) = SubSeq(s, 1, p)
<1>1. PICK n, z : n = Len(s) /\ n \in Nat /\ z = SubSeq(s, 1, q)
  <2>1. Len(s) \in Nat
    OBVIOUS
  <2>. QED BY <2>1
<1>2. q \in Nat /\ q <= n
  BY <1>1
<1>3. z \in Seq(S) /\ Len(z) = q /\ \A i \in 1..q : z[i] = s[i]
  BY <1>1, <1>2, SubSeqProperties
<1>4. SubSeq(s, 1, n) = s
  <2>1. SubSeq(s, 1, n) \in Seq(S) /\ Len(SubSeq(s, 1, n)) = n /\ \A i \in 1..n : SubSeq(s, 1, n)[i] = s[i]
    BY <1>1, SubSeqProperties
  <2>. QED BY <1>1, <2>1, SameSeq
<1>5. ASSUME NEW p \in 0..q PROVE SubSeq(z, 1, p) = SubSeq(s, 1, p)
  <2>1. p \in Nat /\ p <= q /\ p <= n
    BY <1>1, <1>2
  <2>2. SubSeq(z, 1, p) \in Seq(S) /\ Len(SubSeq(z, 1, p)) = p /\ \A i \in 1..p : SubSeq(z, 1, p)[i] = z[i]
    BY <1>3, <2>1, SubSeqProperties
  <2>3. SubSeq(s, 1, p) \in Seq(S) /\ Len(SubSeq(s, 1, p)) = p /\ \A i \in 1..p : SubSeq(s, 1, p)[i] = s[i]
    BY <1>1, <2>1, SubSeqProperties
  <2>4. \A i \in 1..p : z[i] = s[i]
    BY <1>2, <1>3, <2>1
  <2>. QED BY <2>2, <2>3, <2>4, SameSeq
<1>. QED BY <1>1, <1>3, <1>4, <1>5

\* An event more.
LEMMA EventMore ==
    ASSUME NEW ev, NEW iev, EventsAt(ev, iev), NEW e, NEW y, y = [what |-> e, failed |-> FALSE], NEW fr, NEW sv, NEW n, MarksOK(fr, sv, n, ev, iev)
    PROVE  EventsAt(Append(ev, y), Append(iev, e)) /\ MarksOK(fr, sv, n, Append(ev, y), Append(iev, e))
<1>1. PICK S : ev \in Logs(S) /\ iev \in Seq(S)
  BY DEF EventsAt
<1>2. PICK U : U = S \cup {e}
  OBVIOUS
<1>3. Event(S) \subseteq Event(U) /\ S \subseteq U /\ e \in U /\ y \in Event(U)
  BY <1>2 DEF Event
<1>4. ev \in Logs(U) /\ iev \in Seq(U)
  BY <1>1, <1>3 DEF Logs
<1>5. PICK a, b : a = Append(ev, y) /\ b = Append(iev, e)
  OBVIOUS
<1>6. a \in Logs(U) /\ Living(a) = b
  <2>1. Living(ev) = iev
    BY DEF EventsAt
  <2>. QED BY <1>3, <1>4, <1>5, <2>1, LivingAppend
<1>7. b \in Seq(U)
  BY <1>3, <1>4, <1>5, AppendProperties
<1>8. EventsAt(a, b)
  BY <1>6, <1>7 DEF EventsAt
<1>9. ASSUME NEW p, NEW q, Mark(ev, iev, p, q) PROVE Mark(a, b, p, q)
  <2>1. p \in 0..Len(ev) /\ q \in 0..Len(iev)
    BY <1>9 DEF Mark
  <2>2. SubSeq(a, 1, p) = SubSeq(ev, 1, p) /\ p \in 0..Len(a)
    BY <1>3, <1>4, <1>5, <2>1, PrefixAppend DEF Logs
  <2>3. SubSeq(b, 1, q) = SubSeq(iev, 1, q) /\ q \in 0..Len(b)
    BY <1>3, <1>4, <1>5, <2>1, PrefixAppend
  <2>. QED BY <1>9, <2>2, <2>3 DEF Mark
<1>10. MarksOK(fr, sv, n, a, b)
  BY <1>9 DEF MarksOK
<1>. QED BY <1>5, <1>8, <1>10

\* A frame that begins would fail back to now.
LEMMA EventEnter ==
    ASSUME NEW ev, NEW iev, EventsAt(ev, iev)
    PROVE  Mark(ev, iev, Len(ev), Len(iev)) /\ Len(ev) \in Nat /\ Len(iev) \in Nat
<1>1. PICK S : ev \in Logs(S) /\ iev \in Seq(S)
  BY DEF EventsAt
<1>2. Len(ev) \in Nat /\ Len(iev) \in Nat
  BY <1>1 DEF Logs
<1>3. 0 \in 0..Len(ev) /\ 0 \in 0..Len(iev)
  BY <1>2
<1>4. SubSeq(ev, 1, Len(ev)) = ev
  BY <1>1, <1>3, PrefixPrefix DEF Logs
<1>5. SubSeq(iev, 1, Len(iev)) = iev
  BY <1>1, <1>3, PrefixPrefix
<1>6. PICK m, n : m = Len(ev) /\ n = Len(iev)
  OBVIOUS
<1>7. m \in 0..m /\ n \in 0..n
  BY <1>2, <1>6
<1>8. Living(ev) = iev
  BY DEF EventsAt
<1>9. Mark(ev, iev, m, n)
  <2>1. Living(SubSeq(ev, 1, m)) = SubSeq(iev, 1, n)
    BY ONLY <1>4, <1>5, <1>6, <1>8
  <2>. QED BY ONLY <1>6, <1>7, <2>1 DEF Mark
<1>. QED BY <1>2, <1>6, <1>9

\* A frame fails.
LEMMA EventFail ==
    ASSUME NEW ev, NEW iev, EventsAt(ev, iev), NEW fr, NEW sv, NEW n \in Nat \ {0}, MarksOK(fr, sv, n, ev, iev),
           NEW p, p = fr[n].events, NEW q, q = sv[n].events
    PROVE  EventsAt(Marked(ev, p), SubSeq(iev, 1, q)) /\ MarksOK(fr, sv, n - 1, Marked(ev, p), SubSeq(iev, 1, q))
<1>1. PICK S : ev \in Logs(S) /\ iev \in Seq(S)
  BY DEF EventsAt
<1>2. PICK a, b : a = Marked(ev, p) /\ b = SubSeq(iev, 1, q)
  OBVIOUS
<1>3. n \in 1..n /\ \A j \in 1..(n - 1) : j \in 1..n /\ j <= n
  OBVIOUS
<1>4. Mark(ev, iev, p, q) /\ p \in 0..Len(ev) /\ q \in 0..Len(iev)
  BY <1>3 DEF MarksOK, Mark
<1>5. /\ a \in Logs(S) /\ Len(a) = Len(ev) /\ (\A j \in 0..p : SubSeq(a, 1, j) = SubSeq(ev, 1, j))
      /\ Living(a) = Living(SubSeq(ev, 1, p))
  BY <1>1, <1>2, <1>4, LivingMarked
<1>6. b \in Seq(S) /\ Len(b) = q /\ \A j \in 0..q : SubSeq(b, 1, j) = SubSeq(iev, 1, j)
  BY <1>1, <1>2, <1>4, PrefixPrefix
<1>7. EventsAt(a, b)
  BY <1>2, <1>4, <1>5, <1>6 DEF EventsAt, Mark
<1>8. ASSUME NEW j \in 1..(n - 1) PROVE Mark(a, b, fr[j].events, sv[j].events)
  <2>1. PICK x, y : x = fr[j].events /\ y = sv[j].events
    OBVIOUS
  <2>2. Mark(ev, iev, x, y) /\ x <= p /\ y <= q
    <3>1. j \in 1..n
      BY <1>3
    <3>. QED BY <1>3, <2>1, <3>1 DEF MarksOK
  <2>3. x \in 0..p /\ y \in 0..q /\ x \in 0..Len(a) /\ y \in 0..Len(b)
    <3>1. Len(ev) \in Nat /\ Len(iev) \in Nat
      BY <1>1 DEF Logs
    <3>. QED BY <1>4, <1>5, <1>6, <2>2, <3>1 DEF Mark
  <2>. QED BY <1>5, <1>6, <2>1, <2>2, <2>3 DEF Mark
<1>9. MarksOK(fr, sv, n - 1, a, b)
  BY <1>3, <1>8 DEF MarksOK
<1>. QED BY <1>2, <1>7, <1>9

-----------------------------------------------------------------------------
(* The recording host and the ideal store                                  *)

Store(m, sv, ev) == [map |-> m, saved |-> sv, events |-> ev]
\* Its fields.
LEMMA StoreFields ==
    ASSUME NEW m, NEW sv, NEW ev, NEW i, i = Store(m, sv, ev)
    PROVE  /\ i.map = m /\ i.saved = sv /\ i.events = ev
           /\ \A x : [i EXCEPT !.map = x] = Store(x, sv, ev)
           /\ \A x : [i EXCEPT !.saved = x] = Store(m, x, ev)
           /\ \A x : [i EXCEPT !.events = x] = Store(m, sv, x)
BY DEF Store

\* What a frame that fails returns to is what the ideal store returns to, ...
Spine(fr, ev, i, T) ==
    /\ i = Store(i.map, i.saved, i.events)
    /\ (\E S : i.saved \in Seq(S)) /\ (\E S : fr \in Seq(S)) /\ Len(i.saved) = Len(fr)
    /\ FramesApart(fr, Len(fr), T)
    /\ \A j \in 1..Len(fr) : Level(fr, j - 1, T, Stored(fr[j].map), i.saved[j].map)
    /\ EventsAt(ev, i.events) /\ MarksOK(fr, i.saved, Len(fr), ev, i.events)
\* ... and so is what there is now.
Nest(h, i, T) == Spine(h.frames, h.events, i, T) /\ Level(h.frames, Len(h.frames), T, Stored(h.map), i.map)

\* Only the map of the ideal store changes.
LEMMA NestMap ==
    ASSUME NEW h, NEW i, NEW T, Nest(h, i, T), NEW g, g.frames = h.frames, g.events = h.events, NEW w,
           Level(h.frames, Len(h.frames), T, Stored(g.map), w)
    PROVE  Nest(g, [i EXCEPT !.map = w], T)
<1>1. PICK m, sv, ev, x : m = i.map /\ sv = i.saved /\ ev = i.events /\ x = Store(w, sv, ev)
  OBVIOUS
<1>2. i = Store(m, sv, ev)
  BY <1>1 DEF Nest, Spine
<1>3. [i EXCEPT !.map = w] = x /\ x.map = w /\ x.saved = sv /\ x.events = ev
  BY <1>1, <1>2, StoreFields
<1>4. Spine(h.frames, h.events, x, T)
  BY <1>1, <1>3 DEF Nest, Spine
<1>. QED BY <1>3, <1>4 DEF Nest

\* Nothing but the footprint changes.
LEMMA NestKeeps == ASSUME NEW h, NEW i, NEW T, Nest(h, i, T), NEW g, Keeps(h, g) PROVE Nest(g, i, T)
BY DEF Nest, Keeps

\* One key is written on both sides.
LEMMA NestPut ==
    ASSUME NEW h, NEW i, NEW T, Nest(h, i, T), NEW g, NEW k \in LedgerKeys, NEW o, SetsTo(h, g, k, o), NEW v,
           Cell(h.frames, Len(h.frames), T, k, o, v)
    PROVE  Nest(g, [i EXCEPT !.map = SetAt(@, k, v)], T)
<1>1. PICK fr, n, s, w : fr = h.frames /\ n = Len(h.frames) /\ s = Stored(h.map) /\ w = i.map
  OBVIOUS
<1>2. Level(fr, n, T, s, w) /\ Cell(fr, n, T, k, o, v)
  BY <1>1 DEF Nest
<1>3. s = [j \in LedgerKeys |-> s[j]]
  BY <1>1, StoredIs
<1>4. Level(fr, n, T, [s EXCEPT ![k] = o], [w EXCEPT ![k] = v])
  BY <1>2, <1>3, LevelPut
<1>5. PICK u : u = SetAt(w, k, v)
  OBVIOUS
<1>6. u = [w EXCEPT ![k] = v]
  BY <1>2, <1>5 DEF SetAt, Level
<1>7. Stored(g.map) = [s EXCEPT ![k] = o] /\ g.frames = h.frames /\ g.events = h.events
  BY <1>1 DEF SetsTo
<1>8. Level(h.frames, Len(h.frames), T, Stored(g.map), u)
  BY <1>1, <1>4, <1>6, <1>7
<1>9. Nest(g, [i EXCEPT !.map = u], T)
  BY <1>7, <1>8, NestMap
<1>10. [i EXCEPT !.map = SetAt(@, k, v)] = [i EXCEPT !.map = u]
  BY <1>1, <1>5
<1>. QED BY <1>9, <1>10

\* An event.
LEMMA NestEvent ==
    ASSUME NEW h, NEW i, NEW T, Nest(h, i, T), NEW e, NEW g, Stored(g.map) = Stored(h.map), g.frames = h.frames,
           g.events = Append(h.events, [what |-> e, failed |-> FALSE])
    PROVE  Nest(g, [i EXCEPT !.events = Append(@, e)], T)
<1>1. PICK m, sv, iev, ev, fr, y, b : /\ m = i.map /\ sv = i.saved /\ iev = i.events /\ ev = h.events /\ fr = h.frames
                                      /\ y = [what |-> e, failed |-> FALSE] /\ b = Append(iev, e)
  OBVIOUS
<1>2. i = Store(m, sv, iev)
  BY <1>1 DEF Nest, Spine
<1>3. PICK x : x = Store(m, sv, b)
  OBVIOUS
<1>4. [i EXCEPT !.events = Append(@, e)] = x /\ x.map = m /\ x.saved = sv /\ x.events = b
  <2>1. [i EXCEPT !.events = Append(@, e)] = [i EXCEPT !.events = b]
    BY <1>1
  <2>2. [i EXCEPT !.events = b] = x
    BY <1>2, <1>3, StoreFields
  <2>. QED BY <1>3, <2>1, <2>2, StoreFields
<1>5. EventsAt(ev, iev) /\ MarksOK(fr, sv, Len(fr), ev, iev)
  BY <1>1 DEF Nest, Spine
<1>6. EventsAt(Append(ev, y), b) /\ MarksOK(fr, sv, Len(fr), Append(ev, y), b)
  BY <1>1, <1>5, EventMore
<1>7. g.events = Append(ev, y) /\ g.frames = fr
  BY <1>1
<1>8. Spine(g.frames, g.events, x, T)
  BY <1>1, <1>3, <1>4, <1>6, <1>7 DEF Nest, Spine
<1>. QED BY <1>1, <1>4, <1>8 DEF Nest

\* Only what the last frame keeps in memory changes, and a contract may have re-entered itself.
Refreshed(fr, gr, n) ==
    /\ (\E S : gr \in Seq(S)) /\ Len(gr) = n /\ Len(fr) = n
    /\ \A j \in 1..(n - 1) : gr[j] = fr[j]
    /\ n # 0 => /\ gr[n].c = fr[n].c /\ gr[n].map = fr[n].map /\ gr[n].events = fr[n].events /\ gr[n].dirty \in BOOLEAN
                /\ gr[n].dirty => gr[n].cache # None
\* What there is to return to stays.
LEMMA SpineFrames ==
    ASSUME NEW fr, NEW ev, NEW i, NEW T, Spine(fr, ev, i, T), NEW gr, NEW n \in Nat, Refreshed(fr, gr, n), NEW U, T \subseteq U
    PROVE  Spine(gr, ev, i, U)
<1>1. \A j \in 1..n : j = n \/ j \in 1..(n - 1)
  OBVIOUS
<1>2. \A j \in 1..n : gr[j].c = fr[j].c /\ gr[j].map = fr[j].map /\ gr[j].events = fr[j].events
  BY <1>1 DEF Refreshed
<1>3. \A j \in 1..n : gr[j].dirty \in BOOLEAN /\ (gr[j].dirty => gr[j].cache # None)
  <2> TAKE j \in 1..n
  <2>1. CASE j = n
    <3>1. n # 0
      OBVIOUS
    <3>2. gr[n].dirty \in BOOLEAN /\ (gr[n].dirty => gr[n].cache # None)
      BY <3>1, Zenon DEF Refreshed
    <3>. QED BY <2>1, <3>2, Zenon
  <2>2. CASE j \in 1..(n - 1)
    <3>1. fr[j].dirty \in BOOLEAN /\ (fr[j].dirty => fr[j].cache # None)
      BY Zenon DEF Refreshed, Spine, FramesApart
    <3>2. gr[j] = fr[j]
      BY <2>2, Zenon DEF Refreshed
    <3>. QED BY <3>1, <3>2, Zenon
  <2>. QED BY <1>1, <2>1, <2>2
<1>4. FramesApart(gr, Len(gr), U)
  BY <1>2, <1>3 DEF Refreshed, Spine, FramesApart
<1>5. ASSUME NEW j \in 1..n PROVE Level(gr, j - 1, U, Stored(gr[j].map), i.saved[j].map)
  <2>1. Level(fr, j - 1, T, Stored(fr[j].map), i.saved[j].map)
    BY DEF Spine, Refreshed
  <2>2. \A l \in 1..(j - 1) : l \in 1..(n - 1)
    OBVIOUS
  <2>3. \A l \in 1..(j - 1) : SameFrame(fr[l], gr[l])
    BY <2>2 DEF Refreshed, SameFrame
  <2>4. PICK a, s, w : a = j - 1 /\ s = Stored(fr[j].map) /\ w = i.saved[j].map
    OBVIOUS
  <2>5. Level(gr, a, U, s, w)
    BY <2>1, <2>3, <2>4, LevelFrames
  <2>. QED BY <1>2, <2>4, <2>5
<1>6. MarksOK(gr, i.saved, n, ev, i.events)
  <2>1. MarksOK(fr, i.saved, n, ev, i.events)
    BY DEF Spine, Refreshed
  <2>2. \A j \in 1..n : \A l \in 1..j : l \in 1..n
    OBVIOUS
  <2>. QED BY <1>2, <2>1, <2>2 DEF MarksOK
<1>. QED BY <1>4, <1>5, <1>6 DEF Spine, Refreshed

\* Nothing changes but that a contract may have re-entered itself.
LEMMA NestGrows == ASSUME NEW h, RecOK(h), NEW i, NEW T, Nest(h, i, T), NEW U, T \subseteq U PROVE Nest(h, i, U)
<1>1. PICK fr, n : fr = h.frames /\ n = Len(fr)
  OBVIOUS
<1>2. n \in Nat
  BY <1>1 DEF RecOK, FramesOK
<1>3. Refreshed(fr, fr, n)
  BY <1>1, <1>2 DEF Refreshed, Nest, Spine, FramesApart
<1>4. Spine(fr, h.events, i, U)
  BY <1>1, <1>2, <1>3, SpineFrames DEF Nest
<1>5. Level(fr, n, U, Stored(h.map), i.map)
  <2>1. PICK s, w : s = Stored(h.map) /\ w = i.map /\ Level(fr, n, T, s, w)
    BY <1>1 DEF Nest
  <2>2. \A l \in 1..n : SameFrame(fr[l], fr[l])
    BY DEF SameFrame
  <2>. QED BY <2>1, <2>2, LevelFrames
<1>. QED BY <1>1, <1>4, <1>5 DEF Nest

\* A contract is entered.
LEMMA NestEnter ==
    ASSUME NEW h, RecOK(h), NEW i, NEW T, Nest(h, i, T), NEW g, NEW c, Enters(h, g, c), NEW U, T \subseteq U,
           c \in U \/ \A j \in 1..Len(h.frames) : h.frames[j].c # c
    PROVE  Nest(g, [i EXCEPT !.saved = Append(@, [map |-> i.map, events |-> Len(i.events)])], U)
<1>1. PICK fr, ev, n, m, sv, iev, s, r : /\ fr = h.frames /\ ev = h.events /\ n = Len(fr) /\ m = i.map /\ sv = i.saved /\ iev = i.events
                                      /\ s = Stored(h.map) /\ r = [map |-> m, events |-> Len(iev)]
  OBVIOUS
<1>2. i = Store(m, sv, iev) /\ Spine(fr, ev, i, T) /\ Level(fr, n, T, s, m)
  BY <1>1 DEF Nest, Spine
<1>3. PICK S, R : fr \in Seq(S) /\ sv \in Seq(R)
  BY <1>1, <1>2 DEF Spine
<1>4. PICK f : IsFresh(f, c, s, Len(ev)) /\ g.frames = Append(fr, f)
  BY <1>1 DEF Enters
<1>5. PICK S2, R2, gr, su, x : S2 = S \cup {f} /\ R2 = R \cup {r} /\ gr = Append(fr, f) /\ su = Append(sv, r) /\ x = Store(m, su, iev)
  OBVIOUS
<1>6. n \in Nat /\ Len(sv) = n
  BY <1>1, <1>2, <1>3 DEF Spine
<1>7. fr \in Seq(S2) /\ f \in S2 /\ sv \in Seq(R2) /\ r \in R2
  BY <1>3, <1>5
<1>8. gr \in Seq(S2) /\ Len(gr) = n + 1 /\ (\A j \in 1..n : gr[j] = fr[j]) /\ gr[n + 1] = f
  <2>1. n = Len(fr)
    BY <1>1
  <2>. QED BY <1>5, <1>7, <2>1, AppendProperties
<1>9. su \in Seq(R2) /\ Len(su) = n + 1 /\ (\A j \in 1..n : su[j] = sv[j]) /\ su[n + 1] = r
  <2>1. n = Len(sv)
    BY <1>6
  <2>. QED BY <1>5, <1>7, <2>1, AppendProperties
<1>10. x.map = m /\ x.saved = su /\ x.events = iev
  <2>1. x = Store(m, su, iev)
    BY <1>5
  <2>. QED BY ONLY <2>1, StoreFields
<1>11. [i EXCEPT !.saved = Append(@, [map |-> i.map, events |-> Len(i.events)])] = x
  <2>1. [i EXCEPT !.saved = Append(@, [map |-> i.map, events |-> Len(i.events)])] = [i EXCEPT !.saved = su]
    BY <1>1, <1>5
  <2>2. x = Store(m, su, iev) /\ i = Store(m, sv, iev)
    BY <1>2, <1>5
  <2>3. [i EXCEPT !.saved = su] = x
    BY ONLY <2>2, StoreFields
  <2>. QED BY <2>1, <2>3
<1>12. f.c = c /\ f.dirty = FALSE /\ Stored(f.map) = s /\ f.events = Len(ev)
  BY <1>4 DEF IsFresh
<1>13. \A j \in 1..(n + 1) : j = n + 1 \/ j \in 1..n
  BY <1>6
<1>14. \A a, p, w : a \in 0..n /\ Level(fr, a, T, p, w) => Level(gr, a, U, p, w)
  <2> TAKE a, p, w
  <2> SUFFICES ASSUME a \in 0..n, Level(fr, a, T, p, w) PROVE Level(gr, a, U, p, w)
    OBVIOUS
  <2>1. \A j \in 1..a : j \in 1..n
    BY <1>6
  <2>2. \A j \in 1..a : SameFrame(fr[j], gr[j])
    BY <1>8, <2>1 DEF SameFrame
  <2>. QED BY <2>2, LevelFrames
<1>15. Level(gr, n, U, s, m) /\ Level(gr, n + 1, U, s, m)
  <2>1. Level(gr, n, U, s, m)
    BY <1>2, <1>6, <1>14
  <2>2. ~gr[n + 1].dirty
    BY <1>8, <1>12
  <2>. QED BY <1>6, <2>1, <2>2, LevelFrame
<1>16. FramesApart(gr, n + 1, U)
  <2>1. FramesApart(fr, n, T)
    BY <1>1, <1>2 DEF Spine
  <2>2. ASSUME NEW j \in 1..(n + 1), NEW l \in 1..(n + 1), j # l, gr[j].c = gr[l].c PROVE gr[j].c \in U
    <3>1. CASE j \in 1..n /\ l \in 1..n
      BY <1>8, <2>1, <2>2, <3>1 DEF FramesApart
    <3>2. CASE j = n + 1 \/ l = n + 1
      <4>1. gr[j].c = c
        BY <1>8, <1>12, <2>2, <3>2
      <4>2. \E q \in 1..n : fr[q].c = c
        BY <1>8, <1>12, <1>13, <2>2, <3>2
      <4>. QED BY <1>1, <4>1, <4>2
    <3>. QED BY <1>13, <3>1, <3>2
  <2>3. ASSUME NEW j \in 1..(n + 1) PROVE gr[j].dirty \in BOOLEAN /\ (gr[j].dirty => gr[j].cache # None)
    <3>1. CASE j \in 1..n
      <4>1. fr[j].dirty \in BOOLEAN /\ (fr[j].dirty => fr[j].cache # None)
        BY <2>1, <3>1, Zenon DEF FramesApart
      <4>2. gr[j] = fr[j]
        BY <1>8, <3>1
      <4>. QED BY <4>1, <4>2, Zenon
    <3>2. CASE j = n + 1
      <4>1. gr[j].dirty = FALSE
        BY <1>8, <1>12, <3>2
      <4>. QED BY <4>1
    <3>. QED BY <1>13, <3>1, <3>2
  <2>. QED BY <2>2, <2>3 DEF FramesApart
<1>17. ASSUME NEW j \in 1..(n + 1) PROVE Level(gr, j - 1, U, Stored(gr[j].map), su[j].map)
  <2>1. CASE j \in 1..n
    <3>1. Level(fr, j - 1, T, Stored(fr[j].map), sv[j].map)
      BY <1>1, <1>2, <2>1 DEF Spine
    <3>2. PICK a, p, w : a = j - 1 /\ p = Stored(fr[j].map) /\ w = sv[j].map
      OBVIOUS
    <3>3. Level(gr, a, U, p, w)
      BY <1>6, <1>14, <2>1, <3>1, <3>2
    <3>. QED BY <1>8, <1>9, <2>1, <3>2, <3>3
  <2>2. CASE j = n + 1
    <3>1. j - 1 = n /\ gr[j] = f /\ su[j].map = m
      BY <1>1, <1>6, <1>8, <1>9, <2>2
    <3>. QED BY <1>12, <1>15, <3>1
  <2>. QED BY <1>13, <2>1, <2>2
<1>18. EventsAt(ev, iev) /\ MarksOK(fr, sv, n, ev, iev)
  BY <1>1, <1>2 DEF Spine
<1>19. MarksOK(gr, su, n + 1, ev, iev)
  <2>1. PICK p, q : p = Len(ev) /\ q = Len(iev)
    OBVIOUS
  <2>2. Mark(ev, iev, p, q) /\ p \in Nat /\ q \in Nat
    BY <1>18, <2>1, EventEnter
  <2>3. gr[n + 1].events = p /\ su[n + 1].events = q
    BY <1>1, <1>8, <1>9, <1>12, <2>1
  <2>4. \A j \in 1..n : gr[j].events = fr[j].events /\ su[j].events = sv[j].events
    BY <1>8, <1>9
  <2>5. \A j \in 1..n : fr[j].events <= p /\ sv[j].events <= q
    BY <1>18, <2>1, <2>2 DEF MarksOK, Mark
  <2>6. ASSUME NEW j \in 1..(n + 1)
        PROVE  /\ Mark(ev, iev, gr[j].events, su[j].events)
               /\ \A l \in 1..j : gr[l].events <= gr[j].events /\ su[l].events <= su[j].events
    <3>1. CASE j \in 1..n
      <4>1. \A l \in 1..j : l \in 1..n
        BY <1>6, <3>1
      <4>. QED BY <1>18, <2>4, <3>1, <4>1 DEF MarksOK
    <3>2. CASE j = n + 1
      <4>1. \A l \in 1..j : l = j \/ l \in 1..n
        BY <1>6, <3>2
      <4>. QED BY <2>2, <2>3, <2>4, <2>5, <3>2, <4>1
    <3>. QED BY <1>13, <3>1, <3>2
  <2>. QED BY <2>6 DEF MarksOK
<1>20. Spine(gr, ev, x, U)
  <2>1. x = Store(x.map, x.saved, x.events) /\ (\E Q : x.saved \in Seq(Q)) /\ (\E Q : gr \in Seq(Q)) /\ Len(x.saved) = Len(gr)
    BY <1>5, <1>8, <1>9, <1>10
  <2>2. \A j \in 1..(n + 1) : Level(gr, j - 1, U, Stored(gr[j].map), x.saved[j].map)
    BY <1>10, <1>17
  <2>. QED BY <1>8, <1>10, <1>16, <1>18, <1>19, <2>1, <2>2 DEF Spine
<1>21. g.frames = gr /\ g.events = ev /\ Stored(g.map) = s
  BY <1>1, <1>4, <1>5 DEF Enters
<1>. QED BY <1>8, <1>10, <1>11, <1>15, <1>20, <1>21 DEF Nest

\* The last frame goes, leaving the events eu on the one side and the ideal store x on the other.
Ends(fr, ev, i, T, n, x, m, iev, eu) ==
    /\ Spine(fr, ev, i, T) /\ fr # <<>> /\ n = Len(fr) /\ x = Store(m, Front(i.saved), iev)
    /\ EventsAt(eu, iev) /\ MarksOK(fr, i.saved, n - 1, eu, iev)
Shortened(fr, i, T, n, x, eu) ==
    /\ Spine(Front(fr), eu, x, T) /\ n \in Nat \ {0} /\ Len(Front(fr)) = n - 1
    /\ \A p, w : Level(fr, n - 1, T, p, w) => Level(Front(fr), n - 1, T, p, w)
\* What the frames before it return to stays.
LEMMA SpineFront ==
    ASSUME NEW fr, NEW ev, NEW i, NEW T, NEW n, NEW x, NEW m, NEW iev, NEW eu, Ends(fr, ev, i, T, n, x, m, iev, eu)
    PROVE  Shortened(fr, i, T, n, x, eu)
<1>14. PICK gr, sv : gr = Front(fr) /\ sv = Front(i.saved)
  OBVIOUS
<1>15. /\ Spine(fr, ev, i, T) /\ fr # <<>> /\ n = Len(fr) /\ x = Store(m, sv, iev)
       /\ EventsAt(eu, iev) /\ MarksOK(fr, i.saved, n - 1, eu, iev)
  BY <1>14 DEF Ends
<1>1. PICK S, R, su : fr \in Seq(S) /\ i.saved \in Seq(R) /\ su = i.saved /\ Len(su) = n
  BY <1>15 DEF Spine
<1>2. n \in Nat \ {0}
  BY <1>1, <1>15, EmptySeq
<1>3. gr \in Seq(S) /\ Len(gr) = n - 1 /\ (\A j \in 1..(n - 1) : gr[j] = fr[j]) /\ fr[n] = Last(fr)
  <2>1. fr \in Seq(S) /\ fr # <<>> /\ n = Len(fr) /\ gr = Front(fr)
    BY <1>1, <1>14, <1>15
  <2>. QED BY ONLY <2>1, LastFront
<1>4. su # <<>>
  <2>1. Len(<<>>) = 0
    OBVIOUS
  <2>. QED BY <1>1, <1>2, <2>1
<1>5. sv \in Seq(R) /\ Len(sv) = n - 1 /\ (\A j \in 1..(n - 1) : sv[j] = su[j]) /\ su[n] = Last(su)
  <2>1. su \in Seq(R) /\ su # <<>> /\ n = Len(su) /\ sv = Front(su)
    BY <1>1, <1>4, <1>14
  <2>. QED BY ONLY <2>1, LastFront
<1>6. x.map = m /\ x.saved = sv /\ x.events = iev
  BY <1>15, StoreFields
<1>7. \A j \in 1..(n - 1) : j \in 1..n
  BY <1>2
<1>8. \A a, p, w : a \in 0..(n - 1) /\ Level(fr, a, T, p, w) => Level(gr, a, T, p, w)
  <2> TAKE a, p, w
  <2> SUFFICES ASSUME a \in 0..(n - 1), Level(fr, a, T, p, w) PROVE Level(gr, a, T, p, w)
    OBVIOUS
  <2>1. \A j \in 1..a : j \in 1..(n - 1)
    BY <1>2
  <2>2. \A j \in 1..a : SameFrame(fr[j], gr[j])
    BY <1>3, <2>1 DEF SameFrame
  <2>. QED BY <2>2, LevelFrames
<1>9. FramesApart(gr, n - 1, T)
  <2>1. FramesApart(fr, n, T)
    BY <1>15 DEF Spine
  <2>2. \A j \in 1..(n - 1) : fr[j].dirty \in BOOLEAN /\ (fr[j].dirty => fr[j].cache # None)
    BY <1>7, <2>1, Zenon DEF FramesApart
  <2>3. \A j, l \in 1..(n - 1) : j # l /\ fr[j].c = fr[l].c => fr[j].c \in T
    BY <1>7, <2>1 DEF FramesApart
  <2>4. \A j \in 1..(n - 1) : gr[j].dirty \in BOOLEAN /\ (gr[j].dirty => gr[j].cache # None)
    <3> TAKE j \in 1..(n - 1)
    <3>1. gr[j] = fr[j]
      BY <1>3
    <3>. QED BY <2>2, <3>1, Zenon
  <2>5. \A j, l \in 1..(n - 1) : j # l /\ gr[j].c = gr[l].c => gr[j].c \in T
    BY <1>3, <2>3
  <2>. QED BY <2>4, <2>5 DEF FramesApart
<1>10. ASSUME NEW j \in 1..(n - 1) PROVE Level(gr, j - 1, T, Stored(gr[j].map), sv[j].map)
  <2>1. Level(fr, j - 1, T, Stored(fr[j].map), su[j].map)
    BY <1>1, <1>7, <1>15 DEF Spine
  <2>2. PICK a, p, w : a = j - 1 /\ p = Stored(fr[j].map) /\ w = su[j].map
    OBVIOUS
  <2>3. Level(gr, a, T, p, w)
    BY <1>2, <1>8, <2>1, <2>2
  <2>. QED BY <1>3, <1>5, <2>2, <2>3
<1>11. MarksOK(gr, sv, n - 1, eu, iev)
  <2>1. \A j \in 1..(n - 1) : gr[j].events = fr[j].events /\ sv[j].events = su[j].events
    BY <1>3, <1>5
  <2>2. \A j \in 1..(n - 1) : \A l \in 1..j : l \in 1..(n - 1)
    BY <1>2
  <2>3. MarksOK(fr, su, n - 1, eu, iev)
    BY <1>1, <1>15
  <2>. QED BY <2>1, <2>2, <2>3 DEF MarksOK
<1>12. Spine(gr, eu, x, T)
  <2>1. x = Store(x.map, x.saved, x.events) /\ (\E Q : x.saved \in Seq(Q)) /\ (\E Q : gr \in Seq(Q)) /\ Len(x.saved) = Len(gr)
    BY <1>3, <1>5, <1>6, <1>15
  <2>. QED BY <1>3, <1>6, <1>9, <1>10, <1>11, <1>15, <2>1 DEF Spine
<1>13. \A p, w : Level(fr, n - 1, T, p, w) => Level(gr, n - 1, T, p, w)
  <2>1. n - 1 \in 0..(n - 1)
    BY <1>2
  <2>. QED BY <1>8, <2>1
<1>. QED BY <1>1, <1>2, <1>3, <1>12, <1>13, <1>14 DEF Shortened

\* A frame fails: both return to what there was when it began.
RolledBack(i) ==
    [map |-> Last(i.saved).map, saved |-> Front(i.saved), events |-> SubSeq(i.events, 1, Last(i.saved).events)]
\* The host does what the ideal store does.
LEMMA NestFail ==
    ASSUME NEW h, RecOK(h), h.frames # <<>>, NEW i, NEW T, Spine(h.frames, h.events, i, T)
    PROVE  Nest(FailFrame(h), RolledBack(i), T)
<1>1. PICK fp, hm, fr, ev, n, su, iev, f : /\ fp = h.fp /\ hm = h.map /\ fr = h.frames /\ ev = h.events /\ n = Len(fr) /\ su = i.saved
                                          /\ iev = i.events /\ f = Last(fr)
  OBVIOUS
<1>2. h = Host("recording", fp, hm, fr, ev)
  BY <1>1 DEF RecOK
<1>3. PICK g, gr, gev : g = FailFrame(h) /\ gr = Front(fr) /\ gev = Marked(ev, f.events)
  OBVIOUS
<1>4. g = Host("recording", fp, f.map, gr, gev)
  <2>1. PICK md : md = "recording"
    OBVIOUS
  <2>2. h = Host(md, fp, hm, fr, ev) /\ f = Last(fr)
    BY <1>1, <1>2, <2>1
  <2>3. FailFrame(h) = Host(md, fp, f.map, Front(fr), Marked(ev, f.events))
    BY ONLY <2>2, FailFrameIs
  <2>. QED BY <1>3, <2>1, <2>3
<1>5. g.map = f.map /\ g.frames = gr /\ g.events = gev
  BY ONLY <1>4, HostFields
<1>6. PICK q, sv, m, jev, x : q = su[n].events /\ sv = Front(su) /\ m = su[n].map /\ jev = SubSeq(iev, 1, q) /\ x = Store(m, sv, jev)
  OBVIOUS
<1>7. n \in Nat \ {0} /\ f = fr[n] /\ su[n] = Last(su) /\ EventsAt(ev, iev) /\ MarksOK(fr, su, n, ev, iev) /\ Len(su) = n
  <2>1. PICK S, R : fr \in Seq(S) /\ su \in Seq(R) /\ Len(su) = n
    BY <1>1 DEF Spine
  <2>2. n \in Nat \ {0} /\ Last(fr) = fr[n]
    <3>1. fr \in Seq(S) /\ fr # <<>> /\ n = Len(fr) /\ gr = Front(fr)
      BY <1>1, <1>3, <2>1
    <3>. QED BY ONLY <3>1, LastFront
  <2>3. Last(su) = su[n]
    <3>1. Len(<<>>) = 0
      OBVIOUS
    <3>2. su \in Seq(R) /\ su # <<>> /\ n = Len(su) /\ sv = Front(su)
      BY <1>6, <2>1, <2>2, <3>1
    <3>. QED BY ONLY <3>2, LastFront
  <2>. QED BY <1>1, <2>1, <2>2, <2>3 DEF Spine
<1>8. EventsAt(gev, jev) /\ MarksOK(fr, su, n - 1, gev, jev)
  <2>1. PICK p : p = f.events
    OBVIOUS
  <2>2. n \in Nat \ {0} /\ p = fr[n].events /\ q = su[n].events /\ EventsAt(ev, iev) /\ MarksOK(fr, su, n, ev, iev)
    BY <1>6, <1>7, <2>1
  <2>3. EventsAt(Marked(ev, p), SubSeq(iev, 1, q)) /\ MarksOK(fr, su, n - 1, Marked(ev, p), SubSeq(iev, 1, q))
    BY ONLY <2>2, EventFail
  <2>. QED BY <1>3, <1>6, <2>1, <2>3
<1>9. /\ Spine(gr, gev, x, T) /\ Len(gr) = n - 1
      /\ \A p, w : Level(fr, n - 1, T, p, w) => Level(gr, n - 1, T, p, w)
  <2>1. Spine(fr, ev, i, T) /\ fr # <<>> /\ n = Len(fr) /\ x = Store(m, Front(i.saved), jev)
        /\ EventsAt(gev, jev) /\ MarksOK(fr, i.saved, n - 1, gev, jev)
    BY <1>1, <1>6, <1>8
  <2>2. Ends(fr, ev, i, T, n, x, m, jev, gev)
    BY ONLY <2>1 DEF Ends
  <2>3. Shortened(fr, i, T, n, x, gev)
    BY ONLY <2>2, SpineFront
  <2>. QED BY <1>3, <2>3 DEF Shortened
<1>10. x = RolledBack(i) /\ x.map = m
  <2>1. x = [map |-> m, saved |-> sv, events |-> jev]
    BY <1>6 DEF Store
  <2>2. RolledBack(i) = [map |-> Last(su).map, saved |-> Front(su), events |-> SubSeq(iev, 1, Last(su).events)]
    BY <1>1 DEF RolledBack
  <2>3. Last(su).map = m /\ Front(su) = sv /\ SubSeq(iev, 1, Last(su).events) = jev
    BY <1>6, <1>7
  <2>4. x.map = m
    BY ONLY <2>1
  <2>. QED BY ONLY <2>1, <2>2, <2>3, <2>4
<1>11. Level(fr, n - 1, T, Stored(f.map), m)
  <2>1. n \in 1..Len(fr)
    BY <1>1, <1>7
  <2>2. Level(fr, n - 1, T, Stored(fr[n].map), su[n].map)
    BY <1>1, <2>1 DEF Spine
  <2>. QED BY <1>6, <1>7, <2>2
<1>12. Level(gr, Len(gr), T, Stored(g.map), x.map)
  BY <1>5, <1>9, <1>10, <1>11
<1>. QED BY <1>3, <1>5, <1>9, <1>10, <1>12 DEF Nest

\* An instance that is there.
LEMMA StoredPresent ==
    ASSUME NEW m, NEW c, NEW k \in LedgerKeys, k = InstKey(c), Present(m, c) PROVE Stored(m)[k] # None
BY StoredIs DEF Present

\* A frame ends: what it kept of its instance is stored.
LEMMA NestLeave ==
    ASSUME NEW h, RecOK(h), h.frames # <<>>, NEW i, NEW T, Nest(h, i, T), NEW R, R = LeaveFrame(h)
    PROVE  R.out = "ok" /\ Nest(R.h, [i EXCEPT !.saved = Front(@)], T)
<1>1. PICK D, f, n, fr, s, P : FpOK(D) /\ f = Last(h.frames) /\ n = Len(h.frames) /\ fr = h.frames /\ s = Stored(h.map) /\ P = PersistInstance(h)
  BY DEF RecOK
<1>2. FrameOK(f) /\ Present(h.map, f.c) /\ InstKey(f.c) \in LedgerKeys /\ f = fr[n] /\ n \in Nat \ {0}
  BY <1>1, LastFrame
<1>3. Level(fr, n, T, s, i.map) /\ Spine(fr, h.events, i, T) /\ s = [j \in LedgerKeys |-> s[j]]
  BY <1>1, StoredIs DEF Nest
<1>4. FramesApart(fr, n, T) /\ n \in 1..n
  BY <1>1, <1>2, <1>3 DEF Spine
<1>5. P.out = "ok" /\ RecOK(P.h) /\ P.h.frames = fr /\ P.h.events = h.events /\ Level(fr, n - 1, T, Stored(P.h.map), i.map)
  <2>1. CASE ~f.dirty
    <3>1. P.h = h /\ P.out = "ok"
      BY <1>1, <2>1 DEF PersistInstance, Ok
    <3>2. PICK l : l = n - 1 /\ l \in Nat /\ n = l + 1
      BY <1>2
    <3>3. ~fr[l + 1].dirty /\ Level(fr, l + 1, T, s, i.map)
      BY <1>2, <1>3, <2>1, <3>2
    <3>4. Level(fr, l, T, s, i.map)
      BY <3>2, <3>3, LevelFrame
    <3>. QED BY <1>1, <3>1, <3>2, <3>4
  <2>2. CASE f.dirty
    <3>1. PICK c, k, x, none, d, o : /\ c = f.c /\ k = InstKey(c) /\ x = f.cache /\ none = None /\ d = x[1]
                                     /\ o = InstanceOver(s, k, none, x)
      OBVIOUS
    <3>2. x # None
      BY <1>2, <1>4, <2>2, <3>1, Zenon DEF FramesApart
    <3>3. k \in LedgerKeys /\ Present(h.map, c) /\ P = StoreInstance(h, c, none, x)
      BY <1>1, <1>2, <2>2, <3>1 DEF PersistInstance
    <3>4. s[k] # None
      BY <1>1, <3>1, <3>3, StoredPresent
    <3>5. RecOK(P.h) /\ P.out = "ok" /\ SetsTo(h, P.h, k, o)
      <4>1. RecOK(h) /\ k \in LedgerKeys /\ k = InstKey(c) /\ (none # None => CodeKey(none[1]) \in LedgerKeys)
            /\ (none = None => Stored(h.map)[k] # None) /\ P = StoreInstance(h, c, none, x) /\ o = InstanceOver(Stored(h.map), k, none, x)
        BY <1>1, <3>1, <3>3, <3>4
      <4>. QED BY ONLY <4>1, StoreInstanceSets
    <3>6. o = WithData(s[k], d)
      BY <3>1, <3>2, <3>4 DEF InstanceOver, WithData, LifeOf
    <3>7. Level(fr, n - 1, T, [s EXCEPT ![k] = o], i.map)
      <4>1. fr[n].dirty /\ k = InstKey(fr[n].c) /\ d = fr[n].cache[1]
        BY <1>2, <2>2, <3>1
      <4>2. PICK w : w = i.map
        OBVIOUS
      <4>3. /\ n \in Nat \ {0} /\ s = [j \in LedgerKeys |-> s[j]] /\ Level(fr, n, T, s, w) /\ FramesApart(fr, n, T)
            /\ k \in LedgerKeys /\ s[k] # None
        BY <1>2, <1>3, <1>4, <3>3, <3>4, <4>2
      <4>4. Level(fr, n - 1, T, [s EXCEPT ![k] = WithData(s[k], fr[n].cache[1])], w)
        BY ONLY <4>1, <4>3, LevelEnd
      <4>. QED BY <3>6, <4>1, <4>2, <4>4
    <3>. QED BY <1>1, <3>5, <3>7 DEF SetsTo
  <2>. QED BY <2>1, <2>2
<1>6. PICK g, gp, gm, gev, gr, r : /\ g = P.h /\ gp = g.fp /\ gm = g.map /\ gev = g.events /\ gr = Front(fr)
                                   /\ r = PopFrame(g)
  OBVIOUS
<1>7. g = Host("recording", gp, gm, fr, gev)
  BY <1>5, <1>6 DEF RecOK
<1>8. R.out = "ok" /\ R.h = r
  BY <1>1, <1>5, <1>6 DEF LeaveFrame, Then, PopFrame, Ok
<1>9. r.map = gm /\ r.frames = gr /\ r.events = gev
  <2>1. g.frames = fr
    BY <1>5, <1>6
  <2>2. r = [g EXCEPT !.frames = gr]
    BY <1>6, <2>1 DEF PopFrame
  <2>3. r = Host("recording", gp, gm, gr, gev)
    BY <1>7, <2>2, HostFields
  <2>. QED BY ONLY <2>3, HostFields
<1>10. PICK m, su, sv, iev, x : m = i.map /\ su = i.saved /\ iev = i.events /\ sv = Front(su) /\ x = Store(m, sv, iev)
  OBVIOUS
<1>11. i = Store(m, su, iev) /\ x = Store(m, sv, iev)
  BY <1>3, <1>10 DEF Spine
<1>12. [i EXCEPT !.saved = Front(@)] = x /\ x.map = m
  <2>1. [i EXCEPT !.saved = Front(@)] = [i EXCEPT !.saved = sv]
    BY <1>10
  <2>2. [i EXCEPT !.saved = sv] = x
    BY ONLY <1>11, StoreFields
  <2>3. x.map = m
    BY ONLY <1>11, StoreFields
  <2>. QED BY <2>1, <2>2, <2>3
<1>13. EventsAt(gev, iev) /\ MarksOK(fr, su, n - 1, gev, iev)
  <2>1. gev = h.events /\ EventsAt(gev, iev) /\ MarksOK(fr, su, n, gev, iev)
    BY <1>1, <1>3, <1>5, <1>6, <1>10 DEF Spine
  <2>2. \A j \in 1..(n - 1) : j \in 1..n
    BY <1>2
  <2>. QED BY <2>1, <2>2 DEF MarksOK
<1>14. /\ Spine(gr, gev, x, T) /\ Len(gr) = n - 1
       /\ \A p, w : Level(fr, n - 1, T, p, w) => Level(gr, n - 1, T, p, w)
  <2>1. PICK ev : ev = h.events
    OBVIOUS
  <2>2. Spine(fr, ev, i, T) /\ fr # <<>> /\ n = Len(fr) /\ x = Store(m, Front(i.saved), iev)
        /\ EventsAt(gev, iev) /\ MarksOK(fr, i.saved, n - 1, gev, iev)
    BY <1>1, <1>3, <1>10, <1>13, <2>1
  <2>3. Ends(fr, ev, i, T, n, x, m, iev, gev)
    BY ONLY <2>2 DEF Ends
  <2>4. Shortened(fr, i, T, n, x, gev)
    BY ONLY <2>3, SpineFront
  <2>. QED BY <1>6, <2>4 DEF Shortened
<1>15. Level(gr, Len(gr), T, Stored(r.map), x.map)
  BY <1>5, <1>6, <1>9, <1>10, <1>12, <1>14
<1>. QED BY <1>8, <1>9, <1>12, <1>14, <1>15 DEF Nest

\* The frames with the last one assigned.
Assigns(fr, n, f, x, d, gr) ==
    /\ (\E S : fr \in Seq(S)) /\ n = Len(fr) /\ n # 0 /\ f = fr[n] /\ d \in BOOLEAN /\ (d => x # None)
    /\ gr = [fr EXCEPT ![n] = FrameWith(f, x, d)]
Assigned(fr, n, f, x, d, gr) ==
    /\ Refreshed(fr, gr, n) /\ n \in Nat \ {0} /\ gr[n].c = f.c /\ gr[n].cache = x /\ gr[n].dirty = d
    /\ \A j \in 1..(n - 1) : gr[j] = fr[j]
\* Only the last frame changes, and in it what it keeps in memory.
LEMMA Reassigned ==
    ASSUME NEW fr, NEW n, NEW f, NEW x, NEW d, NEW gr, Assigns(fr, n, f, x, d, gr)
    PROVE  Assigned(fr, n, f, x, d, gr)
<1>0. n = Len(fr) /\ n # 0 /\ f = fr[n] /\ gr = [fr EXCEPT ![n] = FrameWith(f, x, d)]
  BY Zenon DEF Assigns
<1>11. d \in BOOLEAN /\ (d => x # None) /\ \E S : fr \in Seq(S)
  BY Zenon DEF Assigns
<1>. PICK S : fr \in Seq(S)
  BY <1>11
<1>1. PICK g, U : g = FrameWith(f, x, d) /\ U = S \cup {g}
  OBVIOUS
<1>2. n \in Nat \ {0} /\ n \in 1..n /\ DOMAIN fr = 1..n /\ \A j \in 1..(n - 1) : j \in 1..n /\ j # n
  BY <1>0
<1>3. gr = [fr EXCEPT ![n] = g]
  BY <1>0, <1>1
<1>4. gr[n] = g /\ \A j \in 1..(n - 1) : gr[j] = fr[j]
  BY <1>2, <1>3
<1>5. gr \in Seq(U) /\ Len(gr) = n
  <2>1. fr \in Seq(U) /\ g \in U
    BY <1>1
  <2>2. gr \in [1..n -> U]
    BY <1>2, <1>3, <2>1
  <2>3. n \in Nat
    BY <1>2
  <2>. QED BY ONLY <2>2, <2>3
<1>6. g.c = f.c /\ g.cache = x /\ g.dirty = d /\ g.map = f.map /\ g.events = f.events
  <2>1. /\ FrameWith(f, x, d).c = f.c /\ FrameWith(f, x, d).cache = x /\ FrameWith(f, x, d).dirty = d
        /\ FrameWith(f, x, d).map = f.map /\ FrameWith(f, x, d).events = f.events
    BY DEF FrameWith
  <2>. QED BY <1>1, <2>1
<1>7. gr[n].c = f.c /\ gr[n].cache = x /\ gr[n].map = f.map /\ gr[n].events = f.events
  BY <1>4, <1>6
<1>8. gr[n].dirty = d /\ gr[n].dirty \in BOOLEAN /\ (gr[n].dirty => gr[n].cache # None)
  BY <1>4, <1>6, <1>11, Zenon
<1>9. Refreshed(fr, gr, n)
  <2>1. (\E Q : gr \in Seq(Q)) /\ Len(gr) = n /\ Len(fr) = n /\ \A j \in 1..(n - 1) : gr[j] = fr[j]
    BY <1>0, <1>4, <1>5
  <2>2. gr[n].c = fr[n].c /\ gr[n].map = fr[n].map /\ gr[n].events = fr[n].events
    BY <1>0, <1>7
  <2>. QED BY <1>8, <2>1, <2>2, Zenon DEF Refreshed
<1>. QED BY <1>2, <1>4, <1>7, <1>8, <1>9, Zenon DEF Assigned

\* The frame that runs, and that its contract is there.
IsRunning(h, i, f, n, k) ==
    /\ n \in Nat \ {0} /\ n = Len(h.frames) /\ f = Last(h.frames) /\ f = h.frames[n] /\ (\E S : h.frames \in Seq(S)) /\ f.dirty \in BOOLEAN
    /\ (f.dirty => f.cache # None) /\ k = InstKey(f.c)
    /\ k \in LedgerKeys /\ Stored(h.map)[k] # None /\ i.map[k] # None /\ IsEntry(k, i.map[k])
\* There is such a frame whenever one is on the stack.
LEMMA RunningIs ==
    ASSUME NEW h, RecOK(h), h.frames # <<>>, NEW i, NEW T, Nest(h, i, T)
    PROVE  \E f, n, k : IsRunning(h, i, f, n, k)
<1>0. PICK f, n : f = Last(h.frames) /\ n = Len(h.frames)
  OBVIOUS
<1>1. PICK D, k, c, m, w : FpOK(D) /\ c = f.c /\ k = InstKey(c) /\ m = h.map /\ w = i.map
  BY DEF RecOK
<1>2. Present(m, c) /\ k \in LedgerKeys /\ f = h.frames[n] /\ n \in Nat \ {0}
  BY <1>0, <1>1, LastFrame
<1>3. Stored(m)[k] # None
  BY <1>1, <1>2, StoredPresent
<1>4. FramesApart(h.frames, n, T) /\ (\E S : h.frames \in Seq(S)) /\ Level(h.frames, n, T, Stored(m), w)
  BY <1>0, <1>1 DEF Nest, Spine
<1>5. n \in 1..n
  BY <1>2
<1>6. f.dirty \in BOOLEAN /\ (f.dirty => f.cache # None)
  BY <1>2, <1>4, <1>5, Zenon DEF FramesApart
<1>7. w[k] # None /\ IsEntry(k, w[k])
  BY <1>2, <1>3, <1>4 DEF Level, Cell, Alike
<1>8. k = InstKey(f.c) /\ k \in LedgerKeys /\ Stored(h.map)[k] # None /\ i.map[k] # None /\ IsEntry(k, i.map[k])
  BY <1>1, <1>2, <1>3, <1>7
<1>9. IsRunning(h, i, f, n, k)
  BY ONLY <1>0, <1>2, <1>4, <1>6, <1>8, Zenon DEF IsRunning
<1>. QED BY <1>9

\* maybe_init_instance_storage() changes no answer.
LEMMA NestRead ==
    ASSUME NEW h, RecOK(h), h.frames # <<>>, NEW i, NEW T, Nest(h, i, T), NEW R, R = ReadInstance(h)
    PROVE  RecOK(R.h) /\ R.out \in {"ok", "fail"} /\ R.h.frames # <<>> /\ Nest(R.h, i, T)
<1>0. PICK f, n, k : IsRunning(h, i, f, n, k)
  BY RunningIs
<1>1. PICK x, fr, gr, d, s, w, ev :  /\ x = Cached(f) /\ fr = h.frames /\ d = f.dirty
                                     /\ gr = [h.frames EXCEPT ![n] = FrameWith(f, x, f.dirty)]
                                     /\ s = Stored(h.map) /\ w = i.map /\ ev = h.events
  OBVIOUS
<1>2. /\ n \in Nat \ {0} /\ f = fr[n] /\ (\E S : fr \in Seq(S)) /\ d \in BOOLEAN /\ (d => f.cache # None)
  BY <1>0, <1>1, Zenon DEF IsRunning
<1>15. f = Last(h.frames) /\ n = Len(h.frames) /\ n = Len(fr)
  BY <1>0, <1>1, Zenon DEF IsRunning
<1>3. PICK r : r = SetCache(h, x)
  OBVIOUS
<1>4. RecOK(r) /\ r.map = h.map /\ r.events = h.events /\ r.frames = gr
  <2>1. SetFrame(h, r, n, f, x, f.dirty)
    BY <1>1, <1>3, <1>15, AssignSets, Zenon
  <2>. QED BY <1>1, <2>1, Zenon DEF SetFrame
<1>5. R = (IF x[1] = None THEN Fail(r) ELSE Ok(r))
  BY <1>1, <1>3, <1>15 DEF ReadInstance, SetCache
<1>6. R.h = r /\ R.out \in {"ok", "fail"}
  BY <1>5 DEF Ok, Fail
<1>7. PICK S : fr \in Seq(S)
  BY <1>2
<1>8. d => x = f.cache /\ x # None
  BY <1>1, <1>2, Zenon DEF Cached
<1>9. /\ Refreshed(fr, gr, n) /\ gr[n].c = f.c /\ gr[n].cache = x /\ gr[n].dirty = d
      /\ \A j \in 1..(n - 1) : gr[j] = fr[j]
  <2>0. n # 0
    BY <1>2
  <2>1. Assigns(fr, n, f, x, d, gr)
    BY <1>1, <1>2, <1>15, <1>7, <1>8, <2>0, Zenon DEF Assigns
  <2>2. Assigned(fr, n, f, x, d, gr)
    BY ONLY <2>1, Reassigned
  <2>. QED BY <2>2, Zenon DEF Assigned
<1>10. Spine(fr, ev, i, T) /\ Level(fr, n, T, s, w)
  BY <1>1, <1>15 DEF Nest
<1>11. Spine(gr, ev, i, T)
  <2>1. T \subseteq T /\ n \in Nat
    BY <1>2
  <2>. QED BY <1>9, <1>10, <2>1, SpineFrames
<1>12. \A j \in 1..n : SameFrame(fr[j], gr[j])
  <2> TAKE j \in 1..n
  <2>1. CASE j = n
    BY <1>1, <1>2, <1>8, <1>9, <2>1, Zenon DEF SameFrame
  <2>2. CASE j \in 1..(n - 1)
    BY <1>9, <2>2 DEF SameFrame
  <2>3. j = n \/ j \in 1..(n - 1)
    BY <1>2
  <2>. QED BY <2>1, <2>2, <2>3
<1>13. Level(gr, n, T, s, w)
  BY <1>10, <1>12, LevelFrames
<1>14. Len(gr) = n /\ gr # <<>>
  <2>1. Len(gr) = n
    BY <1>9 DEF Refreshed
  <2>2. Len(<<>>) = 0
    OBVIOUS
  <2>. QED BY <1>2, <2>1, <2>2
<1>. QED BY <1>1, <1>4, <1>6, <1>11, <1>13, <1>14 DEF Nest

\* Assignments to the parts of an instance entry.
LEMMA InstanceEdits ==
    ASSUME NEW k, k[1] = "instance", NEW o, IsEntry(k, o), o # None
    PROVE  /\ \A d : <<[o[1] EXCEPT !.val[2] = d]>> = WithData(o, d)
           /\ \A e : <<[o[1] EXCEPT !.val[1] = e]>> = WithCode(o, e)
<1>1. PICK e, d, l : o = <<[val |-> <<e, d>>, live |-> l]>>
  BY InstanceForm DEF InstanceOf, Instance
<1>2. o[1] = [val |-> <<e, d>>, live |-> l]
  BY <1>1
<1>3. ASSUME NEW x PROVE <<[o[1] EXCEPT !.val[2] = x]>> = WithData(o, x)
  <2>1. [o[1] EXCEPT !.val[2] = x] = [val |-> <<e, x>>, live |-> l]
    BY <1>2
  <2>. QED BY <1>2, <2>1 DEF WithData, Instance
<1>4. ASSUME NEW x PROVE <<[o[1] EXCEPT !.val[1] = x]>> = WithCode(o, x)
  <2>1. [o[1] EXCEPT !.val[1] = x] = [val |-> <<x, d>>, live |-> l]
    BY <1>2
  <2>. QED BY <1>2, <2>1 DEF WithCode
<1>. QED BY <1>3, <1>4

\* with_mut_instance_storage() is a write through.
LEMMA NestWrite ==
    ASSUME NEW h, RecOK(h), h.frames # <<>>, NEW i, NEW T, Nest(h, i, T), NEW opt, NEW R, R = WriteInstance(h, opt),
           NEW k, k = InstKey(Last(h.frames).c)
    PROVE  RecOK(R.h) /\ R.out = "ok" /\ Nest(R.h, [i EXCEPT !.map = SetAt(@, k, <<[i.map[k][1] EXCEPT !.val[2] = opt]>>)], T)
<1>0. PICK f, n : IsRunning(h, i, f, n, k)
  BY RunningIs, Zenon DEF IsRunning
<1>1. PICK x, fr, gr, s, w, ev, yes, c : /\ x = <<opt>> /\ fr = h.frames /\ yes = TRUE
                                     /\ gr = [h.frames EXCEPT ![n] = FrameWith(f, x, TRUE)]
                                     /\ s = Stored(h.map) /\ w = i.map /\ ev = h.events /\ c = f.c
  OBVIOUS
<1>2. /\ n \in Nat \ {0} /\ f = fr[n] /\ (\E S : fr \in Seq(S)) /\ k \in LedgerKeys /\ s[k] # None /\ w[k] # None /\ IsEntry(k, w[k])
  BY <1>0, <1>1, Zenon DEF IsRunning
<1>24. f = Last(h.frames) /\ n = Len(h.frames) /\ n = Len(fr) /\ k = InstKey(f.c)
  BY <1>0, <1>1, Zenon DEF IsRunning
<1>3. PICK r : r = SetDirty(h, x)
  OBVIOUS
<1>4. RecOK(r) /\ r.map = h.map /\ r.events = h.events /\ r.frames = gr
  <2>1. SetFrame(h, r, n, f, x, TRUE)
    BY <1>1, <1>3, <1>24, AssignSets, Zenon
  <2>. QED BY <1>1, <2>1, Zenon DEF SetFrame
<1>5. R = Ok(r)
  BY <1>1, <1>3, <1>24 DEF WriteInstance, SetDirty
<1>6. R.h = r /\ R.out = "ok"
  BY <1>5 DEF Ok
<1>7. PICK S : fr \in Seq(S)
  BY <1>2
<1>8. x # None /\ x[1] = opt
  BY <1>1 DEF None
<1>9. /\ Refreshed(fr, gr, n) /\ gr[n].c = f.c /\ gr[n].cache = x /\ gr[n].dirty = yes
      /\ \A j \in 1..(n - 1) : gr[j] = fr[j]
  <2>0. n # 0 /\ yes \in BOOLEAN
    BY <1>1, <1>2
  <2>1. Assigns(fr, n, f, x, yes, gr)
    BY <1>1, <1>2, <1>24, <1>7, <1>8, <2>0, Zenon DEF Assigns
  <2>2. Assigned(fr, n, f, x, yes, gr)
    BY ONLY <2>1, Reassigned
  <2>. QED BY <2>2, Zenon DEF Assigned
<1>10. Spine(fr, ev, i, T) /\ Level(fr, n, T, s, w) /\ FramesApart(fr, n, T)
  BY <1>1, <1>24 DEF Nest, Spine
<1>11. Spine(gr, ev, i, T)
  <2>1. T \subseteq T /\ n \in Nat
    BY <1>2
  <2>. QED BY <1>9, <1>10, <2>1, SpineFrames
<1>12. gr[n].dirty /\ fr[n].c = c /\ gr[n].c = c /\ gr[n].cache[1] = opt /\ k = InstKey(c)
  <2>1. gr[n].dirty
    BY <1>1, <1>9, Zenon
  <2>. QED BY <1>1, <1>2, <1>8, <1>9, <1>24, <2>1
<1>13. PICK v, u : v = WithData(w[k], opt) /\ u = [w EXCEPT ![k] = v]
  OBVIOUS
<1>14. Level(gr, n, T, s, u)
  <2>1. /\ n \in Nat \ {0} /\ Level(fr, n, T, s, w) /\ FramesApart(fr, n, T) /\ (\A j \in 1..(n - 1) : gr[j] = fr[j])
        /\ k \in LedgerKeys /\ s[k] # None
    BY <1>2, <1>9, <1>10
  <2>2. w[k] # None /\ Level(gr, n, T, s, [w EXCEPT ![k] = WithData(w[k], opt)])
    BY ONLY <1>12, <2>1, LevelWrite
  <2>. QED BY <1>13, <2>2
<1>15. u = SetAt(w, k, v)
  BY <1>2, <1>10, <1>13 DEF SetAt, Level
<1>16. Len(gr) = n
  BY <1>9 DEF Refreshed
<1>17. Spine(r.frames, r.events, i, T) /\ Level(r.frames, Len(r.frames), T, Stored(r.map), u)
  BY <1>1, <1>4, <1>11, <1>14, <1>16
<1>18. PICK m, sv, iev, y : m = i.map /\ sv = i.saved /\ iev = i.events /\ y = Store(u, sv, iev)
  OBVIOUS
<1>19. i = Store(m, sv, iev) /\ y = Store(u, sv, iev)
  BY <1>10, <1>18 DEF Spine
<1>20. [i EXCEPT !.map = u] = y /\ y.map = u /\ y.saved = sv /\ y.events = iev
  BY ONLY <1>19, StoreFields
<1>21. Nest(r, y, T)
  <2>1. Spine(r.frames, r.events, y, T)
    BY <1>17, <1>18, <1>19, <1>20 DEF Spine
  <2>. QED BY <1>17, <1>20, <2>1 DEF Nest
<1>22. v = <<[w[k][1] EXCEPT !.val[2] = opt]>>
  <2>1. k[1] = "instance"
    BY DEF InstKey
  <2>. QED BY <1>2, <1>13, <2>1, InstanceEdits
<1>23. [i EXCEPT !.map = SetAt(@, k, <<[i.map[k][1] EXCEPT !.val[2] = opt]>>)] = [i EXCEPT !.map = u]
  BY <1>1, <1>15, <1>22
<1>. QED BY <1>4, <1>6, <1>20, <1>21, <1>23

\* A host function that gave R did to the recording host what x is for the ideal store; when it failed, both
\* still have the same to return to.
Answered(R, i, x, U) ==
    /\ RecOK(R.h) /\ R.out \in {"ok", "fail"}
    /\ R.out = "ok" => Nest(R.h, x, U)
    /\ R.out = "fail" => Spine(R.h.frames, R.h.events, i, U)

\* What is to return to is a matter of frames and events.
LEMMA SpineSame ==
    ASSUME NEW h, NEW i, NEW T, Nest(h, i, T), NEW g, g.frames = h.frames, g.events = h.events
    PROVE  Spine(g.frames, g.events, i, T)
BY DEF Nest

\* Only the footprint changed.
LEMMA AnsweredKeeps ==
    ASSUME NEW h, RecOK(h), NEW i, NEW T, Nest(h, i, T), NEW R, RecOK(R.h), R.out \in {"ok", "fail"}, Keeps(h, R.h)
    PROVE  Answered(R, i, i, T)
<1>1. Nest(R.h, i, T)
  BY NestKeeps
<1>. QED BY <1>1 DEF Answered, Nest

\* What both have under a key.
LEMMA NestCell ==
    ASSUME NEW h, NEW i, NEW T, Nest(h, i, T), NEW k \in LedgerKeys
    PROVE  /\ Cell(h.frames, Len(h.frames), T, k, Stored(h.map)[k], i.map[k])
           /\ IsEntry(k, i.map[k]) /\ IsEntry(k, Stored(h.map)[k]) /\ Alike(Stored(h.map)[k], i.map[k])
           /\ i = Store(i.map, i.saved, i.events) /\ i.map = [j \in LedgerKeys |-> i.map[j]]
           /\ Level(h.frames, Len(h.frames), T, Stored(h.map), i.map)
BY DEF Nest, Level, Spine, Cell

\* The ideal store has an entry for a key.
HasEntry(i, k) ==
    /\ i = Store(i.map, i.saved, i.events) /\ i.map = [j \in LedgerKeys |-> i.map[j]] /\ k \in LedgerKeys
    /\ IsEntry(k, i.map[k]) /\ i.map[k] # None
\* It extends its life.
LEMMA IdealExtends ==
    ASSUME NEW i, NEW k, HasEntry(i, k), NEW args
    PROVE  IdealExtend(i, k, args) = [i EXCEPT !.map = Extended(i.map, k, args[1], args[2])]
<1>0. PICK w, th, ext : w = i.map /\ th = args[1] /\ ext = args[2]
  OBVIOUS
<1>10. i = Store(i.map, i.saved, i.events) /\ w = [j \in LedgerKeys |-> w[j]] /\ k \in LedgerKeys /\ IsEntry(k, w[k]) /\ w[k] # None
  BY <1>0 DEF HasEntry
<1>1. PICK sv, ev, cap : sv = i.saved /\ ev = i.events /\ cap = Cap(ext)
  OBVIOUS
<1>2. i = Store(w, sv, ev)
  BY <1>0, <1>1, <1>10
<1>3. PICK v, l : EntryOf(k, w[k], v, l)
  BY <1>10, EntryForm
<1>4. w[k] = <<[val |-> v, live |-> l]>> /\ w[k][1].val = v
  BY <1>3 DEF EntryOf
<1>5. [i EXCEPT !.map = w] = i
  <2>1. [i EXCEPT !.map = w] = Store(w, sv, ev)
    BY ONLY <1>2, StoreFields
  <2>. QED BY <1>2, <2>1
<1>6. [i EXCEPT !.map[k][1].live = cap] = [i EXCEPT !.map = [w EXCEPT ![k] = <<[val |-> v, live |-> cap]>>]]
  <2>1. [w[k] EXCEPT ![1].live = cap] = <<[val |-> v, live |-> cap]>>
    BY <1>4
  <2>2. [i EXCEPT !.map[k][1].live = cap] = [i EXCEPT !.map = [w EXCEPT ![k] = [w[k] EXCEPT ![1].live = cap]]]
    BY <1>2, <1>10 DEF Store
  <2>. QED BY <2>1, <2>2
<1>7. IdealExtend(i, k, args) = IF IsDue(w[k], th, ext) THEN [i EXCEPT !.map[k][1].live = cap] ELSE i
  BY <1>0, <1>1 DEF IdealExtend, IsDue, Cap
<1>8. WithLife(w[k], cap) = <<[val |-> v, live |-> cap]>>
  BY <1>4 DEF WithLife
<1>. QED BY <1>0, <1>1, <1>5, <1>6, <1>7, <1>8 DEF Extended

\* Both sides extend the life of an entry.
LEMMA NestExtended ==
    ASSUME NEW h, NEW i, NEW T, Nest(h, i, T), NEW k \in LedgerKeys, NEW th \in Nat, NEW ext \in Nat, NEW g, Extends(h, g, k, th, ext),
           NEW args, th = args[1], ext = args[2]
    PROVE  Nest(g, IdealExtend(i, k, args), T)
<1>1. PICK s, w, fr, n : s = Stored(h.map) /\ w = i.map /\ fr = h.frames /\ n = Len(h.frames)
  OBVIOUS
<1>2. s[k] # None /\ Stored(g.map) = Extended(s, k, th, ext) /\ g.frames = fr /\ g.events = h.events
  BY <1>1 DEF Extends
<1>3. Level(fr, n, T, s, w) /\ IsEntry(k, w[k]) /\ i = Store(i.map, i.saved, i.events) /\ w = [j \in LedgerKeys |-> w[j]] /\ Alike(s[k], w[k])
  BY <1>1, NestCell
<1>4. s = [j \in LedgerKeys |-> s[j]]
  BY <1>1, StoredIs
<1>5. Level(fr, n, T, Stored(g.map), Extended(w, k, th, ext))
  BY <1>2, <1>3, <1>4, LevelExtended
<1>6. w[k] # None
  BY <1>2, <1>3 DEF Alike
<1>7. IdealExtend(i, k, args) = [i EXCEPT !.map = Extended(w, k, th, ext)]
  <2>1. HasEntry(i, k)
    BY <1>1, <1>3, <1>6 DEF HasEntry
  <2>2. IdealExtend(i, k, args) = [i EXCEPT !.map = Extended(i.map, k, args[1], args[2])]
    BY ONLY <2>1, IdealExtends
  <2>. QED BY <1>1, <2>2
<1>8. Nest(g, [i EXCEPT !.map = Extended(w, k, th, ext)], T)
  BY <1>1, <1>2, <1>5, NestMap
<1>. QED BY <1>7, <1>8

\* extend_ttl().
LEMMA AnsweredExtend ==
    ASSUME NEW h, RecOK(h), NEW i, NEW T, Nest(h, i, T), NEW k \in LedgerKeys, NEW th \in Nat, NEW ext \in Nat,
           NEW args, th = args[1], ext = args[2], NEW R, R = ExtendTtl(h, k, th, ext)
    PROVE  Answered(R, i, IdealExtend(i, k, args), T)
<1>1. /\ RecOK(R.h) /\ R.out \in {"ok", "fail"} /\ R.h.frames = h.frames /\ R.h.events = h.events
      /\ R.out = "ok" => Extends(h, R.h, k, th, ext)
  BY ONLY RecOK(h), k \in LedgerKeys, th \in Nat, ext \in Nat, R = ExtendTtl(h, k, th, ext), ExtendTtlExtends
<1>2. R.out = "ok" => Nest(R.h, IdealExtend(i, k, args), T)
  BY <1>1, NestExtended
<1>3. Spine(R.h.frames, R.h.events, i, T)
  BY <1>1, SpineSame
<1>. QED BY <1>1, <1>2, <1>3 DEF Answered

\* Both sides name the same code.
LEMMA SameCode ==
    ASSUME NEW h, NEW i, NEW T, Nest(h, i, T), NEW c, InstKey(c) \in LedgerKeys, Stored(h.map)[InstKey(c)] # None
    PROVE  CodeOf(i.map, c) = CodeOf(Stored(h.map), c)
<1>1. Alike(Stored(h.map)[InstKey(c)], i.map[InstKey(c)])
  BY NestCell
<1>. QED BY <1>1 DEF Alike, CodeOf

\* extend_contract_code_ttl().
LEMMA AnsweredExtendCode ==
    ASSUME NEW h, RecOK(h), NEW i, NEW T, Nest(h, i, T), NEW c, InstKey(c) \in LedgerKeys, NEW th \in Nat, NEW ext \in Nat,
           NEW args, th = args[1], ext = args[2], NEW R, R = ExtendCode(h, c, th, ext)
    PROVE  Answered(R, i, IdealExtend(i, CodeOf(i.map, c), args), T)
<1>1. PICK k, j : k = InstKey(c) /\ j = CodeOf(Stored(h.map), c)
  OBVIOUS
<1>2. /\ RecOK(R.h) /\ R.out \in {"ok", "fail"} /\ R.h.frames = h.frames /\ R.h.events = h.events
      /\ R.out = "ok" => Stored(h.map)[k] # None /\ j \in LedgerKeys /\ Extends(h, R.h, j, th, ext)
  <2>1. k \in LedgerKeys /\ k = InstKey(c) /\ j = CodeOf(Stored(h.map), c)
    BY <1>1
  <2>. QED BY ONLY <2>1, RecOK(h), th \in Nat, ext \in Nat, R = ExtendCode(h, c, th, ext), ExtendCodeExtends
<1>3. R.out = "ok" => CodeOf(i.map, c) = j
  BY <1>1, <1>2, SameCode
<1>4. R.out = "ok" => Nest(R.h, IdealExtend(i, j, args), T)
  BY <1>2, NestExtended
<1>5. Spine(R.h.frames, R.h.events, i, T)
  BY <1>2, SpineSame
<1>. QED BY <1>2, <1>3, <1>4, <1>5 DEF Answered

\* extend_contract_instance_and_code_ttl(): the code is the same before and after the instance lives longer.
LEMMA AnsweredExtendBoth ==
    ASSUME NEW h, RecOK(h), NEW i, NEW T, Nest(h, i, T), NEW c, InstKey(c) \in LedgerKeys, NEW th \in Nat, NEW ext \in Nat,
           NEW args, th = args[1], ext = args[2], NEW R, R = ExtendInstanceAndCode(h, c, th, ext)
    PROVE  Answered(R, i, IdealExtend(IdealExtend(i, InstKey(c), args), CodeOf(i.map, c), args), T)
<1>1. PICK k, s, m, n : k = InstKey(c) /\ s = Extended(Stored(h.map), k, th, ext) /\ m = Stored(h.map) /\ n = CodeOf(s, c)
  OBVIOUS
<1>2. /\ RecOK(R.h) /\ R.out \in {"ok", "fail"} /\ R.h.frames = h.frames /\ R.h.events = h.events
      /\ R.out = "ok" => ExtendsBoth(h, R.h, c, th, ext)
  <2>1. k \in LedgerKeys /\ k = InstKey(c)
    BY <1>1
  <2>. QED BY ONLY <2>1, RecOK(h), th \in Nat, ext \in Nat, R = ExtendInstanceAndCode(h, c, th, ext), ExtendBothExtends
<1>3. Spine(R.h.frames, R.h.events, i, T)
  BY <1>2, SpineSame
<1>4. ASSUME R.out = "ok" PROVE Nest(R.h, IdealExtend(IdealExtend(i, k, args), CodeOf(i.map, c), args), T)
  <2>1. /\ m[k] # None /\ s[k] # None /\ n \in LedgerKeys /\ s[n] # None
        /\ Stored(R.h.map) = Extended(s, n, th, ext) /\ R.h.frames = h.frames /\ R.h.events = h.events
    BY <1>1, <1>2, <1>4 DEF ExtendsBoth
  <2>2. PICK x : x = [h EXCEPT !.map = s]
    OBVIOUS
  <2>3. x.map = s /\ x.frames = h.frames /\ x.events = h.events
    BY <2>2 DEF RecOK, Host
  <2>4. m = [j \in LedgerKeys |-> m[j]]
    BY <1>1, StoredIs
  <2>5. s = [j \in LedgerKeys |-> s[j]]
    BY <1>1, <2>4 DEF Extended
  <2>6. Stored(x.map) = s
    <3>1. DOMAIN s = LedgerKeys
      BY <2>5
    <3>2. \A q \in LedgerKeys : Stored(s)[q] = s[q]
      BY <3>1, StoredIs
    <3>3. Stored(s) = [q \in LedgerKeys |-> Stored(s)[q]]
      BY StoredIs
    <3>. QED BY <2>3, <2>5, <3>2, <3>3
  <2>7. Extends(h, x, k, th, ext)
    BY <1>1, <2>1, <2>3, <2>6 DEF Extends
  <2>8. PICK y : y = IdealExtend(i, k, args)
    OBVIOUS
  <2>9. Nest(x, y, T)
    BY <1>1, <2>7, <2>8, NestExtended
  <2>10. Extends(x, R.h, n, th, ext)
    BY <2>1, <2>3, <2>6 DEF Extends
  <2>11. Nest(R.h, IdealExtend(y, n, args), T)
    BY <2>1, <2>9, <2>10, NestExtended
  <2>12. CodeOf(i.map, c) = CodeOf(m, c)
    BY <1>1, <2>1, SameCode
  <2>13. n = CodeOf(m, c)
    <3>1. s = m \/ s = [m EXCEPT ![k] = WithLife(m[k], Cap(ext))]
      BY <1>1 DEF Extended
    <3>2. s[k][1].val = m[k][1].val
      BY <1>1, <2>4, <3>1 DEF WithLife
    <3>. QED BY <1>1, <3>2 DEF CodeOf
  <2>. QED BY <2>8, <2>11, <2>12, <2>13
<1>. QED BY <1>1, <1>2, <1>3, <1>4 DEF Answered

\* A key that is not an instance is written.
LEMMA AnsweredPut ==
    ASSUME NEW h, NEW i, NEW T, Nest(h, i, T), NEW k \in LedgerKeys, k[1] # "instance", NEW o, IsEntry(k, o), NEW R,
           RecOK(R.h), R.out = "ok", SetsTo(h, R.h, k, o)
    PROVE  Answered(R, i, [i EXCEPT !.map = SetAt(@, k, o)], T)
<1>1. Cell(h.frames, Len(h.frames), T, k, o, o)
  BY CellPlain
<1>2. Nest(R.h, [i EXCEPT !.map = SetAt(@, k, o)], T)
  BY <1>1, NestPut
<1>. QED BY <1>2 DEF Answered

\* Such a key has the same entry on both sides.
LEMMA SamePlain ==
    ASSUME NEW h, NEW i, NEW T, Nest(h, i, T), NEW k \in LedgerKeys, k[1] # "instance"
    PROVE  Stored(h.map)[k] = i.map[k]
<1>1. PICK fr, n, s, w : fr = h.frames /\ n = Len(h.frames) /\ s = Stored(h.map)[k] /\ w = i.map[k]
  OBVIOUS
<1>2. Cell(fr, n, T, k, s, w)
  BY <1>1, NestCell
<1>3. s = w
  BY <1>2, CellPlain
<1>. QED BY <1>1, <1>3

\* put_contract_data_into_ledger().
LEMMA AnsweredPutData ==
    ASSUME NEW h, RecOK(h), NEW i, NEW T, Nest(h, i, T), NEW k \in LedgerKeys, k[1] # "instance", NEW v, NEW R, R = PutData(h, k, v)
    PROVE  Answered(R, i, [i EXCEPT !.map = SetAt(@, k, DataEntry(i.map, k, v))], T)
<1>1. PICK o : o = DataEntry(Stored(h.map), k, v)
  OBVIOUS
<1>2. RecOK(R.h) /\ R.out = "ok" /\ SetsTo(h, R.h, k, o) /\ IsEntry(k, o)
  BY <1>1, PutDataSets
<1>3. o = DataEntry(i.map, k, v)
  BY <1>1, SamePlain DEF DataEntry, LifeOf
<1>4. Answered(R, i, [i EXCEPT !.map = SetAt(@, k, o)], T)
  BY <1>2, AnsweredPut
<1>. QED BY <1>3, <1>4

\* del_contract_data().
LEMMA AnsweredDel ==
    ASSUME NEW h, RecOK(h), NEW i, NEW T, Nest(h, i, T), NEW k \in LedgerKeys, k[1] # "instance", NEW R, R = PutOpt(h, k, None)
    PROVE  Answered(R, i, [i EXCEPT !.map = SetAt(@, k, None)], T)
<1>1. PICK o : o = None
  OBVIOUS
<1>2. IsEntry(k, o)
  BY <1>1 DEF IsEntry
<1>3. R = PutOpt(h, k, o)
  BY <1>1
<1>4. RecOK(R.h) /\ R.out = "ok" /\ SetsTo(h, R.h, k, o)
  BY <1>2, <1>3, PutSets
<1>5. Answered(R, i, [i EXCEPT !.map = SetAt(@, k, o)], T)
  BY <1>2, <1>4, AnsweredPut
<1>. QED BY <1>1, <1>5

\* upload_contract_wasm().
LEMMA AnsweredUpload ==
    ASSUME NEW h, RecOK(h), NEW i, NEW T, Nest(h, i, T), NEW w, NEW k \in LedgerKeys, k = CodeKey(w), NEW R, R = Upload(h, w)
    PROVE  Answered(R, i, IF IsRefined(i.map, k) THEN i ELSE [i EXCEPT !.map = SetAt(@, k, Refined(k))], T)
<1>1. PICK o : o = Refined(k)
  OBVIOUS
<1>2. /\ RecOK(R.h) /\ R.out = "ok" /\ IsEntry(k, o)
      /\ IF IsRefined(Stored(h.map), k) THEN Keeps(h, R.h) ELSE SetsTo(h, R.h, k, o)
  BY <1>1, UploadSets
<1>3. k[1] # "instance"
  BY DEF CodeKey
<1>4. IsRefined(Stored(h.map), k) <=> IsRefined(i.map, k)
  BY <1>3, SamePlain DEF IsRefined
<1>5. CASE IsRefined(i.map, k)
  BY <1>2, <1>4, <1>5, AnsweredKeeps
<1>6. CASE ~IsRefined(i.map, k)
  <2>1. Answered(R, i, [i EXCEPT !.map = SetAt(@, k, o)], T)
    BY <1>2, <1>3, <1>4, <1>6, AnsweredPut
  <2>. QED BY <1>1, <1>6, <2>1
<1>. QED BY <1>5, <1>6

\* record_contract_event().
LEMMA AnsweredEvent ==
    ASSUME NEW h, RecOK(h), NEW i, NEW T, Nest(h, i, T), NEW e, NEW R, R = Ok(RecordEvent(h, e))
    PROVE  Answered(R, i, [i EXCEPT !.events = Append(@, e)], T)
<1>1. PICK D : D = h.fp /\ FpOK(D)
  BY DEF RecOK
<1>2. RecOK(R.h) /\ R.out = "ok" /\ R.h.map = h.map /\ R.h.frames = h.frames
  BY <1>1, EventSim DEF Sim, RecStep
<1>3. R.h.events = Append(h.events, [what |-> e, failed |-> FALSE])
  BY DEF Ok, RecordEvent, RecOK, Host
<1>4. Nest(R.h, [i EXCEPT !.events = Append(@, e)], T)
  BY <1>2, <1>3, NestEvent
<1>. QED BY <1>2, <1>4 DEF Answered

\* A contract is entered that is not on the stack, or may re-enter itself.
MayEnter(h, c, U) == c \in U \/ \A j \in 1..Len(h.frames) : h.frames[j].c # c
Entered(i) == [i EXCEPT !.saved = Append(@, [map |-> i.map, events |-> Len(i.events)])]
\* Both keep what they return to, or the host refuses.
LEMMA AnsweredEnter ==
    ASSUME NEW h, RecOK(h), NEW i, NEW T, Nest(h, i, T), NEW c \in LContracts, NEW U, T \subseteq U, MayEnter(h, c, U),
           NEW R, R = EnterFrame(h, c)
    PROVE  Answered(R, i, Entered(i), U)
<1>1. /\ RecOK(R.h) /\ R.out \in {"ok", "fail"}
      /\ R.out = "ok" => Enters(h, R.h, c)
      /\ R.out = "fail" => Keeps(h, R.h)
  BY ONLY RecOK(h), c \in LContracts, R = EnterFrame(h, c), EnterEnters
<1>2. c \in U \/ \A j \in 1..Len(h.frames) : h.frames[j].c # c
  BY DEF MayEnter
<1>3. ASSUME R.out = "ok" PROVE Nest(R.h, Entered(i), U)
  <2>1. Enters(h, R.h, c)
    BY <1>1, <1>3
  <2>2. Nest(R.h, [i EXCEPT !.saved = Append(@, [map |-> i.map, events |-> Len(i.events)])], U)
    BY ONLY RecOK(h), Nest(h, i, T), <2>1, T \subseteq U, <1>2, NestEnter
  <2>. QED BY <2>2 DEF Entered
<1>4. Nest(h, i, U)
  BY NestGrows
<1>5. R.out = "fail" => Spine(R.h.frames, R.h.events, i, U)
  BY <1>1, <1>4, SpineSame DEF Keeps
<1>. QED BY <1>1, <1>3, <1>5 DEF Answered

\* A call that does not enter and is forgiven.
LEMMA AnsweredRefused ==
    ASSUME NEW h, RecOK(h), NEW i, NEW T, Nest(h, i, T), NEW c \in LContracts, NEW P, P = EnterFrame(h, c), P.out = "fail",
           NEW R, R = Forgiven(P)
    PROVE  Answered(R, i, i, T)
<1>1. RecOK(P.h) /\ (P.out = "fail" => Keeps(h, P.h))
  BY ONLY RecOK(h), c \in LContracts, P = EnterFrame(h, c), EnterEnters
<1>2. P = [h |-> P.h, out |-> P.out]
  <2>1. PICK D : D = h.fp /\ FpOK(D)
    BY DEF RecOK
  <2>2. Sim(D, h, P, EnterFrame(Replay(D, h), c))
    BY <2>1, EnterSim
  <2>. QED BY <2>2 DEF Sim, RecStep
<1>3. PICK g : g = P.h /\ P = [h |-> g, out |-> "fail"]
  BY <1>2
<1>4. R.h = g /\ R.out = "ok"
  BY <1>3 DEF Forgiven
<1>. QED BY <1>1, <1>3, <1>4, AnsweredKeeps

\* No frame is of a contract that is not there.
LEMMA NotOnStack ==
    ASSUME NEW h, RecOK(h), NEW c, NEW k, k = InstKey(c), Stored(h.map)[k] = None, NEW U PROVE MayEnter(h, c, U)
<1>1. ASSUME NEW j \in 1..Len(h.frames), h.frames[j].c = c PROVE FALSE
  <2>1. Present(h.map, c) /\ c \in LContracts
    BY <1>1 DEF RecOK, FramesOK, FrameOK
  <2>2. k \in LedgerKeys
    BY <2>1, LedgerAssumption
  <2>. QED BY <2>1, <2>2, StoredPresent
<1>. QED BY <1>1 DEF MayEnter

\* create_contract_with_id() and the call of its constructor.
LEMMA AnsweredCreate ==
    ASSUME NEW h, RecOK(h), NEW i, NEW T, Nest(h, i, T), NEW c \in LContracts, NEW w, CodeKey(w) \in LedgerKeys,
           NEW R, R = CreateAndEnter(h, c, w), NEW k, k = InstKey(c)
    PROVE  Answered(R, i, Entered([i EXCEPT !.map = SetAt(@, k, Instance(w, None, MinLiveUntil(k)))]), T)
<1>1. PICK P, o, x : P = CreateWithId(h, c, w) /\ o = Instance(w, None, MinLiveUntil(k)) /\ x = [i EXCEPT !.map = SetAt(@, k, o)]
  OBVIOUS
<1>2. k \in LedgerKeys
  BY LedgerAssumption
<1>3. /\ RecOK(P.h) /\ P.out \in {"ok", "fail"}
      /\ P.out = "ok" => Stored(h.map)[k] = None /\ SetsTo(h, P.h, k, o) /\ IsEntry(k, o) /\ o # None
      /\ P.out = "fail" => Keeps(h, P.h)
  BY ONLY RecOK(h), <1>2, k = InstKey(c), CodeKey(w) \in LedgerKeys, <1>1, CreateSets
<1>4. CASE P.out # "ok"
  <2>1. R = P
    BY <1>1, <1>4 DEF CreateAndEnter, Then
  <2>2. P.out = "fail"
    BY <1>3, <1>4
  <2>3. Keeps(h, P.h)
    BY <1>3, <2>2
  <2>4. Spine(P.h.frames, P.h.events, i, T)
    BY <2>3, SpineSame DEF Keeps
  <2>. QED BY <1>3, <2>1, <2>2, <2>4 DEF Answered
<1>5. CASE P.out = "ok"
  <2>1. Stored(h.map)[k] = None /\ SetsTo(h, P.h, k, o) /\ IsEntry(k, o)
    BY <1>3, <1>5
  <2>2. R = EnterFrame(P.h, c)
    BY <1>1, <1>5 DEF CreateAndEnter, Then
  <2>3. Cell(h.frames, Len(h.frames), T, k, None, i.map[k])
    BY <1>2, <2>1, NestCell
  <2>4. Cell(h.frames, Len(h.frames), T, k, o, o)
    BY <2>1, <2>3, CellNew
  <2>5. Nest(P.h, x, T)
    BY <1>1, <1>2, <2>1, <2>4, NestPut
  <2>6. P.h.frames = h.frames /\ P.h.events = h.events
    BY <2>1 DEF SetsTo
  <2>7. MayEnter(P.h, c, T)
    <3>1. MayEnter(h, c, T)
      BY <2>1, NotOnStack
    <3>. QED BY <2>6, <3>1 DEF MayEnter
  <2>8. Answered(R, x, Entered(x), T)
    <3>1. T \subseteq T
      OBVIOUS
    <3>. QED BY ONLY <1>3, <2>2, <2>5, <2>7, <3>1, c \in LContracts, AnsweredEnter
  <2>9. R.out = "fail" => Spine(R.h.frames, R.h.events, i, T)
    <3>1. R.out = "fail" => Keeps(P.h, R.h)
      BY ONLY <1>3, c \in LContracts, <2>2, EnterEnters
    <3>2. R.out = "fail" => R.h.frames = h.frames /\ R.h.events = h.events
      BY <2>6, <3>1 DEF Keeps
    <3>. QED BY <3>2, SpineSame
  <2>. QED BY <1>1, <2>8, <2>9 DEF Answered
<1>. QED BY <1>4, <1>5

\* The code of an instance changes, whatever frames keep of its data.
LEMMA CellCode ==
    ASSUME NEW fr, NEW n, NEW T, NEW k, k[1] = "instance", NEW o, NEW w, Cell(fr, n, T, k, o, w), o # None, NEW e, CodeKey(e) \in LedgerKeys
    PROVE  Cell(fr, n, T, k, WithCode(o, e), WithCode(w, e))
<1>1. PICK l, p, v : l = o[1].live /\ p = Instance(e, o[1].val[2], l) /\ v = Instance(e, w[1].val[2], l)
  OBVIOUS
<1>2. IsEntry(k, o) /\ Alike(o, w)
  BY DEF Cell
<1>3. l \in Int /\ l >= Seq0
  BY <1>1, <1>2, InstanceForm
<1>4. w[1].live = l
  BY <1>1, <1>2 DEF Alike
<1>5. Cell(fr, n, T, k, p, v)
  BY ONLY k[1] = "instance", Cell(fr, n, T, k, o, w), o # None, CodeKey(e) \in LedgerKeys, <1>1, <1>3, CellPart
<1>6. p = WithCode(o, e) /\ v = WithCode(w, e)
  BY <1>1, <1>4 DEF WithCode, Instance
<1>. QED BY <1>5, <1>6

\* update_current_contract_wasm().
LEMMA AnsweredUpdate ==
    ASSUME NEW h, RecOK(h), h.frames # <<>>, NEW i, NEW T, Nest(h, i, T), NEW c, c = Last(h.frames).c, NEW k \in LedgerKeys, k = InstKey(c),
           NEW w, CodeKey(w) \in LedgerKeys, NEW R, R = UpdateWasm(h, w), NEW ev, ev = <<"update", w>>
    PROVE  Answered(R, i, [[i EXCEPT !.map = SetAt(@, k, <<[i.map[k][1] EXCEPT !.val[1] = w]>>)] EXCEPT !.events = Append(@, ev)], T)
<1>1. PICK s, o, m, v : s = Stored(h.map) /\ o = WithCode(s[k], w) /\ m = i.map /\ v = WithCode(m[k], w)
  OBVIOUS
<1>2. /\ RecOK(R.h) /\ R.out \in {"ok", "fail"}
      /\ R.out = "ok" => Updates(h, R.h, k, w)
      /\ R.out = "fail" => Keeps(h, R.h)
  <2>1. c = Last(h.frames).c /\ k \in LedgerKeys /\ k = InstKey(c) /\ CodeKey(w) \in LedgerKeys /\ R = UpdateWasm(h, w) /\ RecOK(h)
    OBVIOUS
  <2>. QED BY ONLY <2>1, UpdateSets
<1>3. R.out = "fail" => Spine(R.h.frames, R.h.events, i, T)
  BY <1>2, SpineSame DEF Keeps
<1>4. ASSUME R.out = "ok"
      PROVE  Nest(R.h, [[i EXCEPT !.map = SetAt(@, k, <<[i.map[k][1] EXCEPT !.val[1] = w]>>)] EXCEPT !.events = Append(@, ev)], T)
  <2>1. /\ s[k] # None /\ Stored(R.h.map) = [s EXCEPT ![k] = o] /\ R.h.frames = h.frames
        /\ R.h.events = Append(h.events, [what |-> ev, failed |-> FALSE])
    BY <1>1, <1>2, <1>4 DEF Updates
  <2>2. PICK g : g = [h EXCEPT !.events = R.h.events]
    OBVIOUS
  <2>3. g.map = h.map /\ g.frames = h.frames /\ g.events = Append(h.events, [what |-> ev, failed |-> FALSE])
    BY <2>1, <2>2 DEF RecOK, Host
  <2>4. PICK x : x = [i EXCEPT !.events = Append(@, ev)]
    OBVIOUS
  <2>5. Nest(g, x, T)
    BY <2>3, <2>4, NestEvent
  <2>6. i = Store(m, i.saved, i.events)
    BY <1>1 DEF Nest, Spine
  <2>7. PICK sv, jev : sv = i.saved /\ jev = Append(i.events, ev)
    OBVIOUS
  <2>20. PICK iev : iev = i.events /\ i = Store(m, sv, iev) /\ jev = Append(iev, ev)
    BY <2>6, <2>7
  <2>21. i.events = iev /\ [i EXCEPT !.events = jev] = Store(m, sv, jev)
    <3>1. i = Store(m, sv, iev)
      BY <2>20
    <3>. QED BY ONLY <3>1, StoreFields
  <2>8. x = Store(m, sv, jev) /\ x.map = m
    <3>1. x = Store(m, sv, jev)
      BY <2>4, <2>20, <2>21
    <3>. QED BY ONLY <3>1, StoreFields
  <2>9. Cell(h.frames, Len(h.frames), T, k, s[k], m[k]) /\ IsEntry(k, m[k]) /\ Alike(s[k], m[k])
    BY <1>1, NestCell
  <2>10. k[1] = "instance" /\ m[k] # None
    BY <2>1, <2>9 DEF InstKey, Alike
  <2>11. Cell(g.frames, Len(g.frames), T, k, o, v)
    BY <1>1, <2>1, <2>3, <2>9, <2>10, CellCode
  <2>12. SetsTo(g, R.h, k, o)
    BY <1>1, <2>1, <2>3 DEF SetsTo
  <2>13. Nest(R.h, [x EXCEPT !.map = SetAt(@, k, v)], T)
    BY ONLY <2>5, k \in LedgerKeys, <2>11, <2>12, NestPut
  <2>14. <<[m[k][1] EXCEPT !.val[1] = w]>> = v
    BY <1>1, <2>9, <2>10, InstanceEdits
  <2>15. PICK u : u = SetAt(m, k, v)
    OBVIOUS
  <2>16. [x EXCEPT !.map = SetAt(@, k, v)] = [x EXCEPT !.map = u]
    BY <2>8, <2>15
  <2>17. [x EXCEPT !.map = u] = Store(u, sv, jev)
    BY ONLY <2>8, StoreFields
  <2>18. [i EXCEPT !.map = SetAt(@, k, <<[i.map[k][1] EXCEPT !.val[1] = w]>>)] = Store(u, sv, i.events)
    <3>1. [i EXCEPT !.map = u] = Store(u, sv, i.events)
      BY <2>6, <2>7 DEF Store
    <3>. QED BY <1>1, <2>14, <2>15, <3>1
  <2>19. [Store(u, sv, i.events) EXCEPT !.events = Append(@, ev)] = Store(u, sv, jev)
    <3>1. PICK y : y = Store(u, sv, iev)
      OBVIOUS
    <3>2. y.events = iev /\ [y EXCEPT !.events = jev] = Store(u, sv, jev)
      BY ONLY <3>1, StoreFields
    <3>. QED BY <2>20, <3>1, <3>2
  <2>. QED BY <2>13, <2>16, <2>17, <2>18, <2>19
<1>. QED BY <1>2, <1>3, <1>4 DEF Answered

\* maybe_init_instance_storage().
LEMMA AnsweredRead ==
    ASSUME NEW h, RecOK(h), h.frames # <<>>, NEW i, NEW T, Nest(h, i, T), NEW R, R = ReadInstance(h)
    PROVE  Answered(R, i, i, T)
<1>1. RecOK(R.h) /\ R.out \in {"ok", "fail"} /\ R.h.frames # <<>> /\ Nest(R.h, i, T)
  BY ONLY RecOK(h), h.frames # <<>>, Nest(h, i, T), R = ReadInstance(h), NestRead
<1>. QED BY <1>1 DEF Answered, Nest

\* with_mut_instance_storage().
LEMMA AnsweredWrite ==
    ASSUME NEW h, RecOK(h), h.frames # <<>>, NEW i, NEW T, Nest(h, i, T), NEW opt, NEW R, R = WriteInstance(h, opt),
           NEW k, k = InstKey(Last(h.frames).c)
    PROVE  Answered(R, i, [i EXCEPT !.map = SetAt(@, k, <<[i.map[k][1] EXCEPT !.val[2] = opt]>>)], T)
<1>1. PICK x : x = [i EXCEPT !.map = SetAt(@, k, <<[i.map[k][1] EXCEPT !.val[2] = opt]>>)]
  OBVIOUS
<1>2. RecOK(R.h) /\ R.out = "ok" /\ Nest(R.h, [i EXCEPT !.map = SetAt(@, k, <<[i.map[k][1] EXCEPT !.val[2] = opt]>>)], T)
  BY ONLY RecOK(h), h.frames # <<>>, Nest(h, i, T), R = WriteInstance(h, opt), k = InstKey(Last(h.frames).c), NestWrite
<1>3. RecOK(R.h) /\ R.out = "ok" /\ Nest(R.h, x, T)
  BY <1>1, <1>2
<1>4. Answered(R, i, x, T)
  BY <1>3 DEF Answered
<1>. QED BY <1>1, <1>4

-----------------------------------------------------------------------------
(* The transaction and the ideal store                                     *)

\* While the transaction was not refused and did not fail, the ideal store has what the host has.
NestInv == verdict \in {"no", "done"} => Nest(recorder, ideal, reentered)

\* It holds of a host and a store that made no call.
LEMMA NestInvInit == LedgerInit => NestInv
<1>. SUFFICES ASSUME LedgerInit PROVE Nest(recorder, ideal, reentered)
  BY DEF NestInv
<1>1. PICK h, i, T, m : h = recorder /\ i = ideal /\ T = reentered /\ m = Snapshot
  OBVIOUS
<1>2. h = Host("recording", <<>>, h.map, <<>>, <<>>) /\ DOMAIN h.map = {} /\ T = {} /\ i = Store(m, <<>>, <<>>)
  <2>1. h = [mode |-> "recording", fp |-> <<>>, map |-> [k \in DOMAIN <<>> |-> Snapshot[k]], frames |-> <<>>, events |-> <<>>]
    BY <1>1 DEF LedgerInit, NewHost
  <2>. QED BY <1>1, <2>1 DEF LedgerInit, Store, Host
<1>3. h.frames = <<>> /\ h.events = <<>> /\ i.map = m /\ i.saved = <<>> /\ i.events = <<>>
  BY <1>2 DEF Host, Store
<1>4. Stored(h.map) = m
  <2>1. \A k \in LedgerKeys : Stored(h.map)[k] = m[k]
    BY <1>1, <1>2, StoredIs
  <2>2. Stored(h.map) = [k \in LedgerKeys |-> Stored(h.map)[k]]
    BY StoredIs
  <2>3. m = [k \in LedgerKeys |-> m[k]]
    BY <1>1, LedgerAssumption
  <2>. QED BY <2>1, <2>2, <2>3
<1>5. Level(h.frames, 0, T, m, m)
  <2>1. ASSUME NEW k \in LedgerKeys PROVE IsEntry(k, m[k])
    BY <1>1, LedgerAssumption
  <2>2. ASSUME NEW k \in LedgerKeys PROVE Cell(h.frames, 0, T, k, m[k], m[k])
    BY <2>1 DEF Cell, Alike, Answers
  <2>3. m = [k \in LedgerKeys |-> m[k]]
    BY <1>1, LedgerAssumption
  <2>. QED BY <2>2, <2>3 DEF Level
<1>6. Len(h.frames) = 0 /\ Len(i.saved) = 0
  BY <1>3
<1>7. EventsAt(h.events, i.events)
  <2>1. PICK e : e = <<>> /\ e \in Logs({}) /\ Living(e) = <<>>
    BY LivingNone
  <2>2. e \in Seq({})
    BY <2>1
  <2>. QED BY <1>3, <2>1, <2>2 DEF EventsAt
<1>8. MarksOK(h.frames, i.saved, 0, h.events, i.events) /\ FramesApart(h.frames, 0, T)
  BY DEF MarksOK, FramesApart
<1>9. (\E S : i.saved \in Seq(S)) /\ (\E S : h.frames \in Seq(S)) /\ i = Store(i.map, i.saved, i.events)
  <2>1. <<>> \in Seq({})
    OBVIOUS
  <2>. QED BY <1>2, <1>3, <2>1
<1>10. Spine(h.frames, h.events, i, T)
  BY <1>6, <1>7, <1>8, <1>9 DEF Spine
<1>. QED BY <1>1, <1>3, <1>4, <1>5, <1>6, <1>10 DEF Nest

\* A step that applies R to the recording host where x is what the ideal store becomes when R succeeds.
Steps(R, x, U) ==
    /\ verdict = "no" /\ verdict' # "done" /\ recorder' = Settled(R) /\ reentered' = U
    /\ ideal' = IF R.out # "fail" THEN x ELSE IF ideal.saved = <<>> THEN ideal ELSE RolledBack(ideal)
    /\ verdict' = "no" /\ R.out = "fail" => ~(Len(recorder.frames) <= 1)
\* Such a step keeps it: when R fails both return to what there was.
LEMMA NestApplied ==
    ASSUME FpInv, NestInv, NEW R, NEW x, NEW U, Steps(R, x, U),
           RecOK(recorder) /\ Nest(recorder, ideal, reentered) => Answered(R, ideal, x, U)
    PROVE  NestInv'
<1>1. PICK h, i, T : h = recorder /\ i = ideal /\ T = reentered
  OBVIOUS
<1>2. verdict = "no" /\ recorder' = Settled(R) /\ reentered' = U /\ verdict' # "done"
  BY DEF Steps
<1>3. RecOK(h) /\ Nest(h, i, T) /\ Answered(R, i, x, U)
  BY <1>1, <1>2 DEF FpInv, NestInv
<1>4. CASE R.out = "ok"
  <2>1. recorder' = R.h /\ ideal' = x
    BY <1>2, <1>4 DEF Steps, Settled
  <2>2. Nest(R.h, x, U)
    BY <1>3, <1>4 DEF Answered
  <2>. QED BY <1>2, <2>1, <2>2 DEF NestInv
<1>5. CASE R.out = "fail" /\ verdict' = "no"
  <2>1. Spine(R.h.frames, R.h.events, i, U) /\ RecOK(R.h)
    BY <1>3, <1>5 DEF Answered
  <2>2. Len(i.saved) = Len(R.h.frames) /\ Len(i.saved) = Len(h.frames)
    BY <1>3, <2>1 DEF Nest, Spine
  <2>3. ~(Len(h.frames) <= 1)
    BY <1>1, <1>5 DEF Steps
  <2>4. R.h.frames # <<>> /\ i.saved # <<>>
    <3>1. Len(<<>>) = 0
      OBVIOUS
    <3>2. ASSUME i.saved = <<>> \/ R.h.frames = <<>> PROVE FALSE
      <4>1. Len(h.frames) = 0
        BY <2>2, <3>1, <3>2
      <4>. QED BY <2>3, <4>1
    <3>. QED BY <3>2
  <2>5. recorder' = FailFrame(R.h) /\ ideal' = RolledBack(i)
    BY <1>1, <1>5, <2>4 DEF Steps, Settled
  <2>6. Nest(FailFrame(R.h), RolledBack(i), U)
    BY <2>1, <2>4, NestFail
  <2>. QED BY <1>2, <2>5, <2>6 DEF NestInv
<1>6. CASE R.out = "fail" /\ verdict' # "no"
  BY <1>2, <1>6 DEF NestInv
<1>7. R.out \in {"ok", "fail"}
  BY <1>3 DEF Answered
<1>. QED BY <1>4, <1>5, <1>6, <1>7

\* Calls keep it.
LEMMA CallsNest ==
    ASSUME FpInv, NestInv, NEW c \in LContracts,
           Invoke(c) \/ Call(c) \/ TryCallRefused(c) \/ (\E w \in Codes : LedgerCreateContract(c, w)) \/ CheckAuthSelf
    PROVE  NestInv'
<1>1. PICK h, i, T : h = recorder /\ i = ideal /\ T = reentered
  OBVIOUS
<1>2. RecOK(h)
  BY <1>1 DEF FpInv
<1>3. CASE Invoke(c) \/ Call(c)
  <2>1. PICK R, x : R = EnterFrame(h, c) /\ x = IdealEnter
    OBVIOUS
  <2>2. Steps(R, x, T)
    <3>1. CASE Invoke(c)
      BY <1>1, <2>1, <3>1 DEF Invoke, Apply, Steps, Settled, Running, IdealFails, RolledBack
    <3>2. CASE Call(c)
      BY <1>1, <2>1, <3>2 DEF Call, Apply, Steps, Settled, InContract, Running, IdealFails, RolledBack
    <3>. QED BY <1>3, <3>1, <3>2
  <2>3. x = Entered(i)
    BY <1>1, <2>1 DEF IdealEnter, Entered
  <2>4. MayEnter(h, c, T)
    <3>1. \A j \in DOMAIN h.frames : h.frames[j].c # c
      BY <1>1, <1>3 DEF Invoke, Call
    <3>2. DOMAIN h.frames = 1..Len(h.frames)
      BY <1>2 DEF RecOK, FramesOK
    <3>. QED BY <3>1, <3>2 DEF MayEnter
  <2>5. Nest(h, i, T) => Answered(R, i, x, T)
    <3>1. T \subseteq T
      OBVIOUS
    <3>2. Nest(h, i, T) => Answered(R, i, Entered(i), T)
      BY ONLY <1>2, c \in LContracts, <2>1, <2>4, <3>1, AnsweredEnter
    <3>. QED BY <2>3, <3>2
  <2>. QED BY <1>1, <2>2, <2>5, NestApplied
<1>4. CASE TryCallRefused(c)
  <2>1. PICK P, R : P = EnterFrame(h, c) /\ R = Forgiven(P)
    OBVIOUS
  <2>2. Steps(R, i, T) /\ P.out = "fail"
    BY <1>1, <1>4, <2>1 DEF TryCallRefused, Apply, Steps, Settled, InContract, Running, Forgiven, IdealFails, RolledBack
  <2>3. Nest(h, i, T) => Answered(R, i, i, T)
    BY ONLY <1>2, c \in LContracts, <2>1, <2>2, AnsweredRefused
  <2>. QED BY <1>1, <2>2, <2>3, NestApplied
<1>5. ASSUME NEW w \in Codes, LedgerCreateContract(c, w) PROVE NestInv'
  <2>1. PICK R, k, o, y, x : /\ R = CreateAndEnter(h, c, w) /\ k = InstKey(c)
                             /\ o = <<[val |-> <<w, None>>, live |-> MinLiveUntil(k)]>>
                             /\ y = IdealPut(k, o) /\ x = [y EXCEPT !.saved = Append(@, [map |-> y.map, events |-> Len(y.events)])]
    OBVIOUS
  <2>2. Steps(R, x, T)
    BY <1>1, <1>5, <2>1 DEF LedgerCreateContract, Apply, Steps, Settled, InContract, Running, CreateAndEnter, IdealFails, RolledBack
  <2>3. CodeKey(w) \in LedgerKeys
    BY LedgerAssumption
  <2>4. x = Entered([i EXCEPT !.map = SetAt(@, k, Instance(w, None, MinLiveUntil(k)))])
    BY <1>1, <2>1 DEF Entered, IdealPut, Instance
  <2>5. Nest(h, i, T) => Answered(R, i, Entered([i EXCEPT !.map = SetAt(@, k, Instance(w, None, MinLiveUntil(k)))]), T)
    BY ONLY <1>2, c \in LContracts, <2>1, <2>3, AnsweredCreate
  <2>6. Nest(h, i, T) => Answered(R, i, x, T)
    BY <2>4, <2>5
  <2>. QED BY <1>1, <2>2, <2>6, NestApplied
<1>6. CASE CheckAuthSelf
  <2>1. PICK m, R, x, U : m = Me /\ R = EnterFrame(h, m) /\ x = IdealEnter /\ U = T \cup {m}
    OBVIOUS
  <2>2. Steps(R, x, U) /\ h.frames # <<>>
    BY <1>1, <1>6, <2>1 DEF CheckAuthSelf, Apply, Steps, Settled, InContract, Running, IdealFails, RolledBack
  <2>3. m \in LContracts
    BY <1>1, <2>1, <2>2, MeIs
  <2>4. x = Entered(i)
    BY <1>1, <2>1 DEF IdealEnter, Entered
  <2>5. MayEnter(h, m, U) /\ T \subseteq U
    BY <2>1 DEF MayEnter
  <2>6. Nest(h, i, T) => Answered(R, i, Entered(i), U)
    BY ONLY <1>2, <2>1, <2>3, <2>5, AnsweredEnter
  <2>7. Nest(h, i, T) => Answered(R, i, x, U)
    BY <2>4, <2>6
  <2>. QED BY <1>1, <2>2, <2>7, NestApplied
<1>. QED BY <1>3, <1>4, <1>5, <1>6

\* Access to contract data keeps it.
LEMMA DataNest ==
    ASSUME FpInv, NestInv, NEW k \in DataKeys,
           (\E v \in Vals : PutContractData(k, v)) \/ GetContractData(k) \/ HasContractData(k) \/ DelContractData(k)
           \/ \E args \in TtlArgs : ExtendContractDataTtl(k, args)
    PROVE  NestInv'
<1>1. PICK h, i, T, none : h = recorder /\ i = ideal /\ T = reentered /\ none = None
  OBVIOUS
<1>2. RecOK(h)
  BY <1>1 DEF FpInv
<1>3. InContract /\ k[1] = Me
  BY DEF PutContractData, GetContractData, HasContractData, DelContractData, ExtendContractDataTtl
<1>4. k \in LedgerKeys /\ k[1] # "instance"
  BY <1>3, MeIs DEF InContract
<1>5. ASSUME NEW v \in Vals, PutContractData(k, v) PROVE NestInv'
  <2>1. PICK R, o, x : R = PutData(h, k, v) /\ o = <<[val |-> <<v>>, live |-> IdealLive(k)]>> /\ x = IdealPut(k, o)
    OBVIOUS
  <2>2. Steps(R, x, T)
    BY <1>1, <1>5, <2>1 DEF PutContractData, Apply, Steps, Settled, InContract, Running, IdealFails, RolledBack
  <2>3. o = DataEntry(i.map, k, v)
    BY <1>1, <2>1 DEF DataEntry, IdealLive, LifeOf
  <2>4. x = [i EXCEPT !.map = SetAt(@, k, DataEntry(i.map, k, v))]
    BY <1>1, <2>1, <2>3 DEF IdealPut
  <2>5. Nest(h, i, T) => Answered(R, i, [i EXCEPT !.map = SetAt(@, k, DataEntry(i.map, k, v))], T)
    BY ONLY <1>2, <1>4, <2>1, AnsweredPutData
  <2>6. Nest(h, i, T) => Answered(R, i, x, T)
    BY <2>4, <2>5
  <2>. QED BY <1>1, <2>2, <2>6, NestApplied
<1>6. ASSUME NEW R, R = GetEntry(h, k) \/ R = Has(h, k), Steps(R, i, T) PROVE NestInv'
  <2>1. RecOK(R.h) /\ R.out \in {"ok", "fail"} /\ Keeps(h, R.h)
    <3>1. CASE R = GetEntry(h, k)
      BY <1>2, <1>4, <3>1, GetKeeps
    <3>2. CASE R = Has(h, k)
      BY <1>2, <1>4, <3>2, HasKeeps
    <3>. QED BY <1>6, <3>1, <3>2
  <2>2. Nest(h, i, T) => Answered(R, i, i, T)
    BY ONLY <1>2, <2>1, AnsweredKeeps
  <2>. QED BY <1>1, <1>6, <2>2, NestApplied
<1>7. CASE GetContractData(k)
  <2>1. PICK R : R = GetEntry(h, k)
    OBVIOUS
  <2>2. Steps(R, i, T)
    BY <1>1, <1>7, <2>1 DEF GetContractData, Apply, Steps, Settled, InContract, Running, IdealFails, RolledBack
  <2>. QED BY <1>6, <2>1, <2>2
<1>8. CASE HasContractData(k)
  <2>1. PICK R : R = Has(h, k)
    OBVIOUS
  <2>2. Steps(R, i, T)
    BY <1>1, <1>8, <2>1 DEF HasContractData, Apply, Steps, Settled, InContract, Running, IdealFails, RolledBack
  <2>. QED BY <1>6, <2>1, <2>2
<1>9. CASE DelContractData(k)
  <2>1. PICK R, x : R = PutOpt(h, k, none) /\ x = IdealPut(k, none)
    OBVIOUS
  <2>2. Steps(R, x, T)
    BY <1>1, <1>9, <2>1 DEF DelContractData, Apply, Steps, Settled, InContract, Running, IdealFails, RolledBack
  <2>3. x = [i EXCEPT !.map = SetAt(@, k, None)] /\ R = PutOpt(h, k, None)
    BY <1>1, <2>1 DEF IdealPut
  <2>4. Nest(h, i, T) => Answered(R, i, [i EXCEPT !.map = SetAt(@, k, None)], T)
    BY ONLY <1>2, <1>4, <2>3, AnsweredDel
  <2>5. Nest(h, i, T) => Answered(R, i, x, T)
    BY <2>3, <2>4
  <2>. QED BY <1>1, <2>2, <2>5, NestApplied
<1>10. ASSUME NEW args \in TtlArgs, ExtendContractDataTtl(k, args) PROVE NestInv'
  <2>1. PICK th, ext, R, x : th = args[1] /\ ext = args[2] /\ R = ExtendTtl(h, k, th, ext) /\ x = IdealExtend(i, k, args)
    OBVIOUS
  <2>2. Steps(R, x, T)
    BY <1>1, <1>10, <2>1 DEF ExtendContractDataTtl, Apply, Steps, Settled, InContract, Running, IdealFails, RolledBack
  <2>3. th \in Nat /\ ext \in Nat /\ th = args[1] /\ ext = args[2] /\ R = ExtendTtl(h, k, th, ext)
    BY <2>1, LedgerAssumption
  <2>4. Nest(h, i, T) => Answered(R, i, IdealExtend(i, k, args), T)
    BY ONLY <1>2, <1>4, <2>3, AnsweredExtend
  <2>5. Nest(h, i, T) => Answered(R, i, x, T)
    BY <2>1, <2>4
  <2>. QED BY <1>1, <2>2, <2>5, NestApplied
<1>. QED BY <1>5, <1>7, <1>8, <1>9, <1>10

\* Code, and the lives of instances and code.
LEMMA CodeNest ==
    ASSUME FpInv, NestInv,
           \/ \E w \in Codes : UploadWasm(w) \/ UpdateCurrentContractWasm(w)
           \/ \E c \in LContracts, args \in TtlArgs :
                 \/ ExtendContractInstanceTtl(c, args)
                 \/ ExtendContractCodeTtl(c, args)
                 \/ ExtendContractInstanceAndCodeTtl(c, args)
    PROVE  NestInv'
<1>1. PICK h, i, T : h = recorder /\ i = ideal /\ T = reentered
  OBVIOUS
<1>2. RecOK(h)
  BY <1>1 DEF FpInv
<1>3. ASSUME NEW w \in Codes, UploadWasm(w) PROVE NestInv'
  <2>1. PICK R, k, o, y, x : /\ R = Upload(h, w) /\ k = CodeKey(w) /\ o = <<[val |-> <<"refined">>, live |-> MinLiveUntil(k)]>>
                             /\ y = IdealPut(k, o)
                             /\ x = IF ideal.map[k] # None /\ ideal.map[k][1].val = <<"refined">> THEN ideal ELSE y
    OBVIOUS
  <2>2. Steps(R, x, T)
    BY <1>1, <1>3, <2>1 DEF UploadWasm, Apply, Steps, Settled, InContract, Running, IdealFails, RolledBack
  <2>3. k \in LedgerKeys
    BY <2>1, LedgerAssumption
  <2>4. x = IF IsRefined(i.map, k) THEN i ELSE [i EXCEPT !.map = SetAt(@, k, Refined(k))]
    BY <1>1, <2>1 DEF IsRefined, Refined, IdealPut
  <2>5. Nest(h, i, T) => Answered(R, i, IF IsRefined(i.map, k) THEN i ELSE [i EXCEPT !.map = SetAt(@, k, Refined(k))], T)
    BY ONLY <1>2, <2>1, <2>3, AnsweredUpload
  <2>6. Nest(h, i, T) => Answered(R, i, x, T)
    BY <2>4, <2>5
  <2>. QED BY <1>1, <2>2, <2>6, NestApplied
<1>4. ASSUME NEW w \in Codes, UpdateCurrentContractWasm(w) PROVE NestInv'
  <2>1. PICK R, c, k, o, ev, y, x : /\ R = UpdateWasm(h, w) /\ c = Me /\ k = InstKey(c) /\ ev = <<"update", w>>
                                    /\ o = <<[ideal.map[k][1] EXCEPT !.val[1] = w]>> /\ y = IdealPut(k, o)
                                    /\ x = [y EXCEPT !.events = Append(@, ev)]
    OBVIOUS
  <2>2. Steps(R, x, T) /\ h.frames # <<>>
    BY <1>1, <1>4, <2>1 DEF UpdateCurrentContractWasm, Apply, Steps, Settled, InContract, Running, IdealFails, RolledBack
  <2>3. CodeKey(w) \in LedgerKeys /\ c = Last(h.frames).c /\ k = InstKey(c) /\ R = UpdateWasm(h, w) /\ ev = <<"update", w>>
    BY <1>1, <2>1, LedgerAssumption DEF Me
  <2>4. k \in LedgerKeys
    <3>1. c \in LContracts
      BY <1>1, <2>1, <2>2, MeIs
    <3>. QED BY <2>3, <3>1, LedgerAssumption
  <2>5. x = [[i EXCEPT !.map = SetAt(@, k, <<[i.map[k][1] EXCEPT !.val[1] = w]>>)] EXCEPT !.events = Append(@, ev)]
    BY <1>1, <2>1 DEF IdealPut
  <2>6. Nest(h, i, T)
        => Answered(R, i, [[i EXCEPT !.map = SetAt(@, k, <<[i.map[k][1] EXCEPT !.val[1] = w]>>)] EXCEPT !.events = Append(@, ev)], T)
    BY ONLY <1>2, <2>2, <2>3, <2>4, AnsweredUpdate
  <2>7. Nest(h, i, T) => Answered(R, i, x, T)
    BY <2>5, <2>6
  <2>. QED BY <1>1, <2>2, <2>7, NestApplied
<1>5. ASSUME NEW c \in LContracts, NEW args \in TtlArgs,
             ExtendContractInstanceTtl(c, args) \/ ExtendContractCodeTtl(c, args) \/ ExtendContractInstanceAndCodeTtl(c, args)
      PROVE  NestInv'
  <2>1. PICK th, ext, k, j : th = args[1] /\ ext = args[2] /\ k = InstKey(c) /\ j = CodeOf(i.map, c)
    OBVIOUS
  <2>2. th \in Nat /\ ext \in Nat /\ k \in LedgerKeys /\ InstKey(c) \in LedgerKeys /\ th = args[1] /\ ext = args[2]
    BY <2>1, LedgerAssumption
  <2>6. IdealCode(c) = j
    BY <1>1, <2>1 DEF IdealCode, CodeOf
  <2>3. CASE ExtendContractInstanceTtl(c, args)
    <3>1. PICK R, x : R = ExtendTtl(h, k, th, ext) /\ x = IdealExtend(i, k, args)
      OBVIOUS
    <3>2. Steps(R, x, T)
      BY <1>1, <2>1, <2>3, <3>1 DEF ExtendContractInstanceTtl, Apply, Steps, Settled, InContract, Running, IdealFails, RolledBack
    <3>3. Nest(h, i, T) => Answered(R, i, IdealExtend(i, k, args), T)
      BY ONLY <1>2, <2>2, <3>1, AnsweredExtend
    <3>4. Nest(h, i, T) => Answered(R, i, x, T)
      BY <3>1, <3>3
    <3>. QED BY <1>1, <3>2, <3>4, NestApplied
  <2>4. CASE ExtendContractCodeTtl(c, args)
    <3>1. PICK R, x : R = ExtendCode(h, c, th, ext) /\ x = IdealExtend(i, j, args)
      OBVIOUS
    <3>2. Steps(R, x, T)
      BY <1>1, <2>1, <2>4, <2>6, <3>1 DEF ExtendContractCodeTtl, Apply, Steps, Settled, InContract, Running, IdealFails, RolledBack
    <3>3. Nest(h, i, T) => Answered(R, i, IdealExtend(i, CodeOf(i.map, c), args), T)
      BY ONLY <1>2, <2>2, <3>1, AnsweredExtendCode
    <3>4. Nest(h, i, T) => Answered(R, i, x, T)
      BY <2>1, <3>1, <3>3
    <3>. QED BY <1>1, <3>2, <3>4, NestApplied
  <2>5. CASE ExtendContractInstanceAndCodeTtl(c, args)
    <3>1. PICK R, x : R = ExtendInstanceAndCode(h, c, th, ext) /\ x = IdealExtend(IdealExtend(i, k, args), j, args)
      OBVIOUS
    <3>2. Steps(R, x, T)
      BY <1>1, <2>1, <2>5, <2>6, <3>1
         DEF ExtendContractInstanceAndCodeTtl, Apply, Steps, Settled, InContract, Running, IdealFails, RolledBack
    <3>3. Nest(h, i, T) => Answered(R, i, IdealExtend(IdealExtend(i, InstKey(c), args), CodeOf(i.map, c), args), T)
      BY ONLY <1>2, <2>2, <3>1, AnsweredExtendBoth
    <3>4. Nest(h, i, T) => Answered(R, i, x, T)
      BY <2>1, <3>1, <3>3
    <3>. QED BY <1>1, <3>2, <3>4, NestApplied
  <2>. QED BY <1>5, <2>3, <2>4, <2>5
<1>. QED BY <1>3, <1>4, <1>5

\* Instance storage and events.
LEMMA InstanceNest ==
    ASSUME FpInv, NestInv, (\E v \in Vals : PutInstanceData(v)) \/ GetInstanceData \/ DelInstanceData \/ ContractEvent
    PROVE  NestInv'
<1>1. PICK h, i, T, k : h = recorder /\ i = ideal /\ T = reentered /\ k = InstKey(Me)
  OBVIOUS
<1>2. RecOK(h)
  BY <1>1 DEF FpInv
<1>3. h.frames # <<>>
  BY <1>1 DEF PutInstanceData, GetInstanceData, DelInstanceData, ContractEvent, InContract
<1>4. k = InstKey(Last(h.frames).c)
  BY <1>1 DEF Me
<1>5. ASSUME NEW opt, NEW R, R = WriteInstance(h, opt), NEW o, o = <<[ideal.map[k][1] EXCEPT !.val[2] = opt]>>,
             NEW x, x = IdealPut(k, o), Steps(R, x, T)
      PROVE  NestInv'
  <2>1. x = [i EXCEPT !.map = SetAt(@, k, <<[i.map[k][1] EXCEPT !.val[2] = opt]>>)]
    BY <1>1, <1>5 DEF IdealPut
  <2>2. R = WriteInstance(h, opt)
    BY <1>5
  <2>3. Nest(h, i, T) => Answered(R, i, [i EXCEPT !.map = SetAt(@, k, <<[i.map[k][1] EXCEPT !.val[2] = opt]>>)], T)
    BY ONLY <1>2, <1>3, <1>4, <2>2, AnsweredWrite
  <2>4. Nest(h, i, T) => Answered(R, i, x, T)
    BY <2>1, <2>3
  <2>. QED BY <1>1, <1>5, <2>4, NestApplied
<1>6. ASSUME NEW v \in Vals, PutInstanceData(v) PROVE NestInv'
  <2>1. PICK opt, R, o, x : /\ opt = <<v>> /\ R = WriteInstance(h, opt) /\ o = <<[ideal.map[k][1] EXCEPT !.val[2] = opt]>>
                            /\ x = IdealPut(k, o)
    OBVIOUS
  <2>2. Steps(R, x, T)
    BY <1>1, <1>6, <2>1 DEF PutInstanceData, Apply, Steps, Settled, InContract, Running, IdealFails, RolledBack
  <2>. QED BY <1>5, <2>1, <2>2
<1>7. CASE DelInstanceData
  <2>1. PICK opt, R, o, x : /\ opt = None /\ R = WriteInstance(h, opt) /\ o = <<[ideal.map[k][1] EXCEPT !.val[2] = opt]>>
                            /\ x = IdealPut(k, o)
    OBVIOUS
  <2>2. Steps(R, x, T)
    BY <1>1, <1>7, <2>1 DEF DelInstanceData, Apply, Steps, Settled, InContract, Running, IdealFails, RolledBack
  <2>. QED BY <1>5, <2>1, <2>2
<1>8. CASE GetInstanceData
  <2>1. PICK R : R = ReadInstance(h)
    OBVIOUS
  <2>2. Steps(R, i, T)
    BY <1>1, <1>8, <2>1 DEF GetInstanceData, Apply, Steps, Settled, InContract, Running, IdealFails, RolledBack
  <2>3. Nest(h, i, T) => Answered(R, i, i, T)
    BY ONLY <1>2, <1>3, <2>1, AnsweredRead
  <2>. QED BY <1>1, <2>2, <2>3, NestApplied
<1>9. CASE ContractEvent
  <2>1. PICK e, R, x : e = <<"event", ops>> /\ R = Ok(RecordEvent(h, e)) /\ x = [ideal EXCEPT !.events = Append(@, e)]
    OBVIOUS
  <2>2. Steps(R, x, T)
    BY <1>1, <1>9, <2>1 DEF ContractEvent, Apply, Steps, Settled, InContract, Running, IdealFails, RolledBack
  <2>3. R = Ok(RecordEvent(h, e))
    BY <2>1
  <2>4. Nest(h, i, T) => Answered(R, i, [i EXCEPT !.events = Append(@, e)], T)
    BY ONLY <1>2, <2>3, AnsweredEvent
  <2>5. Nest(h, i, T) => Answered(R, i, x, T)
    BY <1>1, <2>1, <2>4
  <2>. QED BY <1>1, <2>2, <2>5, NestApplied
<1>. QED BY <1>6, <1>7, <1>8, <1>9

\* The end of a frame.
LEMMA EndNest == ASSUME FpInv, NestInv, ReturnFrame \/ LedgerFrameFails PROVE NestInv'
<1>1. PICK h, i, T : h = recorder /\ i = ideal /\ T = reentered
  OBVIOUS
<1>2. RecOK(h) /\ h.frames # <<>> /\ verdict = "no" /\ reentered' = T
  BY <1>1 DEF FpInv, ReturnFrame, LedgerFrameFails
<1>3. Nest(h, i, T)
  BY <1>1, <1>2 DEF NestInv
<1>4. CASE ReturnFrame
  <2>1. PICK R, x : R = LeaveFrame(h) /\ x = [i EXCEPT !.saved = Front(@)]
    OBVIOUS
  <2>2. recorder' = R.h /\ ideal' = x
    BY <1>1, <1>4, <2>1 DEF ReturnFrame
  <2>3. R.out = "ok" /\ Nest(R.h, [i EXCEPT !.saved = Front(@)], T)
    BY ONLY <1>2, <1>3, <2>1, NestLeave
  <2>. QED BY <1>2, <2>1, <2>2, <2>3 DEF NestInv
<1>5. CASE LedgerFrameFails
  <2>1. recorder' = FailFrame(h) /\ ideal' = RolledBack(i)
    BY <1>1, <1>5 DEF LedgerFrameFails, IdealFails, RolledBack
  <2>2. Nest(FailFrame(h), RolledBack(i), T)
    BY <1>2, <1>3, NestFail DEF Nest
  <2>. QED BY <1>2, <2>1, <2>2 DEF NestInv
<1>. QED BY <1>4, <1>5

\* Every step keeps it.
LEMMA NestInvNext == FpInv /\ NestInv /\ [LedgerNext]_gvars => NestInv'
<1>. SUFFICES ASSUME FpInv, NestInv, [LedgerNext]_gvars PROVE NestInv'
  OBVIOUS
<1>1. CASE UNCHANGED gvars
  BY <1>1 DEF gvars, NestInv
<1>2. CASE Ended
  BY <1>2 DEF Ended, gvars, NestInv
<1>3. ASSUME NEW c \in LContracts,
             Invoke(c) \/ Call(c) \/ TryCallRefused(c) \/ (\E w \in Codes : LedgerCreateContract(c, w))
      PROVE  NestInv'
  BY <1>3, CallsNest
<1>4. CASE CheckAuthSelf
  <2>1. \E c : c \in LContracts
    BY <1>4, MeIs DEF CheckAuthSelf, InContract
  <2>. QED BY <1>4, <2>1, CallsNest
<1>5. ASSUME NEW k \in DataKeys,
             (\E v \in Vals : PutContractData(k, v)) \/ GetContractData(k) \/ HasContractData(k) \/ DelContractData(k)
             \/ \E args \in TtlArgs : ExtendContractDataTtl(k, args)
      PROVE  NestInv'
  BY <1>5, DataNest
<1>6. CASE (\E v \in Vals : PutInstanceData(v)) \/ GetInstanceData \/ DelInstanceData \/ ContractEvent
  BY <1>6, InstanceNest
<1>7. CASE \/ \E w \in Codes : UploadWasm(w) \/ UpdateCurrentContractWasm(w)
           \/ \E c \in LContracts, args \in TtlArgs :
                 \/ ExtendContractInstanceTtl(c, args)
                 \/ ExtendContractCodeTtl(c, args)
                 \/ ExtendContractInstanceAndCodeTtl(c, args)
  BY <1>7, CodeNest
<1>8. CASE ReturnFrame \/ LedgerFrameFails
  BY <1>8, EndNest
<1>. QED BY <1>1, <1>2, <1>3, <1>4, <1>5, <1>6, <1>7, <1>8 DEF LedgerNext

\* A host with the frames of h, and what h has stored under a key.
Mirrors(g, h, k) ==
    /\ DOMAIN g.frames = 1..Len(h.frames)
    /\ \A j \in 1..Len(h.frames) : /\ g.frames[j].c = h.frames[j].c /\ g.frames[j].dirty = h.frames[j].dirty
                                   /\ g.frames[j].cache = h.frames[j].cache
    /\ Stored(h.map)[k] = IF k \in DOMAIN g.map THEN g.map[k] ELSE Snapshot[k]
\* It answers what the ideal store has.
LEMMA VisibleIs ==
    ASSUME NEW h, RecOK(h), NEW i, NEW T, Nest(h, i, T), NEW k \in LedgerKeys, \A c \in T : k # InstKey(c), NEW g, Mirrors(g, h, k)
    PROVE  Visible(g, k) = i.map[k]
<1>1. PICK fr, n, o, w : fr = h.frames /\ n = Len(h.frames) /\ o = Stored(h.map)[k] /\ w = i.map[k]
  OBVIOUS
<1>2. Answers(fr, n, k, o, w) /\ IsEntry(k, o)
  <2>1. Cell(fr, n, T, k, o, w)
    BY <1>1, NestCell
  <2>. QED BY <2>1 DEF Cell
<1>3. PICK open : open = {j \in DOMAIN g.frames : InstKey(g.frames[j].c) = k /\ g.frames[j].dirty}
  OBVIOUS
<1>4. PICK gr : gr = g.frames
  OBVIOUS
<1>5. /\ DOMAIN gr = 1..n
      /\ \A j \in 1..n : gr[j].c = fr[j].c /\ gr[j].dirty = fr[j].dirty /\ gr[j].cache = fr[j].cache
  BY <1>1, <1>4, Zenon DEF Mirrors
<1>6. o = IF k \in DOMAIN g.map THEN g.map[k] ELSE Snapshot[k]
  BY <1>1 DEF Mirrors
<1>7. \A j : j \in open <=> j \in 1..n /\ Open(fr[j], k)
  BY <1>3, <1>4, <1>5, Zenon DEF Open
<1>8. Visible(g, k) = IF open = {} THEN o ELSE <<[o[1] EXCEPT !.val[2] = g.frames[CHOOSE j \in open : TRUE].cache[1]]>>
  BY <1>3, <1>6 DEF Visible
<1>9. CASE open = {}
  <2>1. \A j \in 1..n : ~Open(fr[j], k)
    BY <1>7, <1>9
  <2>2. w = o
    BY <1>2, <2>1 DEF Answers
  <2>. QED BY <1>1, <1>8, <1>9, <2>2
<1>10. CASE open # {}
  <2>1. PICK j, d : j = (CHOOSE q \in open : TRUE) /\ d = g.frames[j].cache[1]
    OBVIOUS
  <2>2. j \in open
    BY <1>10, <2>1
  <2>3. j \in 1..n /\ Open(fr[j], k)
    BY <1>7, <2>2
  <2>4. w = WithData(o, fr[j].cache[1])
    BY <1>2, <2>3 DEF Answers
  <2>5. d = fr[j].cache[1]
    BY <1>4, <1>5, <2>1, <2>3
  <2>6. k = InstKey(fr[j].c)
    BY <2>3 DEF Open
  <2>7. Present(h.map, fr[j].c)
    BY <1>1, <2>3 DEF RecOK, FramesOK
  <2>8. o # None
    BY <1>1, <2>6, <2>7, StoredPresent
  <2>9. k[1] = "instance"
    BY <2>6 DEF InstKey
  <2>10. <<[o[1] EXCEPT !.val[2] = d]>> = WithData(o, d)
    BY <1>2, <2>8, <2>9, InstanceEdits
  <2>. QED BY <1>1, <1>8, <1>10, <2>1, <2>4, <2>5, <2>10
<1>. QED BY <1>9, <1>10

\* The recording host mirrors itself, the enforcing one does for the keys of its footprint.
LEMMA MirrorsBoth ==
    ASSUME NEW D, FpOK(D), NEW h, RecOK(h), NEW k \in LedgerKeys
    PROVE  Mirrors(h, h, k) /\ (k \in DOMAIN D => Mirrors(Replay(D, h), h, k))
<1>1. PICK fr, n, m, e : fr = h.frames /\ n = Len(h.frames) /\ m = h.map /\ e = Replay(D, h)
  OBVIOUS
<1>2. PICK S : fr \in Seq(S)
  BY <1>1 DEF RecOK, FramesOK
<1>3. Stored(m)[k] = IF k \in DOMAIN m THEN m[k] ELSE Snapshot[k]
  BY StoredIs
<1>4. Mirrors(h, h, k)
  <2>1. DOMAIN h.frames = 1..Len(h.frames)
    BY <1>1, <1>2
  <2>. QED BY <1>1, <1>3, <2>1, Zenon DEF Mirrors
<1>5. ASSUME k \in DOMAIN D PROVE Mirrors(e, h, k)
  <2>1. e.map = Full(D, m) /\ e.frames = FullFrames(D, fr)
    BY <1>1, ReplayFields
  <2>2. k \in DOMAIN e.map /\ e.map[k] = Stored(m)[k]
    BY <1>3, <1>5, <2>1 DEF Full
  <2>3. DOMAIN e.frames = 1..n /\ \A j \in 1..n : e.frames[j] = FullFrame(D, fr[j])
    BY <1>1, <2>1 DEF FullFrames
  <2>4. \A f : FullFrame(D, f).c = f.c /\ FullFrame(D, f).dirty = f.dirty /\ FullFrame(D, f).cache = f.cache
    BY DEF FullFrame
  <2>5. \A j \in 1..n : e.frames[j].c = fr[j].c /\ e.frames[j].dirty = fr[j].dirty /\ e.frames[j].cache = fr[j].cache
    BY <2>3, <2>4, Zenon
  <2>. QED BY <1>1, <2>2, <2>3, <2>5, Zenon DEF Mirrors
<1>. QED BY <1>1, <1>4, <1>5

\* The instance storage kept in frames, the maps that are rolled back and the events that are marked
\* (frame.rs, storage.rs, events/internal.rs) implement nested transactions: for every ledger, footprint and
\* sequence of host functions, calls, failures and re-entries, both hosts answer for every key they may read
\* what one store would that is written through and restored when a frame fails, except for the instance of a
\* contract that re-entered itself, and the events that are left are those of the frames that succeeded.
THEOREM NestingIsTransactional == LedgerSpec => []NestedTransactions
<1>1. LedgerInit => FpInv /\ NestInv
  BY FpInvInit, NestInvInit
<1>2. FpInv /\ NestInv /\ [LedgerNext]_gvars => (FpInv /\ NestInv)'
  BY FpInvNext, NestInvNext
<1>3. FpInv /\ NestInv => NestedTransactions
  <2>. SUFFICES ASSUME FpInv, NestInv, verdict \in {"no", "done"}, NEW g \in {recorder, enforcer}
                PROVE  /\ \A k \in LedgerKeys \ {InstKey(c) : c \in reentered} :
                              g.mode = "recording" \/ k \in DOMAIN g.fp => Visible(g, k) = ideal.map[k]
                       /\ ContractEvents(g) = ideal.events
    BY DEF NestedTransactions
  <2>1. PICK D, h, i, T, e : D = declared /\ h = recorder /\ i = ideal /\ T = reentered /\ e = Replay(D, h)
    OBVIOUS
  <2>2. FpOK(D) /\ RecOK(h) /\ Nest(h, i, T) /\ enforcer = e
    BY <2>1 DEF FpInv, NestInv
  <2>3. e.mode = "enforcing" /\ e.fp = D /\ e.events = h.events
    BY <2>1, <2>2, ReplayFields
  <2>4. g = h \/ g = e
    BY <2>1, <2>2
  <2>5. ASSUME NEW k \in LedgerKeys, \A c \in T : k # InstKey(c), g.mode = "recording" \/ k \in DOMAIN g.fp
        PROVE  Visible(g, k) = i.map[k]
    <3>1. Mirrors(g, h, k)
      BY <2>1, <2>2, <2>3, <2>4, <2>5, MirrorsBoth
    <3>. QED BY <2>2, <2>5, <3>1, VisibleIs
  <2>6. ContractEvents(g) = i.events
    <3>1. g.events = h.events
      BY <2>3, <2>4
    <3>2. Living(h.events) = i.events
      BY <2>2 DEF Nest, Spine, EventsAt
    <3>3. ContractEvents(g) = Living(g.events)
      BY DEF ContractEvents, Living, Externalized, Ext, Names
    <3>. QED BY <3>1, <3>2, <3>3
  <2>. QED BY <2>1, <2>5, <2>6
<1>. QED BY <1>1, <1>2, <1>3, PTL DEF LedgerSpec
=============================================================================
