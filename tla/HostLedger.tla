----------------------------- MODULE HostLedger -----------------------------
(***************************************************************************)
(* The ledger access of the host: the footprint and the storage map in      *)
(* recording and in enforcing mode (storage.rs), the contract data, code    *)
(* and instance operations (host.rs, data_helper.rs, lifecycle.rs), the     *)
(* instance storage a frame keeps in memory and the roll back of a frame    *)
(* that fails (frame.rs, events/internal.rs), and the changes handed to the *)
(* ledger (e2e_invoke.rs).  One transaction runs on two hosts in lock step: *)
(* `recorder` records a footprint, `enforcer` enforces a declared one.      *)
(* `ideal` is what a contract author expects: one store that is written     *)
(* through, with nested transactions.                                       *)
(*                                                                         *)
(* An option is a sequence of length 0 or 1, an entry [val, live]; the      *)
(* value of an instance is <<executable, data>>, its storage one cell.      *)
(***************************************************************************)
EXTENDS Vec, FiniteSets, SequencesExt

CONSTANTS
    LContracts,   \* contracts
    DataKeys,     \* contract data keys <<contract, name>>
    Temporary,    \* those of them with temporary durability
    Codes,        \* hashes of uploaded code
    Vals,         \* values
    Snapshot,     \* the ledger: every key to an option of an entry
    Declared,     \* the footprints that may be declared
    Seq0,         \* the ledger sequence number
    MinTemp, MinPersistent, MaxTtl,
    TtlArgs,      \* pairs <<threshold, extend_to>>
    MaxOps,       \* bound: host function calls in the transaction
    MaxNesting    \* bound: frames

VARIABLES recorder, enforcer, ideal, declared, ops, verdict, reentered

gvars == <<recorder, enforcer, ideal, declared, ops, verdict, reentered>>

InstKey(c) == <<"instance", c>>
CodeKey(w) == <<"code", w>>
LedgerKeys == DOMAIN Snapshot
None == <<>>
SetAt(m, k, v) == [j \in DOMAIN m \cup {k} |-> IF j = k THEN v ELSE m[j]]

\* An entry of the ledger has not ended its life; an instance names code that may be read.
IsEntry(k, opt) ==
    \/ opt = None
    \/ /\ opt = <<[val |-> opt[1].val, live |-> opt[1].live]>>
       /\ opt[1].live \in Int /\ opt[1].live >= Seq0
       /\ k[1] = "instance" => /\ opt[1].val = <<opt[1].val[1], opt[1].val[2]>>
                               /\ CodeKey(opt[1].val[1]) \in LedgerKeys

ASSUME LedgerAssumption ==
    /\ Seq0 \in Nat /\ MinTemp \in Nat \ {0} /\ MinPersistent \in Nat \ {0} /\ MaxTtl \in Nat
    /\ \A args \in TtlArgs : args[1] \in Nat /\ args[2] \in Nat
    /\ {"instance", "code"} \cap LContracts = {}
    /\ DataKeys \cup {InstKey(c) : c \in LContracts} \cup {CodeKey(w) : w \in Codes} \subseteq LedgerKeys
    /\ Snapshot = [k \in LedgerKeys |-> Snapshot[k]] /\ \A k \in LedgerKeys : IsEntry(k, Snapshot[k])
    /\ \A d \in Declared : d \in [DOMAIN d -> {"RO", "RW"}] /\ DOMAIN d \subseteq LedgerKeys

-----------------------------------------------------------------------------
(* storage.rs                                                              *)

\* AccessType is ordered: a read is allowed where a write is.
RecordAccess(fp, k, ty) ==
    IF k \in DOMAIN fp /\ (fp[k] = "RW" \/ ty = "RO") THEN fp ELSE SetAt(fp, k, ty)
EnforceAccess(fp, k, ty) == k \in DOMAIN fp /\ (fp[k] = "RW" \/ ty = "RO")

Denied(h, k, ty) == h.mode = "enforcing" /\ ~EnforceAccess(h.fp, k, ty)
Touch(h, k, ty) == IF h.mode = "recording" THEN [h EXCEPT !.fp = RecordAccess(@, k, ty)] ELSE h

\* prepare_read_only_access(): in recording mode the map is a cache of the snapshot.
PrepareRead(h, k) ==
    IF h.mode = "recording" /\ k \notin DOMAIN h.map
    THEN [Touch(h, k, "RO") EXCEPT !.map = SetAt(@, k, Snapshot[k])]
    ELSE Touch(h, k, "RO")

\* The outcomes of a host function: an error that a caller may catch, or one that ends
\* the transaction (a footprint violation or an internal error).
Ok(h) == [h |-> h, out |-> "ok"]
Fail(h) == [h |-> h, out |-> "fail"]
Abort(h) == [h |-> h, out |-> "abort"]
Then(res, Op(_)) == IF res.out = "ok" THEN Op(res.h) ELSE res

Has(h, k) == IF Denied(h, k, "RO") THEN Abort(h) ELSE Ok(PrepareRead(h, k))
GetEntry(h, k) == Then(Has(h, k), LAMBDA g : IF g.map[k] = None THEN Fail(g) ELSE Ok(g))
RetrieveInstance(h, c) == GetEntry(h, InstKey(c))
RetrieveWasm(h, w) == GetEntry(h, CodeKey(w))
PutOpt(h, k, opt) ==
    IF Denied(h, k, "RW") THEN Abort(h)
    ELSE Ok([Touch(h, k, "RW") EXCEPT !.map = SetAt(@, k, opt)])

IsTemporary(k) == k \in Temporary
MinLiveUntil(k) == Seq0 + (IF IsTemporary(k) THEN MinTemp ELSE MinPersistent) - 1
MaxLiveUntil == Seq0 + MaxTtl - 1

\* extend_ttl(): needs no write access.
ExtendTtl(h, k, threshold, extendTo) ==
    LET target == Seq0 + extendTo
        new == IF target > MaxLiveUntil THEN MaxLiveUntil ELSE target
    IN  IF threshold > extendTo THEN Fail(h)
        ELSE Then(GetEntry(h, k), LAMBDA g :
            LET old == g.map[k][1].live
            IN  IF old < Seq0 THEN Abort(g)
                ELSE IF target > MaxLiveUntil /\ IsTemporary(k) THEN Fail(g)
                ELSE IF new > old /\ old - Seq0 <= threshold
                THEN Ok([g EXCEPT !.map[k][1].live = new])
                ELSE Ok(g))

-----------------------------------------------------------------------------
(* Contract data, instances and code                                       *)

\* put_contract_data_into_ledger(): an existing entry keeps its live_until.
PutData(h, k, v) ==
    Then(Has(h, k), LAMBDA g :
        PutOpt(g, k, <<[val |-> <<v>>,
                        live |-> IF g.map[k] = None THEN MinLiveUntil(k) ELSE g.map[k][1].live]>>))

\* store_contract_instance(): a part that is not given keeps its old value.
StoreInstanceMutant(h, c, exec, data) ==
    LET k == InstKey(c) IN
    Then(Has(h, k), LAMBDA g :
        IF g.map[k] = None /\ exec = None THEN Abort(g)
        ELSE LET e == IF exec = None THEN Last(g.frames).inst[1] ELSE exec[1]
                 d == IF data # None THEN data[1] ELSE IF g.map[k] = None THEN None ELSE g.map[k][1].val[2]
             IN  PutOpt(g, k, <<[val |-> <<e, d>>,
                                 live |-> IF g.map[k] = None THEN MinLiveUntil(k) ELSE g.map[k][1].live]>>))
StoreInstance(h, c, exec, data) ==
    LET k == InstKey(c) IN
    Then(Has(h, k), LAMBDA g :
        IF g.map[k] = None /\ exec = None THEN Abort(g)
        ELSE LET e == IF exec # None THEN exec[1] ELSE g.map[k][1].val[1]
                 d == IF data # None THEN data[1] ELSE IF g.map[k] = None THEN None ELSE g.map[k][1].val[2]
             IN  PutOpt(g, k, <<[val |-> <<e, d>>,
                                 live |-> IF g.map[k] = None THEN MinLiveUntil(k) ELSE g.map[k][1].live]>>))

\* upload_contract_wasm(): code that is there is only written again when its cost
\* inputs ("old") are to be refined.
Upload(h, w) ==
    LET k == CodeKey(w) IN
    Then(Has(h, k), LAMBDA g :
        IF g.map[k] # None /\ g.map[k][1].val = <<"refined">> THEN Ok(g)
        ELSE PutOpt(g, k, <<[val |-> <<"refined">>, live |-> MinLiveUntil(k)]>>))

\* create_contract_with_id().
CreateWithId(h, c, w) ==
    Then(Has(h, InstKey(c)), LAMBDA g :
        IF g.map[InstKey(c)] # None THEN Fail(g)
        ELSE Then(GetEntry(g, CodeKey(w)), LAMBDA f : StoreInstance(f, c, <<w>>, None)))

RecordEvent(h, e) == [h EXCEPT !.events = Append(@, [what |-> e, failed |-> FALSE])]

\* update_current_contract_wasm().
UpdateWasm(h, w) ==
    LET c == Last(h.frames).c IN
    Then(GetEntry(h, CodeKey(w)), LAMBDA g :
        Then(RetrieveInstance(g, c), LAMBDA f :
            StoreInstance(RecordEvent(f, <<"update", w>>), c, <<w>>, None)))

ExtendCode(h, c, threshold, extendTo) ==
    Then(RetrieveInstance(h, c), LAMBDA g :
        ExtendTtl(g, CodeKey(g.map[InstKey(c)][1].val[1]), threshold, extendTo))
ExtendInstanceAndCode(h, c, threshold, extendTo) ==
    Then(ExtendTtl(h, InstKey(c), threshold, extendTo),
         LAMBDA g : ExtendCode(g, c, threshold, extendTo))

-----------------------------------------------------------------------------
(* Frames and the instance storage they keep in memory                     *)

\* maybe_init_instance_storage(): from the instance the frame was entered with.
Cached(f) == IF f.cache = None THEN <<f.inst[2]>> ELSE f.cache
ReadInstance(h) ==
    LET g == [h EXCEPT !.frames[Len(h.frames)].cache = Cached(Last(h.frames))]
    IN  IF Cached(Last(h.frames))[1] = None THEN Fail(g) ELSE Ok(g)
\* with_mut_instance_storage() marks the storage modified; deleting writes no value.
WriteInstance(h, opt) ==
    Ok([h EXCEPT !.frames[Len(h.frames)].cache = <<opt>>, !.frames[Len(h.frames)].dirty = TRUE])

\* call_contract_fn() and push_context(): the instance and its code are read first.
EnterFrame(h, c) ==
    Then(RetrieveInstance(h, c), LAMBDA g :
        LET inst == g.map[InstKey(c)][1].val IN
        Then(RetrieveWasm(g, inst[1]), LAMBDA f :
            Ok([f EXCEPT !.frames = Append(@, [c |-> c, inst |-> inst, cache |-> None, dirty |-> FALSE,
                                               map |-> f.map, events |-> Len(f.events)])])))

\* pop_context() with a rollback point: the footprint keeps what was recorded.
FailFrameMutant(h) ==
    LET f == Last(h.frames)
    IN  [h EXCEPT !.map = f.map, !.frames = Front(@),
                  !.fp = [k \in DOMAIN @ \cap DOMAIN f.map |-> @[k]],
                  !.events = [i \in DOMAIN @ |-> IF i > f.events THEN [@[i] EXCEPT !.failed = TRUE] ELSE @[i]]]
FailFrame(h) ==
    LET f == Last(h.frames)
    IN  [h EXCEPT !.map = f.map, !.frames = Front(@),
                  !.events = [i \in DOMAIN @ |-> IF i > f.events THEN [@[i] EXCEPT !.failed = TRUE] ELSE @[i]]]

\* with_frame() after success: persist_instance_storage(), then pop_context().
PersistInstance(h) ==
    LET f == Last(h.frames)
    IN  IF f.dirty THEN StoreInstance(h, f.c, None, f.cache) ELSE Ok(h)
LeaveFrame(h) == Then(PersistInstance(h), LAMBDA g : Ok([g EXCEPT !.frames = Front(@)]))

-----------------------------------------------------------------------------
(* The changes handed to the ledger                                        *)

\* get_ledger_changes(): every key of the map; size 0 stands for a missing entry.
Size(opt) == IF opt = None THEN 0 ELSE 1
LedgerChange(h, k) ==
    LET old == IF Snapshot[k] = None THEN 0 ELSE Snapshot[k][1].live
        new == IF h.map[k] = None THEN 0
               ELSE IF h.map[k][1].live > old THEN h.map[k][1].live ELSE old
    IN  [key |-> k, readOnly |-> h.fp[k] = "RO", oldSize |-> Size(Snapshot[k]),
         newValue |-> IF h.fp[k] = "RW" THEN h.map[k] ELSE None,
         oldLive |-> old, newLive |-> new]
LedgerChanges(h) == {LedgerChange(h, k) : k \in DOMAIN h.map}

\* extract_rent_changes().
RentChanges(h) ==
    LET newSize(ch) == IF ch.newValue # None THEN Size(ch.newValue) ELSE ch.oldSize
        kept(ch) == ch.oldLive < ch.newLive \/ ch.oldSize < newSize(ch)
    IN  {[key |-> ch.key, oldSize |-> ch.oldSize, newSize |-> newSize(ch),
          oldLive |-> ch.oldLive, newLive |-> ch.newLive] : ch \in {x \in LedgerChanges(h) : kept(x)}}

\* externalize() keeps the events of failed calls, marked, encode_contract_events() leaves
\* them out.
Externalized(h) == [i \in DOMAIN h.events |-> [event |-> h.events[i].what, failedCall |-> h.events[i].failed]]
ContractEvents(h) ==
    LET all == Externalized(h)
        kept == Kept(all, {e \in Range(all) : ~e.failedCall})
    IN  [i \in DOMAIN kept |-> kept[i].event]

-----------------------------------------------------------------------------
(* The transaction                                                         *)

\* build_storage_map_from_xdr_ledger_entries(): exactly the keys of the footprint.
NewHost(mode, fp) ==
    [mode |-> mode, fp |-> fp, map |-> [k \in DOMAIN fp |-> Snapshot[k]], frames |-> <<>>, events |-> <<>>]

LedgerInit ==
    /\ declared \in Declared
    /\ recorder = NewHost("recording", <<>>)
    /\ enforcer = NewHost("enforcing", declared)
    /\ ideal = [map |-> Snapshot, saved |-> <<>>, events |-> <<>>]
    /\ ops = 0
    /\ verdict = "no"
    /\ reentered = {}

Running == verdict = "no" /\ ops < MaxOps
InContract == Running /\ recorder.frames # <<>>
Me == Last(recorder.frames).c

\* What the ideal store does when a frame fails.
IdealFails == [map |-> Last(ideal.saved).map, saved |-> Front(ideal.saved),
               events |-> SubSeq(ideal.events, 1, Last(ideal.saved).events)]

\* A host function on both hosts: its error fails the frame that called it, and a
\* footprint violation the transaction.
Apply(Op(_), done) ==
    LET r == Op(recorder)
        e == Op(enforcer)
        fails == r.out = "fail"
    IN
    /\ recorder' = IF fails /\ r.h.frames # <<>> THEN FailFrame(r.h) ELSE r.h
    /\ enforcer' = IF e.out = "fail" /\ e.h.frames # <<>> THEN FailFrame(e.h) ELSE e.h
    /\ verdict' = IF e.out = "abort" \/ r.out = "abort" THEN "aborted"
               ELSE IF fails /\ Len(recorder.frames) <= 1 THEN "failed" ELSE "no"
    /\ ideal' = IF ~fails THEN done ELSE IF ideal.saved = <<>> THEN ideal ELSE IdealFails
    /\ ops' = ops + 1
    /\ UNCHANGED declared

IdealPut(k, opt) == [ideal EXCEPT !.map = SetAt(@, k, opt)]
IdealLive(k) == IF ideal.map[k] = None THEN MinLiveUntil(k) ELSE ideal.map[k][1].live
IdealEnter == [ideal EXCEPT !.saved = Append(@, [map |-> ideal.map, events |-> Len(ideal.events)])]

\* How long an entry lives is the best of what was asked while it was due.
IdealExtend(i, k, args) ==
    LET live == i.map[k][1].live
        cap == IF Seq0 + args[2] > MaxLiveUntil THEN MaxLiveUntil ELSE Seq0 + args[2]
    IN  IF live > Seq0 + args[1] \/ cap < live THEN i ELSE [i EXCEPT !.map[k][1].live = cap]
IdealCode(c) == CodeKey(ideal.map[InstKey(c)][1].val[1])

Invoke(c) ==
    /\ Running /\ recorder.frames = <<>> /\ ops = 0
    /\ Apply(LAMBDA h : EnterFrame(h, c), IdealEnter)
    /\ UNCHANGED reentered

\* call() and try_call(): a contract that is on the stack is not entered again.  When
\* the callee cannot be entered call() fails the caller and try_call() does not: then
\* no frame was pushed and nothing is rolled back.
Call(c) ==
    /\ InContract /\ Len(recorder.frames) < MaxNesting
    /\ \A i \in DOMAIN recorder.frames : recorder.frames[i].c # c
    /\ Apply(LAMBDA h : EnterFrame(h, c), IdealEnter)
    /\ UNCHANGED reentered
TryCallRefused(c) ==
    /\ InContract /\ EnterFrame(recorder, c).out = "fail"
    /\ Apply(LAMBDA h : LET e == EnterFrame(h, c) IN [e EXCEPT !.out = IF @ = "fail" THEN "ok" ELSE @], ideal)
    /\ UNCHANGED reentered

\* __check_auth of the running contract: self re-entry is allowed.
CheckAuthSelf ==
    /\ InContract /\ Len(recorder.frames) < MaxNesting
    /\ Apply(LAMBDA h : EnterFrame(h, Me), IdealEnter)
    /\ reentered' = reentered \cup {Me}

LedgerCreateContract(c, w) ==
    /\ InContract /\ Len(recorder.frames) < MaxNesting
    /\ Apply(LAMBDA h : Then(CreateWithId(h, c, w), LAMBDA g : EnterFrame(g, c)),
             LET i == IdealPut(InstKey(c), <<[val |-> <<w, None>>, live |-> MinLiveUntil(InstKey(c))]>>)
             IN  [i EXCEPT !.saved = Append(@, [map |-> i.map, events |-> Len(i.events)])])
    /\ UNCHANGED reentered

UploadWasm(w) ==
    /\ InContract
    /\ Apply(LAMBDA h : Upload(h, w),
             IF ideal.map[CodeKey(w)] # None /\ ideal.map[CodeKey(w)][1].val = <<"refined">> THEN ideal
             ELSE IdealPut(CodeKey(w), <<[val |-> <<"refined">>, live |-> MinLiveUntil(CodeKey(w))]>>))
    /\ UNCHANGED reentered

UpdateCurrentContractWasm(w) ==
    /\ InContract
    /\ Apply(LAMBDA h : UpdateWasm(h, w),
             [IdealPut(InstKey(Me), <<[ideal.map[InstKey(Me)][1] EXCEPT !.val[1] = w]>>) EXCEPT
                 !.events = Append(@, <<"update", w>>)])
    /\ UNCHANGED reentered

PutContractData(k, v) ==
    /\ InContract /\ k[1] = Me
    /\ Apply(LAMBDA h : PutData(h, k, v), IdealPut(k, <<[val |-> <<v>>, live |-> IdealLive(k)]>>))
    /\ UNCHANGED reentered
GetContractData(k) ==
    /\ InContract /\ k[1] = Me
    /\ Apply(LAMBDA h : GetEntry(h, k), ideal)
    /\ UNCHANGED reentered
HasContractData(k) ==
    /\ InContract /\ k[1] = Me
    /\ Apply(LAMBDA h : Has(h, k), ideal)
    /\ UNCHANGED reentered
DelContractData(k) ==
    /\ InContract /\ k[1] = Me
    /\ Apply(LAMBDA h : PutOpt(h, k, None), IdealPut(k, None))
    /\ UNCHANGED reentered

PutInstanceData(v) ==
    /\ InContract
    /\ Apply(LAMBDA h : WriteInstance(h, <<v>>), IdealPut(InstKey(Me), <<[ideal.map[InstKey(Me)][1] EXCEPT !.val[2] = <<v>>]>>))
    /\ UNCHANGED reentered
DelInstanceData ==
    /\ InContract
    /\ Apply(LAMBDA h : WriteInstance(h, None), IdealPut(InstKey(Me), <<[ideal.map[InstKey(Me)][1] EXCEPT !.val[2] = None]>>))
    /\ UNCHANGED reentered
GetInstanceData ==
    /\ InContract
    /\ Apply(ReadInstance, ideal)
    /\ UNCHANGED reentered

ExtendContractDataTtl(k, args) ==
    /\ InContract /\ k[1] = Me
    /\ Apply(LAMBDA h : ExtendTtl(h, k, args[1], args[2]), IdealExtend(ideal, k, args))
    /\ UNCHANGED reentered
ExtendContractInstanceTtl(c, args) ==
    /\ InContract
    /\ Apply(LAMBDA h : ExtendTtl(h, InstKey(c), args[1], args[2]), IdealExtend(ideal, InstKey(c), args))
    /\ UNCHANGED reentered
ExtendContractCodeTtl(c, args) ==
    /\ InContract
    /\ Apply(LAMBDA h : ExtendCode(h, c, args[1], args[2]), IdealExtend(ideal, IdealCode(c), args))
    /\ UNCHANGED reentered
ExtendContractInstanceAndCodeTtl(c, args) ==
    /\ InContract
    /\ Apply(LAMBDA h : ExtendInstanceAndCode(h, c, args[1], args[2]),
             IdealExtend(IdealExtend(ideal, InstKey(c), args), IdealCode(c), args))
    /\ UNCHANGED reentered

ContractEvent ==
    /\ InContract
    /\ Apply(LAMBDA h : Ok(RecordEvent(h, <<"event", ops>>)), [ideal EXCEPT !.events = Append(@, <<"event", ops>>)])
    /\ UNCHANGED reentered

ReturnFrame ==
    /\ verdict = "no" /\ recorder.frames # <<>>
    /\ LET r == LeaveFrame(recorder)
           e == LeaveFrame(enforcer)
       IN  /\ recorder' = r.h
           /\ enforcer' = e.h
           /\ verdict' = IF "abort" \in {r.out, e.out} THEN "aborted"
                      ELSE IF Len(recorder.frames) = 1 THEN "done" ELSE "no"
    /\ ideal' = [ideal EXCEPT !.saved = Front(@)]
    /\ UNCHANGED <<declared, ops, reentered>>

\* The contract traps or returns an error.
LedgerFrameFails ==
    /\ verdict = "no" /\ recorder.frames # <<>>
    /\ recorder' = FailFrame(recorder)
    /\ enforcer' = FailFrame(enforcer)
    /\ verdict' = IF Len(recorder.frames) = 1 THEN "failed" ELSE "no"
    /\ ideal' = IdealFails
    /\ UNCHANGED <<declared, ops, reentered>>

Ended == verdict # "no" /\ UNCHANGED gvars

LedgerNext ==
    \/ \E c \in LContracts : Invoke(c) \/ Call(c) \/ TryCallRefused(c)
    \/ \E c \in LContracts, w \in Codes : LedgerCreateContract(c, w)
    \/ CheckAuthSelf
    \/ \E w \in Codes : UploadWasm(w) \/ UpdateCurrentContractWasm(w)
    \/ \E k \in DataKeys, v \in Vals : PutContractData(k, v)
    \/ \E k \in DataKeys : GetContractData(k) \/ HasContractData(k) \/ DelContractData(k)
    \/ \E v \in Vals : PutInstanceData(v)
    \/ GetInstanceData
    \/ DelInstanceData
    \/ \E k \in DataKeys, args \in TtlArgs : ExtendContractDataTtl(k, args)
    \/ \E c \in LContracts, args \in TtlArgs :
          \/ ExtendContractInstanceTtl(c, args)
          \/ ExtendContractCodeTtl(c, args)
          \/ ExtendContractInstanceAndCodeTtl(c, args)
    \/ ContractEvent
    \/ ReturnFrame
    \/ LedgerFrameFails
    \/ Ended

LedgerSpec == LedgerInit /\ [][LedgerNext]_gvars

-----------------------------------------------------------------------------
(* Properties                                                              *)

\* What a host would answer for a key: an open frame answers for its own instance.
Visible(h, k) ==
    LET stored == IF k \in DOMAIN h.map THEN h.map[k] ELSE Snapshot[k]
        open == {i \in DOMAIN h.frames : InstKey(h.frames[i].c) = k /\ h.frames[i].dirty}
    IN  IF open = {} THEN stored
        ELSE <<[stored[1] EXCEPT !.val[2] = h.frames[CHOOSE i \in open : TRUE].cache[1]]>>

\* Caching instance storage in frames, rolling back maps and marking events implements
\* nested transactions: in both modes and after any failures that were caught, every
\* key answers as one store that is written through and restored when a frame fails,
\* and the events that are left are those of surviving frames in order.  A contract
\* that re-entered itself is left out: its frames keep copies of one instance and the
\* one that ends last wins.
NestedTransactions ==
    \A h \in {recorder, enforcer} :
        verdict \in {"no", "done"} =>
            /\ \A k \in LedgerKeys \ {InstKey(c) : c \in reentered} :
                  h.mode = "recording" \/ k \in DOMAIN h.fp => Visible(h, k) = ideal.map[k]
            /\ ContractEvents(h) = ideal.events

Covers(fp, other) == \A k \in DOMAIN other : EnforceAccess(fp, k, other[k])

\* The footprint recorded in simulation is the one the transaction needs: with a
\* declared footprint that covers it the enforcing host refuses nothing and its rent
\* changes are those of the simulation, and with any other the transaction is refused,
\* even when the access was in a frame that failed.
FootprintExact ==
    /\ verdict = "aborted" <=> ~Covers(declared, recorder.fp)
    /\ verdict = "done" /\ declared = recorder.fp => RentChanges(recorder) = RentChanges(enforcer)
=============================================================================
