------------------------------- MODULE HostVm -------------------------------
(***************************************************************************)
(* The border between the host and the Wasm VMs it runs: the budget and its *)
(* shadow (budget.rs), the fuel a VM is given and gives back at every       *)
(* crossing (vm.rs, vm/dispatch.rs, vm/fuel_refillable.rs), and the object  *)
(* handles a VM sees, each frame through a table of its own                 *)
(* (host_object.rs).  One invocation with nested calls; a VM may pass any   *)
(* number as a handle, with any tag.                                        *)
(***************************************************************************)
EXTENDS Integers, Sequences, SequencesExt, FiniteSets

CONSTANTS
    CpuLimit, MemLimit, ShadowCpuLimit, \* BudgetDimension limits
    PerFuel,      \* const_term of WasmInsnExec, at least 1
    Cost,         \* [invoke, dispatch, alloc, visit, log]: <<cpu, mem>> of one charge
    Insns,        \* fuel of one Wasm instruction
    Tags,         \* object types
    Debug,        \* BOOLEAN: DiagnosticLevel::Debug
    MaxVms,       \* bound: nested frames
    MaxObjects,   \* bound: host objects
    MaxShadow     \* bound: nested shadow sections

\* An invocation whose first charge exceeds the limit does not get started.
ASSUME VmAssumption ==
    /\ PerFuel \in Nat \ {0} /\ Insns \subseteq Nat \ {0}
    /\ {CpuLimit, MemLimit, ShadowCpuLimit} \subseteq Nat
    /\ LET charge == Nat \X Nat
       IN  Cost \in [invoke : charge, dispatch : charge, alloc : charge, visit : charge, log : charge]
    /\ Cost.invoke[1] + Cost.alloc[1] <= CpuLimit
    /\ Debug \in BOOLEAN

VARIABLES
    budget,   \* [cpu, mem, scpu]: consumed, and consumed in shadow mode
    shadow,   \* is_in_shadow_mode
    prevs,    \* the value each open with_shadow_mode() restores
    objects,  \* absolute object table: [tag, inner], inner another object's index or 0
    vms,      \* frames: [total, used: fuel; table: relative objects; history: born, how many
              \* objects there were before it, and log, the objects it got at]
    over,     \* "no", "done", or "budget" once an error that cannot be caught ended it all
    work,     \* cpu of everything that was really executed
    plain     \* [cpu, mem] of the same invocation where diagnostics are off

vvars == <<budget, shadow, prevs, objects, vms, over, work, plain>>

Saved == [cpu |-> budget.cpu, mem |-> budget.mem]

\* BudgetImpl::charge() with BudgetDimension::charge() and check_budget_limit(): cpu is
\* checked before memory is charged.
Charge(b, c) ==
    IF shadow THEN [b EXCEPT !.scpu = @ + c[1]]
    ELSE LET charged == [b EXCEPT !.cpu = @ + c[1]] IN
         IF charged.cpu > CpuLimit THEN charged ELSE [charged EXCEPT !.mem = @ + c[2]]
Within(b) == b.cpu <= CpuLimit /\ b.mem <= MemLimit
\* MeteredCostComponent::evaluate() of a constant model, for several iterations.
Evaluate(c, n) == <<c[1] * n, c[2] * n>>

\* is_relative_object_handle(), handle_to_index() with indices from 1, index_to_handle().
IsRelative(h) == h % 2 = 0
HandleIndex(h) == h \div 2 + 1

\* relative_to_absolute(): the object a handle of the VM stands for, 0 if it is refused.
RelativeToAbsoluteMutant(vm, h, tag) ==
    LET t == IF IsRelative(h) THEN vm.table ELSE [i \in 1 .. Len(objects) |-> i] IN
    IF HandleIndex(h) \in DOMAIN t /\ objects[t[HandleIndex(h)]].tag = tag
    THEN t[HandleIndex(h)] ELSE 0
RelativeToAbsolute(vm, h, tag) ==
    IF IsRelative(h) /\ HandleIndex(h) \in DOMAIN vm.table
       /\ objects[vm.table[HandleIndex(h)]].tag = tag
    THEN vm.table[HandleIndex(h)] ELSE 0

\* absolute_to_relative(): a new entry of the table.
AbsoluteToRelative(vm, o) == [vm EXCEPT !.table = Append(@, o)]

\* get_wasmi_fuel_remaining() and add_fuel_to_vm(), to a VM whose fuel is clean.
FuelRemaining(b) == (IF b.cpu > CpuLimit THEN 0 ELSE CpuLimit - b.cpu) \div PerFuel
AddFuel(vm, b) == [vm EXCEPT !.total = FuelRemaining(b)]
\* return_fuel_to_host(): the fuel used is charged, and the VM left clean.
FuelUsed(b, vm) == Charge(b, Evaluate(<<PerFuel, 0>>, vm.used))
Clean(vm) == [vm EXCEPT !.used = 0, !.total = 0]

TopVm == vms[Len(vms)]
Below == Front(vms)
NewVm(args) == [total |-> 0, used |-> 0, table |-> args, born |-> Len(objects), log |-> {}]

\* invoke_function_raw() and metered_func_call(): the arguments get handles of the new
\* frame, and the VM gets what is left as fuel.
Invoked(args) == <<Cost.invoke[1] + Len(args) * Cost.alloc[1], Cost.invoke[2] + Len(args) * Cost.alloc[2]>>

VmInit ==
    /\ budget = [cpu |-> Cost.invoke[1] + Cost.alloc[1], mem |-> Cost.invoke[2] + Cost.alloc[2], scpu |-> 0]
    /\ shadow = FALSE
    /\ prevs = <<>>
    /\ objects \in {<<[tag |-> t, inner |-> 0], [tag |-> u, inner |-> 0]>> : t, u \in Tags}
    /\ vms = <<AddFuel(NewVm(<<1>>), budget)>>   \* the second object is the host's own
    /\ over = "no"
    /\ work = budget.cpu
    /\ plain = Saved

\* Nothing but a VM moves: no diagnostics are being recorded.
VmRunning == over = "no" /\ prevs = <<>> /\ UNCHANGED <<shadow, prevs>>

\* What a dispatch function does first: the fuel used comes back and the call is charged.
Dispatched == FuelUsed(budget, TopVm)
DispatchVm(vm) == Clean(vm)
\* Then the host charges c: it goes on with the VMs of `next`, of which the last is given
\* fuel, or the budget is exceeded and ends the invocation.
Goes(c, next) ==
    LET after == Charge(Dispatched, c) IN
    /\ budget' = after
    /\ work' = work + c[1]
    /\ plain' = [cpu |-> after.cpu, mem |-> after.mem]
    /\ IF Within(after)
       THEN /\ over' = "no"
            /\ vms' = IF next = <<>> THEN <<>> ELSE Append(Front(next), AddFuel(Last(next), after))
       ELSE over' = "budget" /\ UNCHANGED vms

\* One Wasm instruction: taken off the fuel before it is executed, or the VM traps with
\* OutOfFuel, an error of the budget.
Execute(n) ==
    /\ VmRunning
    /\ IF TopVm.used + n > TopVm.total THEN over' = "budget" /\ UNCHANGED <<vms, work>>
       ELSE /\ vms' = [vms EXCEPT ![Len(vms)].used = @ + n]
            /\ work' = work + n * PerFuel
            /\ UNCHANGED over
    /\ UNCHANGED <<budget, objects, plain>>

\* The arguments are wrong, or the host function fails: a trap, after which the frame is
\* popped and its caller gets the error, or the invocation ends with it.
Failing(c) ==
    /\ Goes(c, Below)
    /\ UNCHANGED objects

\* A function that makes an object, around the one passed.
NewObject(h, tag, new) ==
    /\ VmRunning
    /\ Len(objects) < MaxObjects
    /\ LET o == RelativeToAbsolute(TopVm, h, tag) IN
       IF o = 0 THEN Failing(Cost.dispatch)
       ELSE /\ objects' = Append(objects, [tag |-> new, inner |-> o])
            /\ Goes(<<Cost.dispatch[1] + 2 * Cost.alloc[1], Cost.dispatch[2] + 2 * Cost.alloc[2]>>,
                    Append(Below, AbsoluteToRelative([DispatchVm(TopVm) EXCEPT !.log = @ \cup {o}],
                                                     Len(objects) + 1)))

\* A function that looks into an object and returns what it holds, or fails.
GetInner(h, tag) ==
    /\ VmRunning
    /\ LET o == RelativeToAbsolute(TopVm, h, tag)
           c == <<Cost.dispatch[1] + Cost.visit[1], Cost.dispatch[2] + Cost.visit[2]>> IN
       IF o = 0 THEN Failing(Cost.dispatch)
       ELSE IF objects[o].inner = 0 THEN Failing(c)
       ELSE /\ Len(TopVm.table) < MaxObjects
            /\ Goes(<<c[1] + Cost.alloc[1], c[2] + Cost.alloc[2]>>,
                    Append(Below, AbsoluteToRelative([DispatchVm(TopVm) EXCEPT !.log = @ \cup {o}],
                                                     objects[o].inner)))
            /\ UNCHANGED objects

\* call() and try_call(): the caller waits with no fuel while another VM runs.
CallVm(h, tag) ==
    /\ VmRunning
    /\ Len(vms) < MaxVms
    /\ LET o == RelativeToAbsolute(TopVm, h, tag) IN
       IF o = 0 THEN Failing(Cost.dispatch)
       ELSE /\ Goes(<<Cost.dispatch[1] + Invoked(<<o>>)[1], Cost.dispatch[2] + Invoked(<<o>>)[2]>>,
                    Below \o <<[DispatchVm(TopVm) EXCEPT !.log = @ \cup {o}], NewVm(<<o>>)>>)
            /\ UNCHANGED objects

\* The VM returns: its handle is translated in its own table, then for the caller.
ReturnVm(h, tag) ==
    /\ VmRunning
    /\ LET o == RelativeToAbsolute(TopVm, h, tag) IN
       IF o = 0 THEN Failing(<<0, 0>>)
       ELSE IF Len(vms) = 1
       THEN /\ budget' = Dispatched /\ plain' = [cpu |-> budget'.cpu, mem |-> budget'.mem]
            /\ vms' = <<>> /\ over' = "done" /\ UNCHANGED <<objects, work>>
       ELSE /\ Len(Last(Below).table) < MaxObjects
            /\ Goes(Cost.alloc, Append(Front(Below), AbsoluteToRelative(Last(Below), o)))
            /\ UNCHANGED objects
TrapVm == VmRunning /\ Failing(<<0, 0>>)

\* An invocation whose only frame failed is over.
FinishVm ==
    /\ over = "no" /\ vms = <<>>
    /\ over' = "done"
    /\ UNCHANGED <<budget, shadow, prevs, objects, vms, work, plain>>

-----------------------------------------------------------------------------
(* Diagnostics: with_debug_mode() runs them in shadow mode.  They nest, since *)
(* recording an error may itself meet one.                                    *)

WithShadowMode ==
    /\ Debug /\ over = "no" /\ vms # <<>>
    /\ Len(prevs) < MaxShadow
    /\ budget.scpu <= ShadowCpuLimit       \* else the section is skipped and nothing changes
    /\ prevs' = Append(prevs, shadow)
    /\ shadow' = TRUE
    /\ UNCHANGED <<budget, objects, vms, over, work, plain>>
\* What is recorded is charged; over the shadow limit the section is left, the error swallowed.
ShadowCharge ==
    /\ prevs # <<>>
    /\ budget.scpu <= ShadowCpuLimit
    /\ budget' = Charge(budget, Cost.log)
    /\ UNCHANGED <<shadow, prevs, objects, vms, over, work, plain>>
ShadowLeaveMutant ==
    /\ prevs # <<>>
    /\ shadow' = FALSE
    /\ prevs' = Front(prevs)
    /\ UNCHANGED <<budget, objects, vms, over, work, plain>>
ShadowLeave ==
    /\ prevs # <<>>
    /\ shadow' = Last(prevs)
    /\ prevs' = Front(prevs)
    /\ UNCHANGED <<budget, objects, vms, over, work, plain>>

VmNext ==
    \/ vms # <<>> /\
       \/ \E n \in Insns : Execute(n)
       \/ \E h \in 0 .. 2 * MaxObjects, tag, new \in Tags : NewObject(h, tag, new)
       \/ \E h \in 0 .. 2 * MaxObjects, tag \in Tags :
             GetInner(h, tag) \/ CallVm(h, tag) \/ ReturnVm(h, tag)
       \/ TrapVm
    \/ FinishVm
    \/ WithShadowMode \/ ShadowCharge \/ ShadowLeave

VmSpec == VmInit /\ [][VmNext]_vvars

-----------------------------------------------------------------------------
(* Properties                                                              *)

\* All that was ever executed, by whichever of the nested VMs and by the host for them,
\* has been charged or is fuel used by the VM on top, exactly once, and is within the
\* limit; a VM that waits for another holds no fuel.  This is what keeps a budget whole
\* that changes hands at every call.  Diagnostics are not observed: with them on, in
\* however many nested sections and also when their own limit is exceeded, an
\* invocation consumes what it consumes without (`plain`).
WorkMetered ==
    /\ over = "no" =>
           /\ work = budget.cpu + (IF vms = <<>> THEN 0 ELSE PerFuel * TopVm.used)
           /\ work <= CpuLimit
           /\ \A i \in 1 .. Len(vms) - 1 : vms[i].total = 0 /\ vms[i].used = 0
    /\ Saved = plain

\* A frame, with all the frames it calls, gets at what can be reached from the argument
\* it was passed and at what was made since it began, whatever numbers the VMs use for
\* handles: not at its caller's other objects, and not at the host's own.
ClosedUnder(objs, S) == \A o \in S : objs[o].inner = 0 \/ objs[o].inner \in S
Reached(objs, a) ==
    {x \in 1 .. Len(objs) :
        \A S \in SUBSET (1 .. Len(objs)) : a \in S /\ ClosedUnder(objs, S) => x \in S}
MadeSince(objs, n) == {o \in 1 .. Len(objs) : o > n}
ObjectsIsolated ==
    \A i \in 1 .. Len(vms) :
        vms[i].log \subseteq Reached(objects, vms[i].table[1]) \cup MadeSince(objects, vms[i].born)
=============================================================================
