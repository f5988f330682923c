------------------------------ MODULE HostAuth ------------------------------
(***************************************************************************)
(* The authorization manager of the host (soroban-env-host/src/auth.rs) as  *)
(* operators on its state `am`: the call stack, the trackers of the         *)
(* authorization entries of the transaction (acct) and those that contracts *)
(* add at run time (inv), and in recording mode the map from address        *)
(* objects to trackers (handles).  An authorized invocation tree is a       *)
(* function from the paths of its nodes (sequences of indices in parent) to *)
(* the functions they authorize.                                            *)
(***************************************************************************)
EXTENDS Integers, Sequences, FiniteSets, SequencesExt, Vec

\* MatchState; a SubMatch is its index_in_parent, counted from 1.
Unmatched == -1
RootMatch == 0
Root == <<>>

NewTracker(addr, tree) ==
    [addr |-> addr, tree |-> tree, used |-> {}, match |-> <<>>, rootAt |-> 0,
     processed |-> FALSE, verified |-> FALSE]

NewManager(trackers) == [call |-> <<>>, acct |-> trackers, inv |-> <<>>, handles |-> <<>>]

IsActive(t) == Root \in t.used /\ ~t.processed
FrameMatched(t) == t.match # <<>> /\ Last(t.match) # Unmatched
RootInStack(t) == Contains(t.match, RootMatch)

\* last_authorized_invocation_mut(): the node the match stack leads to.
LastPath(t) == Kept(t.match, Nat \ {0})

\* The unused children of the last matched node that authorize fn.
OpenSubs(t, fn) ==
    LET p == LastPath(t)
        children == {q \in DOMAIN t.tree : Len(q) = Len(p) + 1 /\ IsPrefix(p, q)}
    IN  {Last(q) : q \in {q \in children : q \notin t.used /\ t.tree[q] = fn}}

\* A tracker no frame was pushed on since it was added has no entry to write.
Mark(t, m, path) ==
    IF t.match = <<>> THEN [t EXCEPT !.used = @ \cup {path}]
    ELSE [t EXCEPT !.used = @ \cup {path}, !.match = [@ EXCEPT ![Len(t.match)] = m],
                   !.rootAt = IF m = RootMatch THEN Len(t.match) ELSE @]

\* maybe_extend_invocation_match(): the tracker itself when nothing matches.
ExtendMutant(t, fn, allowRoot) ==
    IF FrameMatched(t) THEN t
    ELSE IF RootInStack(t) /\ OpenSubs(t, fn) # {}
    THEN LET i == CHOOSE i \in OpenSubs(t, fn) : \A j \in OpenSubs(t, fn) : i <= j
         IN  Mark(t, i, Append(LastPath(t), i))
    ELSE IF allowRoot /\ t.tree[Root] = fn
    THEN Mark(t, RootMatch, Root)
    ELSE t
Extend(t, fn, allowRoot) ==
    IF FrameMatched(t) THEN t
    ELSE IF RootInStack(t)
    THEN IF OpenSubs(t, fn) = {} THEN t
         ELSE LET i == CHOOSE i \in OpenSubs(t, fn) : \A j \in OpenSubs(t, fn) : i <= j
              IN  Mark(t, i, Append(LastPath(t), i))
    ELSE IF Root \notin t.used /\ allowRoot /\ t.tree[Root] = fn
    THEN Mark(t, RootMatch, Root)
    ELSE t

PushTracker(t) == [t EXCEPT !.match = Append(@, Unmatched)]
PopTracker(t) ==
    LET m == IF t.match = <<>> THEN <<>> ELSE Front(t.match)
    IN  [t EXCEPT !.match = m, !.processed = @ \/ t.rootAt > Len(m)]

\* AuthorizedInvocation::snapshot() and rollback(): which nodes are exhausted.
RollbackInvocations(t, old) == [t EXCEPT !.used = old.used]
\* InvocationTracker::rollback(): a root that was not exhausted starts anew.
RollbackTrackerMutant(t, old) == RollbackInvocations(t, old)
RollbackTracker(t, old) ==
    IF Root \in old.used THEN RollbackInvocations(t, old)
    ELSE [RollbackInvocations(t, old) EXCEPT !.rootAt = 0, !.processed = FALSE]
\* AccountAuthorizationTracker::rollback(): its verification too.
RollbackAccountMutant(t, old) == RollbackTracker(t, old)
RollbackAccount(t, old) == [RollbackTracker(t, old) EXCEPT !.verified = old.verified]

\* push_frame() and push_create_contract_host_fn_frame(): trackers that are being
\* authenticated (borrowed) are left alone.
PushAuthFrame(am, fn, borrowed) ==
    [am EXCEPT !.call = Append(@, fn),
               !.acct = [i \in DOMAIN @ |-> IF i \in borrowed THEN @[i] ELSE PushTracker(@[i])],
               !.inv = [i \in DOMAIN @ |-> PushTracker(@[i])]]

\* The trailing trackers whose scope has ended are dropped.
InScope(trackers) ==
    LET n == {i \in 0..Len(trackers) : i = 0 \/ trackers[i].match # <<>>}
    IN  SubSeq(trackers, 1, CHOOSE i \in n : \A j \in n : j <= i)

\* pop_frame() without a snapshot; the frame of a host function has no entry.
PopAuthFrame(am, borrowed) ==
    IF am.call = <<>> THEN am
    ELSE [am EXCEPT !.call = Front(@),
               !.acct = [i \in DOMAIN @ |-> IF i \in borrowed THEN @[i] ELSE PopTracker(@[i])],
               !.inv = InScope([i \in DOMAIN @ |-> PopTracker(@[i])])]

\* snapshot() and rollback(), in enforcing mode of the trackers that are not borrowed;
\* rollback() fails when trackers were added in between and are still there.
CanRollback(am, old) == Len(am.inv) = Len(old.inv)
Rollback(am, old, borrowed) ==
    [am EXCEPT !.acct = [i \in DOMAIN @ |-> IF i \in borrowed THEN @[i]
                                            ELSE RollbackAccount(@[i], old.acct[i])],
               !.inv = [i \in DOMAIN @ |-> RollbackTracker(@[i], old.inv[i])]]

\* maybe_check_invoker_contract_auth(): the direct invoker, or a tracker added above.
InvokerIs(am, addr) == Len(am.call) >= 2 /\ am.call[Len(am.call) - 1] = <<"call", addr>>
InvokerTrackers(am, addr) ==
    {i \in DOMAIN am.inv : Len(am.call) >= 2 /\ am.inv[i].addr = addr
                           /\ Extend(am.inv[i], Last(am.call), TRUE) # am.inv[i]}

\* require_auth_enforcing(): the trackers that match; the first of them is taken.
AllowRoot(am, addr, borrowed) ==
    ~\E i \in DOMAIN am.acct \ borrowed :
        am.acct[i].addr = addr /\ IsActive(am.acct[i]) /\ ~FrameMatched(am.acct[i])
Extended(am, addr, borrowed, i) ==
    Extend(am.acct[i], Last(am.call), AllowRoot(am, addr, borrowed))
AccountTrackers(am, addr, borrowed) ==
    {i \in DOMAIN am.acct \ borrowed :
        am.acct[i].addr = addr /\ Extended(am, addr, borrowed, i) # am.acct[i]}
First(S) == CHOOSE i \in S : \A j \in S : i <= j

\* add_invoker_contract_auth_with_curr_contract_as_invoker()
AddInvokerAuth(am, addr, trees) ==
    [am EXCEPT !.inv = @ \o [i \in DOMAIN trees |-> NewTracker(addr, trees[i])]]

-----------------------------------------------------------------------------
(* Recording mode                                                          *)

\* new_recording(): the root is the invocation that asks.
RecordingTracker(am, addr) ==
    [NewTracker(addr, (Root :> Last(am.call))) EXCEPT
        !.used = {Root}, !.verified = TRUE, !.rootAt = Len(am.call),
        !.match = [i \in 1..Len(am.call) |-> IF i = Len(am.call) THEN RootMatch ELSE Unmatched]]

\* record_invocation() of a tracker that is in the stack: a new last child.
RecordInvocationMutant(t, fn) ==
    LET n == Cardinality({q \in DOMAIN t.tree : Len(q) = Len(LastPath(t)) + 1}) + 1
    IN  [t EXCEPT !.match = [@ EXCEPT ![Len(t.match)] = n]]
RecordInvocation(t, fn) ==
    LET p == LastPath(t)
        n == Cardinality({q \in DOMAIN t.tree : Len(q) = Len(p) + 1 /\ IsPrefix(p, q)}) + 1
    IN  [t EXCEPT !.tree = (Append(p, n) :> fn) @@ @, !.used = @ \cup {Append(p, n)},
                  !.match = [@ EXCEPT ![Len(t.match)] = n]]

InStack(t) == \E i \in DOMAIN t.match : t.match[i] # Unmatched

\* require_auth_recording(): the tracker of this address object while it is in the
\* stack, else one of the address that has not matched this frame, else a new one.
\* HandleOf gives the tracker of an object, 0 when it has none or an ended one.
HandleOf(am, h) ==
    IF h \in DOMAIN am.handles /\ InStack(am.acct[am.handles[h]]) THEN am.handles[h] ELSE 0
Reusable(am, addr) ==
    {i \in DOMAIN am.acct : am.acct[i].addr = addr /\ InStack(am.acct[i]) /\ ~FrameMatched(am.acct[i])}
\* An error: the frame has been recorded for this object, or a new tree is not wanted here.
RecordingRefused(am, addr, h, rootOnly) ==
    \/ HandleOf(am, h) # 0 /\ FrameMatched(am.acct[HandleOf(am, h)])
    \/ HandleOf(am, h) = 0 /\ Reusable(am, addr) = {} /\ rootOnly /\ Len(am.call) # 1
RequireRecording(am, addr, h) ==
    LET forgotten == IF HandleOf(am, h) = 0
                     THEN [am EXCEPT !.handles = [k \in DOMAIN @ \ {h} |-> @[k]]] ELSE am
        i == IF HandleOf(am, h) # 0 THEN HandleOf(am, h) ELSE First(Reusable(am, addr))
    IN  IF HandleOf(am, h) # 0 \/ Reusable(am, addr) # {}
        THEN [forgotten EXCEPT !.acct[i] = RecordInvocation(@, Last(am.call))]
        ELSE [am EXCEPT !.acct = Append(@, RecordingTracker(am, addr)),
                        !.handles = (h :> Len(am.acct) + 1) @@ @]

\* get_recorded_auth_payloads() as the entries of an enforcing manager.
RecordedEntries(am) == [i \in DOMAIN am.acct |-> NewTracker(am.acct[i].addr, am.acct[i].tree)]
=============================================================================
