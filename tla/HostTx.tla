------------------------------- MODULE HostTx -------------------------------
(***************************************************************************)
(* One transaction of the host in enforcing mode: the frames of contract    *)
(* calls with their rollback points (soroban-env-host/src/host/frame.rs,    *)
(* host/lifecycle.rs), the authorization manager (HostAuth) and the nonces  *)
(* it stores.  Contracts do anything they can: call, create contracts,      *)
(* require and give authorization, catch the failure of a call or fail.     *)
(* The authentication of a custom account runs its __check_auth in a frame  *)
(* of its own, during which its tracker is borrowed.                        *)
(***************************************************************************)
EXTENDS HostAuth

CONSTANTS
    Contracts,     \* deployed contracts
    NewContract,   \* a contract that may be created by the transaction
    Customs,       \* the contracts among Contracts that are custom accounts
    Accounts,      \* classic accounts
    Thresholds,    \* of an account: [master: key, weight: its weight, med: threshold]
    Signers,       \* of an account: sequence of [key, weight]
    MaxWeight,     \* u8::MAX
    MaxSignatures, \* MAX_ACCOUNT_SIGNATURES
    EntrySets,     \* what may accompany the transaction: sequences of authorization entries
    InvokerAuths,  \* what a contract may authorize as itself: sequences of trees
    MaxInvokers,   \* bound: trackers added at run time at a time
    MaxDepth,      \* DEFAULT_HOST_DEPTH_LIMIT
    MaxFrames,     \* bound: frames pushed in a transaction
    MaxAuths       \* bound: require_auth calls of a transaction

\* The path of a node: the indices of its ancestors and its own, each in its parent.
PathsOK(tree) == DOMAIN tree \subseteq Seq(Nat \ {0})

\* What the XDR types of the entries and of the accounts give; an account is no contract.
ASSUME TxAssumption ==
    /\ \A es \in EntrySets : Len(es) \in Nat /\ DOMAIN es = 1 .. Len(es)
    /\ \A es \in EntrySets : \A i \in DOMAIN es :
           /\ es[i].source \in BOOLEAN /\ es[i].sigs \in Seq([key : Int, valid : BOOLEAN])
           /\ PathsOK(es[i].tree)
    /\ \A ts \in InvokerAuths :
           Len(ts) \in Nat /\ DOMAIN ts = 1 .. Len(ts) /\ \A i \in DOMAIN ts : PathsOK(ts[i])
    /\ \A a \in Accounts :
           Thresholds[a].weight \in Nat /\ Signers[a] \in Seq([key : Int, weight : Nat])
    /\ MaxWeight \in Nat
    /\ Customs \subseteq Contracts /\ Accounts \cap Contracts = {}

VARIABLES
    entries,   \* the entries of the transaction, with their credentials
    am,        \* the authorization manager
    stack,     \* the contexts, innermost last, each with its rollback point
    store,     \* the storage map: nonces consumed and contracts created
    grants,    \* history: authorizations given and not rolled back, oldest first
    frames,    \* frames pushed so far
    auths,     \* require_auth calls so far
    outcome    \* "running", "ok", "failed" or "internal"

txvars == <<entries, am, stack, store, grants, frames, auths, outcome>>

Addresses == Accounts \cup Contracts
Top == stack[Len(stack)]

\* The trackers that wait for their __check_auth.
Borrowed == {stack[i].auth : i \in DOMAIN stack} \ {0}

\* A nonce is stored under its address.
NonceKey(e) == <<"nonce", e.addr, e.nonce>>
InstanceKey(c) == <<"instance", c>>

\* The context stack starts with the frame of the host function.
TxInit ==
    /\ entries \in EntrySets
    /\ am = NewManager([i \in DOMAIN entries |-> NewTracker(entries[i].addr, entries[i].tree)])
    /\ stack = <<>>
    /\ store = {InstanceKey(c) : c \in Contracts}
    /\ grants = <<>>
    /\ frames = 0
    /\ auths = 0
    /\ outcome = "running"

\* push_context(): `after` says what its end continues ("call": a call of a contract,
\* "auth": the authentication of tracker `auth`, "ctor": the creation of a contract);
\* manager, map and history are those to return to.  The creation of a contract
\* ("create") has a frame of the authorization manager only; its stages are "asks" (for
\* the authorization of the deployer), "creates" (the instance) and "created".
Context(c, id, after, stage, auth, manager, map, log) ==
    [c |-> c, id |-> id, after |-> after, stage |-> stage, auth |-> auth, failing |-> FALSE,
     am |-> manager, store |-> map, grants |-> log]

\* The frames of contracts; below them is the one of the host function.
Calls == {i \in DOMAIN stack : stack[i].after # "create"}
HasDepth == 1 + Cardinality(Calls) < MaxDepth
FrameFits == frames < MaxFrames /\ HasDepth
OnStack(c) == \E i \in Calls : stack[i].c = c

\* The code of a contract runs, or the host function that starts the transaction.
CodeRuns == outcome = "running" /\ stack # <<>> /\ ~Top.failing /\ Top.stage = "runs"
MayCall == outcome = "running" /\ (stack = <<>> => frames = 0) /\ (stack # <<>> => CodeRuns)

\* call_n_internal() with re-entry prohibited, by the invoked host function or a contract.
CallContract(c) ==
    /\ MayCall /\ FrameFits
    /\ ~OnStack(c) /\ InstanceKey(c) \in store
    /\ stack' = Append(stack, Context(c, frames + 1, "call", "runs", 0, am, store, grants))
    /\ am' = PushAuthFrame(am, <<"call", c>>, Borrowed)
    /\ frames' = frames + 1
    /\ UNCHANGED <<entries, store, grants, auths, outcome>>

-----------------------------------------------------------------------------
(* require_auth                                                            *)

\* verify_and_consume_nonce() of an entry that is not the source account's.
NonceOk(e) == e.source \/ (e.live /\ NonceKey(e) \notin store)
ConsumeNonce(e, map) == IF e.source THEN map ELSE map \cup {NonceKey(e)}

Grant(i, t) ==
    [entry |-> i, path |-> IF Last(t.match) = RootMatch THEN Root ELSE LastPath(t),
     frame |-> Top.id, within |-> {stack[n].id : n \in DOMAIN stack}]

\* A contract asks for an authorization, or the creation of a contract does, which goes on
\* to the instance when it has got it.
CanRequire ==
    /\ outcome = "running" /\ stack # <<>> /\ ~Top.failing /\ auths < MaxAuths
    /\ Top.stage \in {"runs", "asks"}
Authorized(contexts) ==
    [contexts EXCEPT ![Len(contexts)].stage = IF @ = "asks" THEN "creates" ELSE @]

InvokerAuthorizes(addr) == InvokerIs(am, addr) \/ InvokerTrackers(am, addr) # {}

\* Authorization by the direct invoker, or by one that authorized the call beforehand;
\* a contract that authorized its own invocation meets a match stack without entries.
RequireAuthInvoker(addr) ==
    LET i == First(InvokerTrackers(am, addr))
        direct == InvokerIs(am, addr)
    IN
    /\ CanRequire /\ InvokerAuthorizes(addr)
    /\ am' = IF direct THEN am ELSE [am EXCEPT !.inv[i] = Extend(@, Last(am.call), TRUE)]
    /\ outcome' = IF ~direct /\ am.inv[i].match = <<>> THEN "internal" ELSE outcome
    /\ stack' = Authorized(stack)
    /\ auths' = auths + 1
    /\ UNCHANGED <<entries, store, grants, frames>>

\* get_signer_weight_from_account(): of the master key or a signer, 0 if it is neither.
SignerWeight(a, k) ==
    LET at == {i \in DOMAIN Signers[a] : Signers[a][i].key = k} IN
    CASE k = Thresholds[a].master -> Thresholds[a].weight
      [] k # Thresholds[a].master /\ at = {} -> 0
      [] OTHER -> Min({Signers[a][First(at)].weight, MaxWeight})
\* check_account_authentication(): signatures by increasing keys, all of them valid and
\* of signers, that together reach the medium threshold.
AccountAuthenticated(a, sigs) ==
    /\ Len(sigs) \in 1 .. MaxSignatures
    /\ \A n \in 1 .. Len(sigs) - 1 : sigs[n].key < sigs[n + 1].key
    /\ \A n \in DOMAIN sigs : sigs[n].valid /\ SignerWeight(a, sigs[n].key) # 0
    /\ MapThenSumSet(LAMBDA n : SignerWeight(a, sigs[n].key), DOMAIN sigs) >= Thresholds[a].med

\* Tracker i is verified, or verifies at once: the source account needs no proof, and
\* signatures of classic accounts are checked on the spot.
Satisfied(i) ==
    \/ am.acct[i].verified
    \/ entries[i].source
    \/ /\ entries[i].addr \in Accounts
       /\ AccountAuthenticated(entries[i].addr, entries[i].sigs)
       /\ NonceOk(entries[i])
Consumed(i) == IF am.acct[i].verified THEN store ELSE ConsumeNonce(entries[i], store)

\* The first matching tracker is marked.
RequireAuthEntry(addr) ==
    LET found == AccountTrackers(am, addr, Borrowed)
        i == First(found)
        t == Extended(am, addr, Borrowed, i)
    IN
    /\ CanRequire /\ ~InvokerAuthorizes(addr) /\ found # {} /\ Satisfied(i)
    /\ am' = [am EXCEPT !.acct[i] = [t EXCEPT !.verified = TRUE]]
    /\ store' = Consumed(i)
    /\ grants' = Append(grants, Grant(i, t))
    /\ stack' = Authorized(stack)
    /\ auths' = auths + 1
    /\ UNCHANGED <<entries, frames, outcome>>

\* A custom account: __check_auth is called with the tracker borrowed; the account may
\* be the innermost contract, but no other one on the stack.
MayReenter(addr) == OnStack(addr) => stack[Max(Calls)].c = addr
RequireAuthCustom(addr) ==
    LET found == AccountTrackers(am, addr, Borrowed)
        i == First(found)
        t == Extended(am, addr, Borrowed, i)
        marked == [am EXCEPT !.acct[i] = t]
    IN
    /\ CanRequire /\ ~InvokerAuthorizes(addr) /\ found # {} /\ FrameFits
    /\ addr \in Customs /\ ~Satisfied(i) /\ MayReenter(addr)
    /\ stack' = Append(stack, Context(addr, frames + 1, "auth", "runs", i, marked, store, grants))
    /\ am' = PushAuthFrame(marked, <<"call", addr>>, Borrowed \cup {i})
    /\ frames' = frames + 1
    /\ auths' = auths + 1
    /\ UNCHANGED <<entries, store, grants, outcome>>

\* No tracker matches, or the one that does fails its check (it stays marked until the
\* frame is rolled back): the host function returns an error and the contract traps.
RequireAuthFails(addr) ==
    LET found == AccountTrackers(am, addr, Borrowed)
        i == First(found)
    IN
    /\ CanRequire /\ ~InvokerAuthorizes(addr)
    /\ found # {} => /\ ~Satisfied(i)
                     /\ addr \in Customs => ~MayReenter(addr) \/ ~HasDepth
    /\ am' = IF found = {} THEN am ELSE [am EXCEPT !.acct[i] = Extended(am, addr, Borrowed, i)]
    /\ stack' = [stack EXCEPT ![Len(stack)].failing = TRUE]
    /\ auths' = auths + 1
    /\ UNCHANGED <<entries, store, grants, frames, outcome>>

\* authorize_as_curr_contract()
AuthorizeAsCurrContract(trees) ==
    /\ CodeRuns /\ Len(am.inv) + Len(trees) <= MaxInvokers
    /\ am' = AddInvokerAuth(am, Top.c, trees)
    /\ UNCHANGED <<entries, stack, store, grants, frames, auths, outcome>>

-----------------------------------------------------------------------------
(* create_contract                                                         *)

\* create_contract_internal() of the invoked host function or of a contract: a frame of the
\* authorization manager, in which the deployer, any address, is asked first.
CreateFn == <<"create", NewContract>>
CreateContract ==
    /\ MayCall /\ frames < MaxFrames
    /\ stack' = Append(stack, Context(NewContract, frames + 1, "create", "asks", 0, am, store, grants))
    /\ am' = PushAuthFrame(am, CreateFn, Borrowed)
    /\ frames' = frames + 1
    /\ UNCHANGED <<entries, store, grants, auths, outcome>>

\* create_contract_with_id() and the constructor, which code of old protocols has not.
Instantiate ==
    LET made == [stack EXCEPT ![Len(stack)].stage = "created"]
        map == store \cup {InstanceKey(NewContract)}
    IN
    /\ outcome = "running" /\ stack # <<>> /\ ~Top.failing /\ Top.stage = "creates"
    /\ InstanceKey(NewContract) \notin store
    /\ store' = map
    /\ \/ stack' = made /\ UNCHANGED <<am, frames>>
       \/ /\ FrameFits
          /\ stack' = Append(made, Context(NewContract, frames + 1, "ctor", "runs", 0, am, map, grants))
          /\ am' = PushAuthFrame(am, <<"call", NewContract>>, Borrowed)
          /\ frames' = frames + 1
    /\ UNCHANGED <<entries, grants, auths, outcome>>

-----------------------------------------------------------------------------
(* The end of a frame                                                      *)

Caller == SubSeq(stack, 1, Len(stack) - 1)
CallerFails == [i \in DOMAIN Caller |-> IF i = Len(Caller) THEN [Caller[i] EXCEPT !.failing = TRUE] ELSE Caller[i]]

\* A call, a constructor or a creation returns; the last frame ends the transaction.
Return ==
    /\ outcome = "running" /\ stack # <<>> /\ Top.after # "auth" /\ ~Top.failing
    /\ Top.stage \in {"runs", "created"}
    /\ stack' = Caller
    /\ am' = PopAuthFrame(am, Borrowed)
    /\ outcome' = IF Caller = <<>> THEN "ok" ELSE outcome
    /\ UNCHANGED <<entries, store, grants, frames, auths>>

\* __check_auth returns: the nonce is checked and consumed, the tracker released.
ReturnCheckAuth ==
    LET i == Top.auth
        t == am.acct[i]
        popped == PopAuthFrame(am, Borrowed)
    IN
    /\ outcome = "running" /\ stack # <<>> /\ Top.after = "auth" /\ ~Top.failing
    /\ IF NonceOk(entries[i])
       THEN /\ stack' = Authorized(Caller)
            /\ am' = [popped EXCEPT !.acct[i].verified = TRUE]
            /\ store' = ConsumeNonce(entries[i], store)
            /\ grants' = Append(grants, [entry |-> i, frame |-> Last(Caller).id,
                                         path |-> IF Last(t.match) = RootMatch THEN Root ELSE LastPath(t),
                                         within |-> {Caller[n].id : n \in DOMAIN Caller}])
       ELSE /\ stack' = CallerFails
            /\ am' = popped
            /\ UNCHANGED <<store, grants>>
    /\ UNCHANGED <<entries, frames, auths, outcome>>

\* The frame of a contract fails: the map, the events and the manager go back to its
\* rollback point, if the manager can.  The failure of a call may be caught by try_call; the
\* failure of an authentication or of a constructor is an error of what the caller does.
FrameFails ==
    /\ outcome = "running" /\ stack # <<>> /\ Top.after # "create"
    /\ IF ~CanRollback(am, Top.am)
       THEN outcome' = "internal" /\ UNCHANGED <<am, stack, store, grants>>
       ELSE /\ store' = Top.store
            /\ grants' = Top.grants
            /\ am' = PopAuthFrame(Rollback(am, Top.am, Borrowed), Borrowed)
            /\ \/ Top.after = "call" /\ stack' = Caller
               \/ Caller # <<>> /\ stack' = CallerFails
            /\ outcome' = IF Caller = <<>> THEN "failed" ELSE outcome
    /\ UNCHANGED <<entries, frames, auths>>

\* A creation fails (the authorization, an instance that exists, no code, the constructor
\* or what it returns): its frame is popped, and what it did stays until the contract that
\* asked for it is rolled back, or the host function.
CreationFails ==
    LET popped == PopAuthFrame(am, Borrowed) IN
    /\ outcome = "running" /\ stack # <<>> /\ Top.after = "create"
    /\ CASE Caller # <<>> ->
              am' = popped /\ stack' = CallerFails /\ UNCHANGED <<store, grants, outcome>>
         [] Caller = <<>> /\ ~CanRollback(popped, Top.am) ->
              outcome' = "internal" /\ UNCHANGED <<am, stack, store, grants>>
         [] OTHER ->
              /\ store' = Top.store /\ grants' = Top.grants
              /\ am' = Rollback(popped, Top.am, Borrowed)
              /\ stack' = Caller /\ outcome' = "failed"
    /\ UNCHANGED <<entries, frames, auths>>

TxDone == outcome # "running" /\ UNCHANGED txvars

TxNext ==
    \/ \E c \in Contracts \cup {NewContract} : CallContract(c)
    \/ \E a \in Addresses : RequireAuthInvoker(a)
    \/ \E a \in Addresses : RequireAuthEntry(a)
    \/ \E a \in Addresses : RequireAuthCustom(a)
    \/ \E a \in Addresses : RequireAuthFails(a)
    \/ \E ts \in InvokerAuths : AuthorizeAsCurrContract(ts)
    \/ CreateContract
    \/ Instantiate
    \/ Return
    \/ ReturnCheckAuth
    \/ FrameFails
    \/ CreationFails
    \/ TxDone

TxSpec == TxInit /\ [][TxNext]_txvars

-----------------------------------------------------------------------------
(* Properties                                                              *)

Doomed == stack # <<>> /\ Top.failing

\* Every node of an authorization entry authorizes at most one invocation of the
\* transaction that is not rolled back, and exactly those nodes are exhausted: a caught
\* failure gives back what it used and nothing else.  A sub-invocation is authorized
\* only below the invocation its parent authorized, while that one is under way.
AuthorizedOnce ==
    /\ \A m, n \in DOMAIN grants :
           m # n => <<grants[m].entry, grants[m].path>> # <<grants[n].entry, grants[n].path>>
    /\ outcome = "running" /\ ~Doomed =>
           \A i \in DOMAIN am.acct \ Borrowed :
               am.acct[i].used = {grants[n].path : n \in {n \in DOMAIN grants : grants[n].entry = i}}
    /\ \A n \in DOMAIN grants :
           grants[n].path # Root =>
               \E m \in DOMAIN grants :
                   /\ m < n
                   /\ grants[m].entry = grants[n].entry
                   /\ grants[m].path = Front(grants[n].path)
                   /\ grants[m].frame \in grants[n].within

\* Nonces and verification go together through every rollback: an entry with an address
\* credential is verified only while its nonce is in storage, no two verified entries
\* share a nonce, and a nonce is in storage only for a verified entry.  Behind the
\* verified entry of an account are different signers of enough weight.
NonceOncePerEntry ==
    /\ \A i \in DOMAIN entries :
           am.acct[i].verified /\ ~entries[i].source => NonceKey(entries[i]) \in store
    /\ \A i, j \in DOMAIN entries :
           i # j /\ am.acct[i].verified /\ am.acct[j].verified /\ ~entries[i].source /\ ~entries[j].source
               => NonceKey(entries[i]) # NonceKey(entries[j])
    /\ \A k \in store : k[1] = "nonce" =>
           \E i \in DOMAIN entries : NonceKey(entries[i]) = k /\ am.acct[i].verified
    /\ \A i \in DOMAIN entries :
           LET e == entries[i]
               keys == {e.sigs[n].key : n \in {n \in DOMAIN e.sigs : e.sigs[n].valid}} IN
           am.acct[i].verified /\ ~e.source /\ e.addr \in Accounts =>
               MapThenSumSet(LAMBDA k : SignerWeight(e.addr, k), keys) >= Thresholds[e.addr].med

\* A failed frame leaves the trackers exactly as they were before the frame: flags,
\* match stacks, root positions and call stack, although only the flags are in the
\* snapshot.  Of the trackers contracts added, those whose scope ends with the frame are
\* gone, with what was authorized for this one call, and the others are as they were.
AuthRollbackExact ==
    [][FrameFails /\ outcome' # "internal" =>
           /\ am'.acct = Top.am.acct
           /\ am'.call = Top.am.call
           /\ am'.inv = InScope(Top.am.inv)]_txvars
=============================================================================
