--------------------------- MODULE HostRecording ---------------------------
(***************************************************************************)
(* The recording mode of the authorization manager against its enforcing    *)
(* mode (soroban-env-host/src/auth.rs, e2e_invoke.rs).  A transaction is    *)
(* first simulated: contracts call, return, fail, catch failures and        *)
(* require authorization, and the manager records trees of invocations.     *)
(* The recorded entries are then signed and the same transaction is played  *)
(* again in enforcing mode.  A frame in which an authorization is refused   *)
(* traps; up to a frame whose failure was caught this changes nothing.      *)
(***************************************************************************)
EXTENDS HostAuth

CONSTANTS
    Callees,     \* contracts
    Holders,     \* addresses whose authorization is required
    Handles,     \* address objects: several may denote one address
    MaxTrace     \* bound: steps of the transaction

VARIABLES
    rec,       \* the manager that records
    open,      \* its frames: the manager to return to, and who was asked in the frame
    trace,     \* the steps so far
    rootOnly,  \* disable_non_root_auth
    enf,       \* the manager that enforces what was recorded
    back,      \* its frames
    at,        \* steps played again, or 0 while recording
    skip,      \* the depth of the frame that trapped, 0 when none has
    refused    \* an authorization was refused that no caught failure covers

rvars == <<rec, open, trace, rootOnly, enf, back, at, skip, refused>>
enforcing == <<enf, back, at, skip, refused>>

RecInit ==
    /\ rec = NewManager(<<>>)
    /\ open = <<>>
    /\ trace = <<>>
    /\ rootOnly \in BOOLEAN
    /\ enf = NewManager(<<>>)
    /\ back = <<>>
    /\ at = 0
    /\ skip = 0
    /\ refused = FALSE

Recording == at = 0 /\ Len(trace) < MaxTrace
Over == trace # <<>> /\ open = <<>>

RecCall(c) ==
    /\ Recording /\ ~Over
    /\ \A i \in DOMAIN open : open[i].c # c
    /\ rec' = PushAuthFrame(rec, <<"call", c>>, {})
    /\ open' = Append(open, [c |-> c, am |-> rec, asked |-> {}])
    /\ trace' = Append(trace, <<"call", c>>)
    /\ UNCHANGED <<rootOnly, enforcing>>

\* An address is required at most once in a frame: of a second time through another
\* object the code says itself that its guess at the trees is a best effort.
RecAuth(a, h) ==
    /\ Recording /\ open # <<>>
    /\ a \notin Last(open).asked
    /\ ~RecordingRefused(rec, a, <<a, h>>, rootOnly)
    /\ rec' = RequireRecording(rec, a, <<a, h>>)
    /\ open' = [open EXCEPT ![Len(open)].asked = @ \cup {a}]
    /\ trace' = Append(trace, <<"auth", a>>)
    /\ UNCHANGED <<rootOnly, enforcing>>

RecReturn ==
    /\ Recording /\ open # <<>>
    /\ rec' = PopAuthFrame(rec, {})
    /\ open' = Front(open)
    /\ trace' = Append(trace, <<"return">>)
    /\ UNCHANGED <<rootOnly, enforcing>>

\* A failure that the caller catches: in recording mode the trackers and the handles
\* are put back as a whole, then the frame is popped.
RecCatch ==
    /\ Recording /\ Len(open) > 1
    /\ LET old == Last(open).am
       IN  rec' = PopAuthFrame([rec EXCEPT !.acct = [i \in DOMAIN old.acct |-> PushTracker(old.acct[i])],
                                           !.handles = old.handles], {})
    /\ open' = Front(open)
    /\ trace' = Append(trace, <<"catch">>)
    /\ UNCHANGED <<rootOnly, enforcing>>

\* The recorded entries are signed and submitted.
Submit ==
    /\ at = 0 /\ Over
    /\ enf' = NewManager(RecordedEntries(rec))
    /\ at' = 1
    /\ UNCHANGED <<rec, open, trace, rootOnly, back, skip, refused>>

-----------------------------------------------------------------------------
(* The enforcing run                                                       *)

Step == trace[at]
Playing == at \in DOMAIN trace
DepthAfter(n) ==
    Cardinality({i \in 1..n : trace[i][1] = "call"}) - Cardinality({i \in 1..n : trace[i][1] \in {"return", "catch"}})
\* Depths of the frames around the current step that end in a caught failure.
CaughtAround ==
    {d \in 1..DepthAfter(at) :
        \E m \in at..Len(trace) : /\ trace[m][1] = "catch" /\ DepthAfter(m) = d - 1
                                  /\ \A k \in at..(m - 1) : DepthAfter(k) >= d}

PlayCall ==
    /\ Playing /\ skip = 0 /\ Step[1] = "call"
    /\ enf' = PushAuthFrame(enf, Step, {})
    /\ back' = Append(back, enf)
    /\ at' = at + 1
    /\ UNCHANGED <<rec, open, trace, rootOnly, skip, refused>>

PlayAuth ==
    LET found == AccountTrackers(enf, Step[2], {})
        i == First(found)
    IN
    /\ Playing /\ skip = 0 /\ Step[1] = "auth"
    /\ IF found # {}
       THEN /\ enf' = [enf EXCEPT !.acct[i] = [Extended(enf, Step[2], {}, i) EXCEPT !.verified = TRUE]]
            /\ UNCHANGED <<skip, refused>>
       ELSE /\ skip' = IF CaughtAround = {} THEN 0
                       ELSE CHOOSE d \in CaughtAround : \A e \in CaughtAround : e <= d
            /\ refused' = (refused \/ CaughtAround = {})
            /\ UNCHANGED enf
    /\ at' = at + 1
    /\ UNCHANGED <<rec, open, trace, rootOnly, back>>

PlayReturn ==
    /\ Playing /\ skip = 0 /\ Step[1] = "return"
    /\ enf' = PopAuthFrame(enf, {})
    /\ back' = Front(back)
    /\ at' = at + 1
    /\ UNCHANGED <<rec, open, trace, rootOnly, skip, refused>>

\* A caught failure; after a trap all frames above the one that is caught have failed
\* one by one before.
UnwindTo(d) ==
    LET rolled == Rollback(enf, back[d], {})
    IN  [rolled EXCEPT !.call = SubSeq(@, 1, d - 1),
             !.acct = [i \in DOMAIN @ |-> [@[i] EXCEPT !.match = SubSeq(@, 1, d - 1)]]]
PlayCatch ==
    LET d == IF skip = 0 THEN Len(back) ELSE skip IN
    /\ Playing /\ Step[1] = "catch" /\ DepthAfter(at) = d - 1
    /\ enf' = UnwindTo(d)
    /\ back' = SubSeq(back, 1, d - 1)
    /\ skip' = 0
    /\ at' = at + 1
    /\ UNCHANGED <<rec, open, trace, rootOnly, refused>>

PlaySkipped ==
    /\ Playing /\ skip # 0 /\ DepthAfter(at) # skip - 1
    /\ at' = at + 1
    /\ UNCHANGED <<rec, open, trace, rootOnly, enf, back, skip, refused>>

RecNext ==
    \/ \E c \in Callees : RecCall(c)
    \/ \E a \in Holders, h \in Handles : RecAuth(a, h)
    \/ RecReturn
    \/ RecCatch
    \/ Submit
    \/ PlayCall
    \/ PlayAuth
    \/ PlayReturn
    \/ PlayCatch
    \/ PlaySkipped

RecSpec == RecInit /\ [][RecNext]_rvars

-----------------------------------------------------------------------------
(* Properties                                                              *)

\* The recorded payloads "would cover the top-level contract function invocation in
\* the enforcing mode": whatever failed and was caught on the way, in whichever order
\* addresses were asked and through whichever objects, no required authorization is
\* refused when the transaction is played again.  And nothing is recorded beyond that:
\* in the end every entry is verified and every node of every tree is exhausted, so
\* what a frame that failed had recorded is gone and the trees of a caller are whole.
RecordedCovers ==
    /\ ~refused
    /\ at > Len(trace) => \A i \in DOMAIN enf.acct :
           enf.acct[i].verified /\ enf.acct[i].used = DOMAIN enf.acct[i].tree
=============================================================================
