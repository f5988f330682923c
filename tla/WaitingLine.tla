----------------------------- MODULE WaitingLine -----------------------------
(***************************************************************************)
(* What a LineProof queue promises its participants: tickets are handed out *)
(* in order while the line is open and has room; afterwards the people      *)
(* still waiting are served strictly in ticket order; anybody may leave     *)
(* (which frees the place), and the operator may let waiting tickets lapse  *)
(* (which does not).  It knows nothing of cursors, counters or scans.       *)
(***************************************************************************)
EXTENDS Integers, FiniteSets

VARIABLES
    phase,      \* "setup", "joining", "serving" or "over"
    capacity,   \* places in the line
    issued,     \* number of tickets handed out: tickets are 1..issued
    waiting,    \* tickets still waiting
    served,     \* tickets served
    lapsed      \* tickets the operator let lapse

lineVars == <<phase, capacity, issued, waiting, served, lapsed>>

Phases == {"setup", "joining", "serving", "over"}

LineInit ==
    /\ phase = "setup"
    /\ capacity = 0
    /\ issued = 0
    /\ waiting = {}
    /\ served = {}
    /\ lapsed = {}

\* Before the first ticket the operator chooses the capacity and may open the line.
Prepare ==
    /\ phase = "setup"
    /\ capacity' \in Nat
    /\ phase' \in Phases
    /\ UNCHANGED <<issued, waiting, served, lapsed>>

Join ==
    /\ phase = "joining"
    /\ Cardinality(waiting \cup served \cup lapsed) < capacity
    /\ issued' = issued + 1
    /\ waiting' = waiting \cup {issued + 1}
    /\ UNCHANGED <<phase, capacity, served, lapsed>>

StopJoining ==
    /\ phase = "joining"
    /\ phase' = "serving"
    /\ UNCHANGED <<capacity, issued, waiting, served, lapsed>>

Leave(t) ==
    /\ t \in waiting
    /\ waiting' = waiting \ {t}
    /\ UNCHANGED <<phase, capacity, issued, served, lapsed>>

\* Nobody who goes on waiting holds an earlier ticket than somebody served now.
Serve(S) ==
    /\ phase = "serving"
    /\ S \subseteq waiting
    /\ \A s \in S, w \in waiting \ S : s < w
    /\ waiting' = waiting \ S
    /\ served' = served \cup S
    /\ UNCHANGED <<phase, capacity, issued, lapsed>>

Lapse(S) ==
    /\ phase \in {"serving", "over"}
    /\ S \subseteq waiting
    /\ waiting' = waiting \ S
    /\ lapsed' = lapsed \cup S
    /\ UNCHANGED <<phase, capacity, issued, served>>

Finish ==
    /\ phase' = "over"
    /\ UNCHANGED <<capacity, issued, waiting, served, lapsed>>

LineNext ==
    \/ Prepare
    \/ Join
    \/ StopJoining
    \/ \E t \in waiting : Leave(t)
    \/ \E S \in SUBSET waiting : Serve(S)
    \/ \E S \in SUBSET waiting : Lapse(S)
    \/ Finish

LineSpec == LineInit /\ [][LineNext]_lineVars
=============================================================================
