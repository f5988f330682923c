----------------------------- MODULE MCRegistry -----------------------------
(***************************************************************************)
(* One run for three contracts that share no state: `part` says which of    *)
(* them is called in a behaviour, the others stay as they were installed.   *)
(***************************************************************************)
EXTENDS Escrow, Identity, Factory

VARIABLE part

\* Two identities in one queue and one of them in a second, hold periods of one and two
\* days, which set_config may swap at any time (0 is refused), and a clock of two days; two
\* identities and three queues of which one may hold two; two callers, two slugs, two
\* hashes, one foreign contract and two versions.
CONSTANTS q1, q2, q3, x, y
MCKeys == {<<q1, x>>, <<q1, y>>, <<q2, x>>}
MCAmounts == 0..4
MCBounds == {<<2, 3>>, <<3, 2>>}
MCHoldPeriods == {0, 1, 2}
MCAttempts == {<<x, y, q1>>}
MCVersions == {1, 2}

MCInit ==
    /\ part \in {"escrow", "identity", "factory"}
    /\ EscrowInit /\ IdentityInit /\ Init

CalledEscrow == part = "escrow" /\ EscrowNext /\ UNCHANGED <<part, idvars, vars>>
CalledIdentity == part = "identity" /\ IdentityNext /\ UNCHANGED <<part, escvars, vars>>
CalledFactory == part = "factory" /\ Next /\ UNCHANGED <<part, escvars, idvars>>
MCNext == CalledEscrow \/ CalledIdentity \/ CalledFactory

\* The fairness of EscrowFairSpec, for the behaviours in which the escrow moves.
MCSpec ==
    /\ MCInit /\ [][MCNext]_<<part, escvars, idvars, vars>>
    /\ WF_escvars(part = "escrow" /\ EscrowTick)
    /\ \A k \in Keys : WF_escvars(part = "escrow" /\ Expire(k))
=============================================================================
