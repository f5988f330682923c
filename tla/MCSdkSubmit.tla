---------------------------- MODULE MCSdkSubmit ----------------------------
(***************************************************************************)
(* Submissions with one retry each and an empty, fresh or stale cache: a    *)
(* "pair" that runs concurrently, where the application may refresh the     *)
(* sequence number before anything else happened, or a "sole" one, during   *)
(* which it may refresh it at any time.                                     *)
(***************************************************************************)
EXTENDS SdkSubmit

VARIABLE scenario

CONSTANTS a, b
MCFirstCached == {0, 2}

Refreshed == RefreshAccountSequence \/ \E o \in Ops : RefreshDuringStart(o)

MCInit == scenario \in {"pair", "sole"} /\ Init
MCNext ==
    /\ Next
    /\ scenario = "sole" => UNCHANGED <<att[b], call[b]>>
    /\ scenario = "pair" /\ Refreshed => cache = NoSeq /\ fetches = <<>>
    /\ UNCHANGED scenario
MCSpec == MCInit /\ [][MCNext]_<<scenario, vars>> /\ Fairness

\* Result codes decide before statuses, statuses before messages; the wait stays
\* between its floor and its cap.
Errors == [instance : BOOLEAN, tx : {"none", "sequence", "invalid", "insufficient"},
           op : {"none", "invalid"}, http : {"none", "terminal", "retryable"},
           net : BOOLEAN, msg : {{}, {"tx_bad_seq"}, {"insufficient"}, {"insufficient", "fee"},
                                 {"timed out", "malformed"}, {"tx_bad_auth"}}]
ASSUME ClassifyPrecedence ==
    \A e \in Errors :
        /\ ClassifyError(e) = "RETRYABLE_SEQUENCE" <=>
               /\ e.instance
               /\ \/ e.tx = "sequence"
                  \/ e.tx = "none" /\ e.op = "none" /\ e.http = "none" /\ ~e.net
                     /\ "tx_bad_seq" \in e.msg
        /\ e.tx = "none" /\ e.http = "terminal" /\ e.instance => ClassifyError(e) = "TERMINAL_INVALID"
ASSUME BackoffBounded ==
    \A n \in 0..6, j \in {0, 50, 100}, r \in 0..99 :
        LET d == CalculateBackoff(n, 500, 8000, j, r) IN
        /\ d <= 8000
        /\ 100 * d + 100 >= (IF 500 * 2 ^ n < 8000 THEN 500 * 2 ^ n ELSE 8000) * (100 - j)
=============================================================================
