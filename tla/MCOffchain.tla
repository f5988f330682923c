----------------------------- MODULE MCOffchain -----------------------------
(***************************************************************************)
(* One run for the parts off the chain that share no state: `part` says     *)
(* which of them moves in a behaviour, the others stay in one of their      *)
(* initial states.                                                          *)
(***************************************************************************)
EXTENDS BackendQueues, BackendHooks, RateLimiter, EventFeed, QueuePages

VARIABLE part
Parts == {"queues", "hooks", "limiter", "feed", "pages"}

(* A seeded queue and one to create; events of a known and of a foreign     *)
(* contract; three queues on pages of one.                                  *)
MCFixtures == [s \in {"s1"} |-> [status |-> "EnrollmentOpen", enrolled |-> 3, advanced |-> 0]]
MCKinds == {<<"lineproof.queue", "Advanced">>, <<"other", "Log">>}
MCPSlugs == <<"s1", "s2", "s3">>

MCInit ==
    /\ part \in Parts
    /\ QueuesInit /\ HooksInit /\ LimiterInit /\ FeedInit /\ PagesInit
    /\ part # "pages" => sel = "all"
MCNext ==
    /\ UNCHANGED part
    /\ \/ part = "queues" /\ QueuesNext /\ UNCHANGED <<hvars, lvars, evars, pvars>>
       \/ part = "hooks" /\ HooksNext /\ UNCHANGED <<qvars, lvars, evars, pvars>>
       \/ part = "limiter" /\ LimiterNext /\ UNCHANGED <<qvars, hvars, evars, pvars>>
       \/ part = "feed" /\ FeedNext /\ UNCHANGED <<qvars, hvars, lvars, pvars>>
       \/ part = "pages" /\ PagesNext /\ UNCHANGED <<qvars, hvars, lvars, evars>>

\* The fairness of each component, for the behaviours in which it moves.
MCSpec ==
    /\ MCInit /\ [][MCNext]_<<part, qvars, hvars, lvars, evars, pvars>>
    /\ \A d \in 1..MaxDeliveries :
          WF_hvars(part = "hooks" /\ (SendOk(d) \/ SendFailed(d))) /\ WF_hvars(part = "hooks" /\ PauseOver(d))
    /\ WF_evars(part = "feed" /\ StreamPoll) /\ WF_evars(part = "feed" /\ (StreamAnswer \/ StreamError))
    /\ WF_pvars(part = "pages" /\ (FirstPage \/ FirstPageFails))
    /\ WF_pvars(part = "pages" /\ (NextPage \/ NextPageFails))

\* Nothing that is waited for off the chain is waited for without end: a delivery
\* succeeds, is given up or dies with the process; a poll of a stream ends in a new
\* timer, or for good once it was unsubscribed; neither spinner of the queue list stays,
\* whatever the filter, the cursor and the answers do.  The parts that do not move are
\* exempt.
EveryRequestEnds ==
    /\ EveryDeliveryEnds
    /\ StreamLives
    /\ ((part = "pages" /\ loading) ~> ~loading) /\ (loadingNext ~> ~loadingNext)
=============================================================================
