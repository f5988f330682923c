---------------------------- MODULE BackendHooks ----------------------------
(***************************************************************************)
(* The escrow service of the backend, its metrics and the webhook           *)
(* dispatcher (backend/src/services/escrowService.ts, webhookService.ts,    *)
(* webhookDispatcher.ts, metrics/registry.ts, routes/escrow.ts).  A service *)
(* stores its record and then emits; the dispatcher's listener runs inside  *)
(* the emit.  It serialises the event with JSON.stringify, which throws on  *)
(* the BigInt amount of an escrow record: the request then answers 500 with *)
(* the record stored and the code after the emit, the metrics, skipped.     *)
(***************************************************************************)
EXTENDS Integers, Sequences, FiniteSets

CONSTANTS
    EscrowIds,      \* the ids queueId:identity
    Hooks,          \* webhooks that may be registered, each for all events ("*")
    HoldTicks,      \* holdDays of a deposit, in ticks of the clock
    MaxClock,       \* bound: the last tick
    MaxDeliveries,  \* bound: deliveries started since the last restart
    MaxAttempts     \* attempts of sendWithRetry (4 in the code)

VARIABLES
    escrow,      \* namespace escrow: per id, NoEscrow when absent
    clock,
    gauge,       \* escrow_active_gauge
    hooks,       \* namespace webhooks
    deliveries   \* the calls of sendWithRetry since the last restart

hvars == <<escrow, clock, gauge, hooks, deliveries>>

NoEscrow == [status |-> "None", expiresAt |-> 0]
Open(d) == deliveries[d].pc \in {"sending", "waiting"}

HooksInit ==
    /\ escrow = [e \in EscrowIds |-> NoEscrow]
    /\ clock = 0
    /\ gauge = 0
    /\ hooks = {}
    /\ deliveries = <<>>

\* Storage, metrics and the deliveries under way are in the process.
RestartHooks ==
    /\ escrow' = [e \in EscrowIds |-> NoEscrow]
    /\ gauge' = 0
    /\ hooks' = {}
    /\ deliveries' = <<>>
    /\ UNCHANGED clock

WallClock == clock < MaxClock /\ clock' = clock + 1
             /\ UNCHANGED <<escrow, gauge, hooks, deliveries>>

RegisterWebhook(w) ==
    /\ hooks' = hooks \cup {w}
    /\ UNCHANGED <<escrow, clock, gauge, deliveries>>

DeleteWebhook(w) ==
    /\ w \in hooks
    /\ hooks' = hooks \ {w}
    /\ UNCHANGED <<escrow, clock, gauge, deliveries>>

\* The listener on an escrow event: it throws before any delivery starts.  `change` is
\* what the route adds to the gauge when the emit returns.
EmitEscrow(change) == gauge' = IF hooks = {} THEN gauge + change ELSE gauge

\* The listener on any other event: one delivery per webhook.
NewDelivery == [attempt |-> 1, pc |-> "sending"]
EmitOther ==
    /\ hooks # {}
    /\ Len(deliveries) + Cardinality(hooks) <= MaxDeliveries
    /\ deliveries' = deliveries \o [n \in 1..Cardinality(hooks) |-> NewDelivery]
    /\ UNCHANGED <<escrow, clock, gauge, hooks>>

\* POST /escrow/deposit: one record per id, ever.
DepositRoute(e) ==
    /\ escrow[e] = NoEscrow
    /\ escrow' = [escrow EXCEPT ![e] = [status |-> "Active", expiresAt |-> clock + HoldTicks]]
    /\ EmitEscrow(1)
    /\ UNCHANGED <<clock, hooks, deliveries>>

\* transition() and the route that called it.
CloseEscrow(e, next) ==
    /\ escrow[e].status = "Active"
    /\ escrow' = [escrow EXCEPT ![e].status = next]
    /\ EmitEscrow(-1)
    /\ UNCHANGED <<clock, hooks, deliveries>>

ReleaseRoute(e) == CloseEscrow(e, "Released")
RefundRoute(e) == CloseEscrow(e, "Refunded")
ExpireRoute(e) == clock >= escrow[e].expiresAt /\ CloseEscrow(e, "Expired")

\* sendWithRetry(): an answer of the 2xx range ends it, anything else is tried again
\* after a pause until the attempts are used up.
SendOk(d) ==
    /\ d \in 1..Len(deliveries) /\ deliveries[d].pc = "sending"
    /\ deliveries' = [deliveries EXCEPT ![d].pc = "delivered"]
    /\ UNCHANGED <<escrow, clock, gauge, hooks>>

SendFailedMutant(d) ==
    /\ d \in 1..Len(deliveries) /\ deliveries[d].pc = "sending"
    /\ deliveries' = [deliveries EXCEPT ![d].pc = "waiting"]
    /\ UNCHANGED <<escrow, clock, gauge, hooks>>
SendFailed(d) ==
    /\ d \in 1..Len(deliveries) /\ deliveries[d].pc = "sending"
    /\ deliveries' = [deliveries EXCEPT ![d].pc = IF deliveries[d].attempt >= MaxAttempts
                                                  THEN "given up" ELSE "waiting"]
    /\ UNCHANGED <<escrow, clock, gauge, hooks>>

PauseOver(d) ==
    /\ d \in 1..Len(deliveries) /\ deliveries[d].pc = "waiting"
    /\ deliveries' = [deliveries EXCEPT ![d].pc = "sending",
                                        ![d].attempt = IF @ < MaxAttempts THEN @ + 1 ELSE @]
    /\ UNCHANGED <<escrow, clock, gauge, hooks>>

HooksNext ==
    \/ RestartHooks
    \/ WallClock
    \/ \E w \in Hooks : RegisterWebhook(w)
    \/ \E w \in Hooks : DeleteWebhook(w)
    \/ EmitOther
    \/ \E e \in EscrowIds : DepositRoute(e)
    \/ \E e \in EscrowIds : ReleaseRoute(e)
    \/ \E e \in EscrowIds : RefundRoute(e)
    \/ \E e \in EscrowIds : ExpireRoute(e)
    \/ \E d \in 1..MaxDeliveries : SendOk(d)
    \/ \E d \in 1..MaxDeliveries : SendFailed(d)
    \/ \E d \in 1..MaxDeliveries : PauseOver(d)

\* fetch() settles one way or the other (the runtime bounds it), and timers fire.
HooksFairness ==
    \A d \in 1..MaxDeliveries :
        WF_hvars(SendOk(d) \/ SendFailed(d)) /\ WF_hvars(PauseOver(d))

HooksSpec == HooksInit /\ [][HooksNext]_hvars /\ HooksFairness

-----------------------------------------------------------------------------
(* Properties                                                              *)

ActiveEscrows == {e \in EscrowIds : escrow[e].status = "Active"}

\* escrow_active_gauge is the "Number of escrow records currently in the Active state."
GaugeIsActive == gauge = Cardinality(ActiveEscrows)

\* A delivery does not retry for ever: it succeeds, is given up, or dies with the
\* process.
EveryDeliveryEnds ==
    \A d \in 1..MaxDeliveries :
        (d <= Len(deliveries) /\ Open(d)) ~> ~(d <= Len(deliveries) /\ Open(d))
=============================================================================
