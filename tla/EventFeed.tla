----------------------------- MODULE EventFeed -----------------------------
(***************************************************************************)
(* The readers of the contracts' events: getEvents and streamEvents of the  *)
(* SDK (sdk/src/client.ts, events.ts, pagination.ts) and the indexer of the *)
(* backend (backend/src/services/eventIndexer.ts).  The ledger appends      *)
(* events; the RPC server answers with a prefix of those from a ledger on.  *)
(* fetchRawEvents of the indexer is a seam the repository leaves to         *)
(* subclasses: it is modelled as its comment describes it, the same RPC     *)
(* query from the cursor's ledger.                                          *)
(***************************************************************************)
EXTENDS Integers, Sequences, FiniteSets, Vec

CONSTANTS
    Kinds,         \* the pairs (namespace, kind) events are drawn from
    PageLimit,     \* filter.limit of the stream
    MaxEvents,     \* bound: events on the ledger
    MaxLedger,     \* bound: closed ledgers
    MaxDelivered,  \* bound: polls that deliver a page
    Pollers        \* timer ticks of the indexer that may be under way

VARIABLES
    ledger,     \* the current ledger
    chainEvents,\* external: the events, in order, each with its ledger
    stream,     \* streamEvents: pc of poll(), whether stopped, the answer it waits for
    delivered,  \* the events handed to the callback, oldest first
    store,      \* indexer, namespace events: the keys stored
    cursor,     \* indexer: lastLedger
    running,    \* indexer: the guard of poll()
    poller      \* indexer: where each tick's poll() is

evars == <<ledger, chainEvents, stream, delivered, store, cursor, running, poller>>

Namespaces == {"lineproof.queue", "lineproof.enrollment", "lineproof.escrow",
               "lineproof.identity", "lineproof.factory"}

\* attachTypedFields(): the pairs the SDK knows; an event of another pair is dropped.
TypedKinds ==
    ({"lineproof.queue"} \X {"Initialized", "EnrollmentOpened", "EnrollmentClosed", "Advanced",
                             "QueueClosed", "OwnershipTransferred"})
    \cup ({"lineproof.enrollment"} \X {"Enrolled", "Cancelled", "Finalized"})
    \cup ({"lineproof.escrow"} \X {"Deposited", "Released", "Refunded", "Expired"})
    \cup ({"lineproof.identity"} \X {"Bound", "Unbound", "TransferReverted"})
    \cup ({"lineproof.factory"} \X {"Deployed", "Registered"})

\* deserializeContractEvent(): a known namespace, then a known pair.
Deserialized(e) == e.kind[1] \in Namespaces /\ e.kind \in TypedKinds

Idle == [pc |-> "idle", from |-> 0, todo |-> <<>>, max |-> 0]

FeedInit ==
    /\ ledger = 1
    /\ chainEvents = <<>>
    /\ stream = [pc |-> "timer", stopped |-> FALSE]
    /\ delivered = <<>>
    /\ store = {}
    /\ cursor = 0
    /\ running = FALSE
    /\ poller = [p \in Pollers |-> Idle]

\* External: a contract emits, and a ledger closes.
Emit(kind) ==
    /\ Len(chainEvents) < MaxEvents
    /\ chainEvents' = Append(chainEvents, [ledger |-> ledger, kind |-> kind, n |-> Len(chainEvents) + 1])
    /\ UNCHANGED <<ledger, stream, delivered, store, cursor, running, poller>>

CloseLedger ==
    /\ ledger < MaxLedger
    /\ ledger' = ledger + 1
    /\ UNCHANGED <<chainEvents, stream, delivered, store, cursor, running, poller>>

Events == {chainEvents[i] : i \in 1..Len(chainEvents)}
From(start) == Kept(chainEvents, {e \in Events : e.ledger >= start})

-----------------------------------------------------------------------------
(* getEvents and streamEvents                                              *)

\* paginate(): a next cursor only when it was handed more items than the limit.
Paginate(items, limit) ==
    [items |-> SubSeq(items, 1, IF Len(items) < limit THEN Len(items) ELSE limit),
     nextCursor |-> IF Len(items) > limit THEN items[limit].ledger ELSE 0]

\* getEvents(): the server applies the limit first, so paginate() never sees more.
GetEvents(start, limit) ==
    LET raw == From(start)
    IN  Paginate(SelectSeq(SubSeq(raw, 1, IF Len(raw) < limit THEN Len(raw) ELSE limit), Deserialized),
                 limit)

\* poll(): the timer fires; a stopped stream returns at once.
StreamPoll ==
    /\ stream.pc = "timer"
    /\ stream' = [stream EXCEPT !.pc = IF stream.stopped THEN "ended" ELSE "asking"]
    /\ UNCHANGED <<ledger, chainEvents, delivered, store, cursor, running, poller>>

\* The answer: every item goes to the callback, also when the stream was stopped
\* meanwhile, and the timer is set again unless it was.
StreamAnswer ==
    LET page == GetEvents(0, PageLimit) IN
    /\ stream.pc = "asking"
    /\ Len(delivered) + Len(page.items) <= MaxDelivered
    /\ delivered' = delivered \o page.items
    /\ stream' = [stream EXCEPT !.pc = IF stream.stopped THEN "ended" ELSE "timer"]
    /\ UNCHANGED <<ledger, chainEvents, store, cursor, running, poller>>

\* A failed poll is swallowed.
StreamError ==
    /\ stream.pc = "asking"
    /\ stream' = [stream EXCEPT !.pc = IF stream.stopped THEN "ended" ELSE "timer"]
    /\ UNCHANGED <<ledger, chainEvents, delivered, store, cursor, running, poller>>

\* The function streamEvents returns: a pending timer is cleared.
Unsubscribe ==
    /\ ~stream.stopped
    /\ stream' = [pc |-> IF stream.pc = "timer" THEN "ended" ELSE stream.pc, stopped |-> TRUE]
    /\ UNCHANGED <<ledger, chainEvents, delivered, store, cursor, running, poller>>

-----------------------------------------------------------------------------
(* The indexer                                                             *)

\* persist(): the key leaves out what tells two events of a kind in a ledger apart.
KeyOf(e) == <<e.ledger, e.kind>>

\* poll() begins: skipped while another one runs; the cursor is read.
PollBegin(p) ==
    /\ poller[p].pc = "idle"
    /\ ~running
    /\ running' = TRUE
    /\ poller' = [poller EXCEPT ![p] = [Idle EXCEPT !.pc = "fetch", !.from = cursor, !.max = cursor]]
    /\ UNCHANGED <<ledger, chainEvents, stream, delivered, store, cursor>>

\* deserialize() of the indexer drops what does not belong to the five namespaces.
Indexable(e) == e.kind[1] \in Namespaces

\* The server's answer is a prefix of what there is.
PollFetched(p, n) ==
    /\ poller[p].pc = "fetch"
    /\ n <= Len(From(poller[p].from))
    /\ poller' = [poller EXCEPT ![p].pc = "persist",
                     ![p].todo = Kept(SubSeq(From(poller[p].from), 1, n),
                                      {e \in Events : Indexable(e)})]
    /\ UNCHANGED <<ledger, chainEvents, stream, delivered, store, cursor, running>>

\* One event is stored; the highest ledger is remembered.
PersistOne(p) ==
    /\ poller[p].pc = "persist" /\ poller[p].todo # <<>>
    /\ store' = store \cup {KeyOf(Head(poller[p].todo))}
    /\ poller' = [poller EXCEPT ![p].todo = Tail(@),
                     ![p].max = IF Head(poller[p].todo).ledger > @ THEN Head(poller[p].todo).ledger ELSE @]
    /\ UNCHANGED <<ledger, chainEvents, stream, delivered, cursor, running>>

\* The loop is over: the cursor moves if a later ledger was seen, the guard is freed.
PollEndMutant(p) ==
    /\ poller[p].pc = "persist"
    /\ cursor' = IF poller[p].todo # <<>> THEN Head(poller[p].todo).ledger + 1 ELSE cursor
    /\ running' = FALSE
    /\ poller' = [poller EXCEPT ![p] = Idle]
    /\ UNCHANGED <<ledger, chainEvents, stream, delivered, store>>
PollEnd(p) ==
    /\ poller[p].pc = "persist" /\ poller[p].todo = <<>>
    /\ cursor' = IF poller[p].max > poller[p].from THEN poller[p].max ELSE cursor
    /\ running' = FALSE
    /\ poller' = [poller EXCEPT ![p] = Idle]
    /\ UNCHANGED <<ledger, chainEvents, stream, delivered, store>>

\* The query or the storage fails: poll() rejects, `finally` frees the guard and the
\* cursor stays.
PollFails(p) ==
    /\ poller[p].pc \in {"fetch", "persist"}
    /\ running' = FALSE
    /\ poller' = [poller EXCEPT ![p] = Idle]
    /\ UNCHANGED <<ledger, chainEvents, stream, delivered, store, cursor>>

FeedNext ==
    \/ \E k \in Kinds : Emit(k)
    \/ CloseLedger
    \/ StreamPoll
    \/ StreamAnswer
    \/ StreamError
    \/ Unsubscribe
    \/ \E p \in Pollers : PollBegin(p)
    \/ \E p \in Pollers, n \in 0..MaxEvents : PollFetched(p, n)
    \/ \E p \in Pollers : PersistOne(p)
    \/ \E p \in Pollers : PollEnd(p)
    \/ \E p \in Pollers : PollFails(p)

\* Timers fire and requests are answered.
FeedFairness == WF_evars(StreamPoll) /\ WF_evars(StreamAnswer \/ StreamError)

FeedSpec == FeedInit /\ [][FeedNext]_evars /\ FeedFairness

-----------------------------------------------------------------------------
(* Properties                                                              *)

\* Everything before the cursor has been stored, whatever was answered in part and
\* wherever a poll failed: a restart of the loop from the cursor misses no key.
NothingMissedBeforeCursor ==
    \A i \in 1..Len(chainEvents) :
        Indexable(chainEvents[i]) /\ chainEvents[i].ledger < cursor => KeyOf(chainEvents[i]) \in store

\* A stream lives until it is unsubscribed, whatever its polls meet, and every poll
\* ends: in a new timer, or for good once unsubscribe() was called during its await.
StreamLives ==
    stream.pc = "asking" ~> (stream.pc = "timer" \/ (stream.stopped /\ stream.pc = "ended"))
=============================================================================
