--------------------------- MODULE BackendQueues ---------------------------
(***************************************************************************)
(* The queue and enrolment services of the backend and their routes         *)
(* (backend/src/services/queueService.ts, enrollmentService.ts, routes/,    *)
(* schemas/queueStatus.ts) over the in-process storage, which a restart     *)
(* empties and the fixtures refill.  Handlers are synchronous, so each is   *)
(* one action.  The enrolment service asks the queue service nothing: an    *)
(* identity can enrol in a queue of any status, and the figure `enrolled`   *)
(* of a queue is the one it was stored with.                                *)
(***************************************************************************)
EXTENDS Integers, Sequences, FiniteSets

CONSTANTS
    Slugs,        \* queue ids
    Fixtures,     \* the seeded queues: a function from some slugs to queues
    BIdentities,
    Batches,      \* batch sizes of an advance request
    MaxRecords    \* bound: enrolment records of one identity

VARIABLES
    queue,     \* namespace queues: per slug, NoQueue when absent
    records,   \* enrollments:byIdentity: per identity, its records, oldest first
    index      \* enrollments:queueIndex: per queue, the identities in its set

qvars == <<queue, records, index>>

Statuses == {"Draft", "EnrollmentOpen", "EnrollmentClosed", "AdvancementActive", "Closed"}
NoQueue == [status |-> "None", enrolled |-> 0, advanced |-> 0]

\* The seeded queues have advanced no more positions than were enrolled.
ASSUME QueuesAssumption ==
    /\ \A s \in Slugs \cap DOMAIN Fixtures :
          /\ Fixtures[s] \in [status : Statuses, enrolled : Nat, advanced : Nat]
          /\ Fixtures[s].advanced <= Fixtures[s].enrolled
    /\ Batches \subseteq Int

\* The seed: only the fixtures are there, also after a restart.
QueuesInit ==
    /\ queue = [s \in Slugs |-> IF s \in DOMAIN Fixtures THEN Fixtures[s] ELSE NoQueue]
    /\ records = [i \in BIdentities |-> <<>>]
    /\ index = [s \in Slugs |-> {}]

RestartQueues ==
    /\ queue' = [s \in Slugs |-> IF s \in DOMAIN Fixtures THEN Fixtures[s] ELSE NoQueue]
    /\ records' = [i \in BIdentities |-> <<>>]
    /\ index' = [s \in Slugs |-> {}]

\* transitionQueueStatus(): to stay is always allowed.
MayBecome(current, next) ==
    \/ current = next
    \/ <<current, next>> \in {<<"Draft", "EnrollmentOpen">>, <<"EnrollmentOpen", "EnrollmentClosed">>,
                              <<"EnrollmentClosed", "AdvancementActive">>}
    \/ next = "Closed"

\* persistTransition() of an existing queue; 404 and 409 answers change nothing.
PersistTransition(s, next) ==
    /\ queue[s] # NoQueue
    /\ MayBecome(queue[s].status, next)
    /\ queue' = [queue EXCEPT ![s].status = next]
    /\ UNCHANGED <<records, index>>

OpenEnrollmentRoute(s) == PersistTransition(s, "EnrollmentOpen")
CloseEnrollmentRoute(s) == PersistTransition(s, "EnrollmentClosed")
CloseRoute(s) == PersistTransition(s, "Closed")

CreateQueue(s) ==
    /\ queue[s] = NoQueue
    /\ queue' = [queue EXCEPT ![s] = [status |-> "Draft", enrolled |-> 0, advanced |-> 0]]
    /\ UNCHANGED <<records, index>>

\* advanceQueue(): the transition, then min(batch, enrolled - advanced) but not below 0.
AdvanceQueueMutant(s, batch) ==
    /\ queue[s] # NoQueue
    /\ MayBecome(queue[s].status, "AdvancementActive")
    /\ queue' = [queue EXCEPT ![s].status = "AdvancementActive", ![s].advanced = @ + batch]
    /\ UNCHANGED <<records, index>>
AdvanceQueue(s, batch) ==
    LET left == queue[s].enrolled - queue[s].advanced
        toAdvance == IF batch < left THEN batch ELSE left
    IN
    /\ queue[s] # NoQueue
    /\ MayBecome(queue[s].status, "AdvancementActive")
    /\ queue' = [queue EXCEPT ![s].status = "AdvancementActive",
                              ![s].advanced = @ + (IF toAdvance > 0 THEN toAdvance ELSE 0)]
    /\ UNCHANGED <<records, index>>

\* Places of the live records of identity i in queue s.
LiveRecords(i, s) == {n \in 1..Len(records[i]) : records[i][n].queueId = s /\ ~records[i][n].cancelled}

\* enrollIdentity(): a conflict answers 409; otherwise a record and an index entry.
EnrollIdentity(s, i) ==
    /\ LiveRecords(i, s) = {}
    /\ Len(records[i]) < MaxRecords
    /\ records' = [records EXCEPT ![i] = Append(@, [queueId |-> s, cancelled |-> FALSE])]
    /\ index' = [index EXCEPT ![s] = @ \cup {i}]
    /\ UNCHANGED queue

\* cancelEnrollment(): the first live record, and the index entry.
CancelEnrollment(s, i) ==
    \E n \in LiveRecords(i, s) :
        /\ \A m \in LiveRecords(i, s) : n <= m
        /\ records' = [records EXCEPT ![i][n].cancelled = TRUE]
        /\ index' = [index EXCEPT ![s] = @ \ {i}]
        /\ UNCHANGED queue

\* getEnrollmentsByQueue().length, and the statistics computed from it.
EnrollmentsByQueue(s) == {r \in index[s] \X (1..MaxRecords) : r[2] \in LiveRecords(r[1], s)}
QueueStats(s) ==
    LET active == Cardinality(EnrollmentsByQueue(s))
        total == IF active > 0 THEN active ELSE queue[s].enrolled
    IN  [total |-> total, advanced |-> queue[s].advanced, remaining |-> total - queue[s].advanced,
         percentAdvanced |-> IF total > 0 THEN (200 * queue[s].advanced + total) \div (2 * total) ELSE 0]

\* PublicQueueStatsSchema.parse() of GET /public/queues/:id/stats; it fails with a 500.
StatsParse(stats) == stats.remaining >= 0 /\ stats.percentAdvanced \in 0..100

QueuesNext ==
    \/ RestartQueues
    \/ \E s \in Slugs : CreateQueue(s)
    \/ \E s \in Slugs : OpenEnrollmentRoute(s)
    \/ \E s \in Slugs : CloseEnrollmentRoute(s)
    \/ \E s \in Slugs : CloseRoute(s)
    \/ \E s \in Slugs, n \in Batches : AdvanceQueue(s, n)
    \/ \E s \in Slugs, i \in BIdentities : EnrollIdentity(s, i)
    \/ \E s \in Slugs, i \in BIdentities : CancelEnrollment(s, i)

QueuesSpec == QueuesInit /\ [][QueuesNext]_qvars

-----------------------------------------------------------------------------
(* Properties                                                              *)

\* The two namespaces of the enrolment service agree after every order of enrolments
\* and cancellations: an identity is in the index of a queue exactly when it has one
\* live record there, never two.  So the statistics of a queue that nobody is enrolled
\* in through the service can always be published: advancing never overtakes the
\* stored figure.
StatsPublishable ==
    \A s \in Slugs :
        /\ \A i \in BIdentities : Cardinality(LiveRecords(i, s)) = IF i \in index[s] THEN 1 ELSE 0
        /\ queue[s] # NoQueue /\ EnrollmentsByQueue(s) = {} => StatsParse(QueueStats(s))
=============================================================================
