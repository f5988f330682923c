----------------------------- MODULE QueueAudit -----------------------------
(***************************************************************************)
(* The queue contract together with an auditor who sees nothing but the     *)
(* events each transaction publishes (ARCHITECTURE.md, docs/event-model.md) *)
(* and folds them, transaction by transaction, into a copy of the queue.    *)
(***************************************************************************)
EXTENDS Queue

VARIABLE audit    \* the queue as rebuilt from the events

auditVars == <<vars, audit>>

\* Events of one kind in a transaction, and the event of some kinds about one id.
OfKind(kind) == {e \in emitted' : e.kind = kind}
About(id) == {e \in emitted' : e.position_id = id /\ e.kind \in
                 {"Enrolled", "Advanced", "Expired", "Cancelled"}}
StatusAfter(e) == IF e.kind = "Enrolled" THEN "Pending" ELSE e.kind

\* The lifecycle status the events of a transaction tell, `old' when they tell none.
\* AdvancementActive has no event of its own: the first Advanced event stands for it.
StatusTold(old) ==
    CASE OfKind("Initialized") # {} -> "Draft"
      [] OfKind("EnrollmentOpened") # {} -> "EnrollmentOpen"
      [] OfKind("EnrollmentClosed") # {} -> "EnrollmentClosed"
      [] OfKind("QueueClosed") # {} -> "Closed"
      [] OfKind("Advanced") # {} -> "AdvancementActive"
      [] OTHER -> old
AdminTold(old) ==
    LET told == OfKind("Initialized") \cup OfKind("OwnershipTransferred")
    IN  IF told = {} THEN old ELSE (CHOOSE e \in told : TRUE).identity
VersionTold(old) ==
    IF OfKind("Migrated") = {} THEN old ELSE (CHOOSE e \in OfKind("Migrated") : TRUE).data

\* An Enrolled event names the owner; the others carry the admin's or owner's address.
Rebuilt(table) ==
    [i \in Ids |->
        IF About(i) = {} THEN table[i]
        ELSE LET e == CHOOSE x \in About(i) : TRUE
             IN  [identity |-> IF e.kind = "Enrolled" THEN e.identity ELSE table[i].identity,
                  status   |-> StatusAfter(e)]]

\* The highest id that an Advanced or Skipped event has named.
CursorTold(old) ==
    LET seen == {e.position_id : e \in OfKind("Advanced") \cup OfKind("Skipped")}
    IN  IF seen = {} THEN old ELSE CHOOSE i \in seen : \A j \in seen : j <= i

AuditInit ==
    /\ Init
    /\ audit = [pos |-> [i \in Ids |-> NoPosition], status |-> "None", admin |-> NoAddress,
                version |-> 1, cursor |-> 0]

AuditNext ==
    /\ Next
    /\ audit' = [pos     |-> Rebuilt(audit.pos),
                 status  |-> StatusTold(audit.status),
                 admin   |-> AdminTold(audit.admin),
                 version |-> VersionTold(audit.version),
                 cursor  |-> CursorTold(audit.cursor)]

\* The fairness of the queue: an operator who keeps calling advance.
AuditSpec == AuditInit /\ [][AuditNext]_auditVars /\ WF_vars(AdvanceSome)

\* The events alone rebuild every position with its owner and status, the lifecycle
\* status, the administrator, the version and, as the number of positions rebuilt
\* that are not cancelled, the capacity in use.  The Advanced and Skipped events give
\* the cursor up to expired positions: advance passes over those in silence, and over
\* nothing else.
HistoryRebuildable ==
    /\ audit.pos = pos
    /\ audit.status = config.status
    /\ audit.admin = config.admin
    /\ audit.version = version
    /\ active_count = Cardinality({i \in Ids : audit.pos[i].status \notin {"Absent", "Cancelled"}})
    /\ audit.cursor <= idx
    /\ \A i \in (audit.cursor + 1)..idx : StatusOf(i) = "Expired"
=============================================================================
