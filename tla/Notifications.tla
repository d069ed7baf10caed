----------------------------- MODULE Notifications -----------------------------
(***************************************************************************)
(* The notifications of one recipient: the requests that create one and trim   *)
(* the surplus at once, the messages to a large group that leave the trim to a  *)
(* job, the worker of the queue notification-trim, and the recipient who reads.  *)
(***************************************************************************)
EXTENDS Naturals, FiniteSets, Sequences

CONSTANTS
    Writers,                \* requests that notify the recipient at a time
    TrimWorker,             \* the execution of the trim queue (concurrency 1)
    Limit,                  \* NOTIFICATION_MAX_PER_USER
    TrimAttempts,           \* attempts of a job (defaultJobOptions)
    MaxNotifications,       \* bound: notifications that are created
    MaxNotificationFaults   \* bound: calls that fail and processes that die

ASSUME NotificationAssumption ==
    /\ TrimWorker \notin Writers
    /\ Limit \in Nat \ {0}
    /\ TrimAttempts \in Nat \ {0}
    /\ MaxNotifications \in Nat
    /\ MaxNotificationFaults \in Nat

VARIABLES
    rows,       \* the stored notifications, numbered in the order of created_at
    read,       \* those of them that are read
    created,    \* the number of notifications that were created
    trim,       \* [Trimmers -> the request or job it executes]
    jobs,       \* the attempts made of each waiting trim job
    dropped,    \* history: a trim that was due will not be made
    notificationFaults

notificationVars == <<rows, read, created, trim, jobs, dropped, notificationFaults>>

Trimmers == Writers \union {TrimWorker}

-----------------------------------------------------------------------------
\* surplus is the number that was counted, ids what was found to go, made the attempts of
\* the job, and overtaken (history) says that another trim has deleted since the count.
AtRest == [pc |-> "idle", id |-> 0, made |-> 0, surplus |-> 0, ids |-> {}, overtaken |-> FALSE]

Rests(a) == trim' = [trim EXCEPT ![a] = AtRest]

NotificationFault ==
    /\ notificationFaults < MaxNotificationFaults
    /\ notificationFaults' = notificationFaults + 1

\* ORDER BY read DESC, created_at ASC
GoesBefore(i, j) == IF (i \in read) = (j \in read) THEN i < j ELSE i \in read

FindOldestForTrim(limit) ==
    {i \in rows : Cardinality({j \in rows : GoesBefore(j, i)}) < limit}

-----------------------------------------------------------------------------
(* notification.service: the writers *)

\* persistAndEmit for few recipients, createNotifications for many.
Record(a) ==
    /\ a # TrimWorker /\ trim[a] = AtRest
    /\ created < MaxNotifications
    /\ created' = created + 1
    /\ \E pc \in {"insert", "insertMany"} :
          trim' = [trim EXCEPT ![a] = [AtRest EXCEPT !.pc = pc, !.id = created + 1]]
    /\ UNCHANGED <<rows, read, jobs, dropped, notificationFaults>>

CreateNotification(a) ==
    /\ trim[a].pc \in {"insert", "insertMany"}
    /\ rows' = rows \union {trim[a].id}
    /\ trim' = [trim EXCEPT ![a].pc = IF @ = "insert" THEN "count" ELSE "enqueue", ![a].id = 0]
    /\ UNCHANGED <<read, created, jobs, dropped, notificationFaults>>

\* The answer does not wait for the job.
EnqueueTrim(a) ==
    /\ trim[a].pc = "enqueue"
    /\ jobs' = Append(jobs, 0)
    /\ Rests(a)
    /\ UNCHANGED <<rows, read, created, dropped, notificationFaults>>

-----------------------------------------------------------------------------
(* trimRecipientIfNeeded, within a request or a job *)

\* Mutant of CountForRecipient: unread notifications are not counted.
CountReadForRecipient(a) ==
    /\ trim[a].pc = "count"
    /\ IF Cardinality(read) > Limit
       THEN trim' = [trim EXCEPT ![a].pc = "find", ![a].surplus = Cardinality(read) - Limit]
       ELSE Rests(a)
    /\ UNCHANGED <<rows, read, created, jobs, dropped, notificationFaults>>

\* Mutant of CountForRecipient: one notification more is taken for surplus.
CountOneMore(a) ==
    /\ trim[a].pc = "count"
    /\ IF Cardinality(rows) >= Limit
       THEN trim' = [trim EXCEPT ![a].pc = "find", ![a].surplus = Cardinality(rows) - Limit + 1]
       ELSE Rests(a)
    /\ UNCHANGED <<rows, read, created, jobs, dropped, notificationFaults>>

CountForRecipient(a) ==
    /\ trim[a].pc = "count"
    /\ IF Cardinality(rows) > Limit
       THEN trim' = [trim EXCEPT ![a].pc = "find", ![a].surplus = Cardinality(rows) - Limit]
       ELSE Rests(a)
    /\ UNCHANGED <<rows, read, created, jobs, dropped, notificationFaults>>

FindOldest(a) ==
    /\ trim[a].pc = "find"
    /\ trim' = [trim EXCEPT ![a].pc = "delete", ![a].ids = FindOldestForTrim(trim[a].surplus)]
    /\ UNCHANGED <<rows, read, created, jobs, dropped, notificationFaults>>

DeleteNotifications(a) ==
    /\ trim[a].pc = "delete"
    /\ rows' = rows \ trim[a].ids
    /\ read' = read \ trim[a].ids
    /\ trim' = [b \in Trimmers |->
                  IF b = a THEN AtRest
                  ELSE [trim[b] EXCEPT !.overtaken = @ \/ /\ trim[b].pc \in {"find", "delete"}
                                                          /\ rows' # rows]]
    /\ UNCHANGED <<created, jobs, dropped, notificationFaults>>

-----------------------------------------------------------------------------
(* The trim worker and what fails *)

TakeTrim ==
    /\ trim[TrimWorker] = AtRest /\ jobs # <<>>
    /\ trim' = [trim EXCEPT ![TrimWorker] = [AtRest EXCEPT !.pc = "count", !.made = Head(jobs)]]
    /\ jobs' = Tail(jobs)
    /\ UNCHANGED <<rows, read, created, dropped, notificationFaults>>

\* A call of a request fails, or its process dies: what it called may be done all the same.
RequestFails(a) ==
    /\ a # TrimWorker /\ trim[a] # AtRest
    /\ NotificationFault
    /\ \/ /\ trim[a].pc \in {"insert", "insertMany"}
          /\ rows' = rows \union {trim[a].id}
       \/ UNCHANGED rows
    /\ dropped' = (dropped \/ trim[a].pc \notin {"insert", "insertMany"} \/ rows' # rows)
    /\ Rests(a)
    /\ UNCHANGED <<read, created, jobs>>

\* A failed attempt is repeated up to the limit, one whose worker died as well.
TrimFails ==
    /\ trim[TrimWorker] # AtRest
    /\ NotificationFault
    /\ \E made \in {trim[TrimWorker].made, trim[TrimWorker].made + 1} :
          IF made < TrimAttempts THEN jobs' = Append(jobs, made) /\ UNCHANGED dropped
                                 ELSE dropped' = TRUE /\ UNCHANGED jobs
    /\ Rests(TrimWorker)
    /\ UNCHANGED <<rows, read, created>>

-----------------------------------------------------------------------------
(* mark-notification-read, mark-notifications-read *)

MarkRead ==
    /\ \E ids \in {{i} : i \in rows \ read} \union {rows} :
          read' = read \union ids
    /\ read' # read
    /\ UNCHANGED <<rows, created, trim, jobs, dropped, notificationFaults>>

-----------------------------------------------------------------------------
NotificationInit ==
    /\ rows = {} /\ read = {} /\ created = 0
    /\ trim = [a \in Trimmers |-> AtRest]
    /\ jobs = <<>>
    /\ dropped = FALSE
    /\ notificationFaults = 0

Write(a) == Record(a) \/ CreateNotification(a) \/ EnqueueTrim(a) \/ RequestFails(a)

TrimRecipient(a) == CountForRecipient(a) \/ FindOldest(a) \/ DeleteNotifications(a)

NotificationNext ==
    \/ \E a \in Trimmers : Write(a) \/ TrimRecipient(a)
    \/ TakeTrim \/ TrimFails \/ MarkRead

NotificationSpec == NotificationInit /\ [][NotificationNext]_notificationVars

-----------------------------------------------------------------------------
(* Properties                                                              *)

Ids == 1..MaxNotifications

Trim ==
    [pc : {"idle", "insert", "insertMany", "enqueue", "count", "find", "delete"},
     id : Ids \union {0}, made : 0..TrimAttempts - 1, surplus : Ids \union {0},
     ids : SUBSET Ids, overtaken : BOOLEAN]

\* The state keeps its shape, and a trim never takes more than it has counted.
NotificationTypeOK ==
    /\ rows \subseteq Ids /\ read \subseteq rows
    /\ created \in Ids \union {0}
    /\ trim \in [Trimmers -> Trim]
    /\ jobs \in Seq(0..TrimAttempts - 1)
    /\ dropped \in BOOLEAN
    /\ notificationFaults \in 0..MaxNotificationFaults
    /\ \A a \in Trimmers : Cardinality(trim[a].ids) <= trim[a].surplus

\* A recipient has more notifications than the limit only while somebody who will trim them
\* has yet to do it, or has been lost: a trim whose count is overtaken by inserts or by other
\* trims never leaves a surplus that nobody takes (trimRecipientIfNeeded).
SurplusIsTrimmed ==
    Cardinality(rows) > Limit =>
        \/ dropped \/ jobs # <<>>
        \/ \E a \in Trimmers : trim[a].pc \in {"enqueue", "count", "find", "delete"}

\* A trim takes notifications that are within the limit only if another trim has deleted
\* between its count and its delete, so that both have taken one surplus (trimRecipientIfNeeded).
TrimsOnlySurplus ==
    [][rows \subseteq rows' \/ Cardinality(rows') >= Limit
       \/ \E a \in Trimmers : trim[a].overtaken /\ trim'[a] = AtRest]_notificationVars
=============================================================================
