--------------------------- MODULE AlertProcessing ---------------------------
(***************************************************************************)
(* The Celery task process_alert (src/snms/tasks/__init__.py): every value *)
(* a sensor posts enqueues one task, and the tasks of one sensor run in    *)
(* any number of workers at once.  A task reads the sensor's alerts with   *)
(* their SensorAlertStatus rows in one query, then walks the rows and, for *)
(* each alert, resets, holds or fires it; every change of a status row is  *)
(* a transaction of its own.                                               *)
(*                                                                         *)
(* One sensor.  Time is counted in minutes.  A status row is what          *)
(* SQLAlchemy would load: an update writes only the columns whose value    *)
(* the task changed, and a row object is read again when it is first used  *)
(* after a commit of the same task (expire_on_commit).                     *)
(***************************************************************************)
EXTENDS Integers

CONSTANTS
    Workers,     \* worker processes of the Celery pool
    Alerts,      \* the company's alerts
    Networks,    \* the company's networks
    Members,     \* networks the sensor is a member of
    Fields,      \* value fields of the sensor's type
    Readings,    \* values a sensor can post: functions from some of Fields to Int
    Conf,        \* the columns of each alert
    Attachments, \* what the alerts can be attached to at the start
    MaxClock,    \* bound: minutes
    MaxPosts,    \* bound: posted values
    MaxEdits,    \* bound: changes of the alerts and of what they are attached to
    MaxCrashes   \* bound: killed workers

NULL == -1          \* SQL NULL / Python None in a numeric column
None == "none"
Direct == "direct"  \* the SensorAlertAssociation of the alert and this sensor
Other == "other"    \* a SensorAlertAssociation of the alert and another sensor
Associations == {Direct, Other}

CompareTypes == {"lt", "lte", "gt", "gte", "eq", "neq"}
AlertType == CompareTypes \cup {"inactivity"}

(* snooze stays NULL for an alert whose action is a trigger: AlertSchema    *)
(* requires it of notifications only.  detailsFail: rendering the alert's  *)
(* name or text raises.                                                    *)
AlertConf == [type: AlertType, field: Fields, value: Int,
              threshold: Nat, snooze: Nat \cup {NULL}, window: SUBSET Nat,
              action: {"notification", "trigger"}, detailsFail: BOOLEAN]

ASSUME ConfAssumption == Conf \in [Alerts -> AlertConf]
ASSUME NetworksAssumption == Members \subseteq Networks /\ Networks \cap {None, Direct, Other} = {}
ASSUME ReadingsAssumption == Readings # {}
ASSUME BoundsAssumption == {MaxClock, MaxPosts, MaxEdits, MaxCrashes} \subseteq Nat

Paths == Networks \cup Associations
ASSUME AttachmentsAssumption == Attachments \subseteq [Alerts -> SUBSET Paths]

VARIABLES
    clock,
    posts,       \* values posted so far
    edits, crashes,
    queue,       \* queue[v]: process_alert tasks waiting with the data v
    attached,    \* attached[a]: what the alert is attached to
    enabled,     \* enabled[a]: is_active and deleted
    status,      \* status[a]: the SensorAlertStatus row of this sensor
    pc,          \* pc[w]: where the worker is
    task,        \* task[w]: the data and the "now" of the running task
    rows,        \* rows[w]: rows of the query still to be walked
    processed,   \* processed[w]: the set that skips an alert's second row
    view,        \* view[w]: the status rows as the query loaded them
    expired,     \* expired[w]: the task has committed, its objects are stale
    step,        \* step[w]: the change the worker is about to commit
    notes,       \* history: what was sent, to people or to an actuator
    reports,     \* history: what each task's data says of each alert
    skipped      \* history: alerts a task did not look at, and its "now"

envVars == <<clock, posts, edits, crashes, queue, attached, enabled>>
taskVars == <<task, rows, processed, view, expired, step>>
history == <<notes, reports, skipped>>
vars == <<envVars, status, pc, taskVars, history>>

(* "absent": there is no row.  "null": triggered was never set.            *)
Flags == {"absent", "null", "no", "yes"}
Row == [flag: Flags, last: Nat \cup {NULL}]
NoRow == [flag |-> "absent", last |-> NULL]
Task == [value: Readings, now: Nat]
Step == [kind: {"reset", "hold", "fire"}, alert: Alerts, row: Row,
         via: Associations \cup {None}]
Idle == [kind |-> "none"]
NoTask == [value |-> CHOOSE v \in Readings : TRUE, now |-> 0]
NoView == [a \in Alerts |-> NoRow]

----------------------------------------------------------------------------
(* Helpers *)

(* is_alert_triggered for the types that compare the posted value *)
IsAlertTriggered(a, v) ==
    LET c == Conf[a]
        x == v[c.field]
    IN  \/ c.type = "lt"  /\ x < c.value
        \/ c.type = "gt"  /\ x > c.value
        \/ c.type = "lte" /\ x <= c.value
        \/ c.type = "gte" /\ x >= c.value
        \/ c.type = "eq"  /\ x = c.value
        \/ c.type = "neq" /\ x # c.value

(* the two tests that pass over an alert: its hours and its type *)
Applies(a, now) == now \in Conf[a].window /\ Conf[a].type \in CompareTypes

(* data[alert.field] is a number *)
HasField(a, v) == Conf[a].field \in DOMAIN v

(* the row object of alert a when worker w uses it *)
Loaded(w, a) ==
    IF expired[w] /\ view[w][a].flag # "absent" THEN status[a] ELSE view[w][a]

(* last_execute once the triggered branch has filled it in *)
Since(row, now) == IF row.last = NULL THEN now ELSE row.last

(* the threshold is met a minute early *)
MutantDue(a, row, now) ==
    LET age == now - Since(row, now)
        c == Conf[a]
    IN  \/ row.flag # "yes" /\ c.threshold > 0 /\ age + 1 >= c.threshold
        \/ row.flag = "yes" /\ c.snooze # NULL /\ age > c.snooze
        \/ row.flag # "yes" /\ c.threshold = 0

(* a fired alert is sent again whatever its snooze *)
MutantDueSnooze(a, row, now) ==
    LET age == now - Since(row, now)
        c == Conf[a]
    IN  \/ row.flag # "yes" /\ c.threshold > 0 /\ age >= c.threshold
        \/ row.flag = "yes" /\ c.snooze # NULL
        \/ row.flag # "yes" /\ c.threshold = 0

(* the condition that makes a triggered alert fire *)
Due(a, row, now) ==
    LET age == now - Since(row, now)
        c == Conf[a]
    IN  \/ row.flag # "yes" /\ c.threshold > 0 /\ age >= c.threshold
        \/ row.flag = "yes" /\ c.snooze # NULL /\ age > c.snooze
        \/ row.flag # "yes" /\ c.threshold = 0

Note(kind, a, row, now) ==
    [kind |-> kind, alert |-> a, at |-> now, since |-> Since(row, now), was |-> row.flag]
----------------------------------------------------------------------------
Init ==
    /\ clock = 0 /\ posts = 0 /\ edits = 0 /\ crashes = 0
    /\ queue = [v \in Readings |-> 0]
    /\ attached \in Attachments
    /\ enabled = [a \in Alerts |-> "active"]
    /\ status = [a \in Alerts |-> NoRow]
    /\ pc = [w \in Workers |-> "idle"]
    /\ task = [w \in Workers |-> NoTask]
    /\ rows = [w \in Workers |-> {}]
    /\ processed = [w \in Workers |-> {}]
    /\ view = [w \in Workers |-> NoView]
    /\ expired = [w \in Workers |-> FALSE]
    /\ step = [w \in Workers |-> Idle]
    /\ notes = {} /\ reports = {} /\ skipped = {}

----------------------------------------------------------------------------
(* The environment: time, the devices, and the users of the REST API *)

Tick ==
    /\ clock < MaxClock
    /\ clock' = clock + 1
    /\ UNCHANGED <<posts, edits, crashes, queue, attached, enabled, status, pc, taskVars, history>>

(* post_sensor_values enqueues process_alert with the posted value *)
Post(v) ==
    /\ posts < MaxPosts
    /\ posts' = posts + 1
    /\ queue' = [queue EXCEPT ![v] = @ + 1]
    /\ UNCHANGED <<clock, edits, crashes, attached, enabled, status, pc, taskVars, history>>

Edited ==
    /\ edits < MaxEdits
    /\ edits' = edits + 1
    /\ UNCHANGED <<clock, posts, crashes, queue, status, pc, taskVars, history>>

(* SensorAlertResource.post, NetworkAlertResource.post: live alerts only *)
Attach(a, p) ==
    /\ Edited
    /\ enabled[a] # "deleted" /\ p \notin attached[a]
    /\ attached' = [attached EXCEPT ![a] = @ \cup {p}]
    /\ UNCHANGED enabled

(* the two delete handlers: the association goes, the status row stays *)
Detach(a, p) ==
    /\ Edited
    /\ p \in attached[a]
    /\ attached' = [attached EXCEPT ![a] = @ \ {p}]
    /\ UNCHANGED enabled

(* AlertResource.put of is_active *)
SetActive(a) ==
    /\ Edited
    /\ enabled[a] # "deleted"
    /\ enabled' = [enabled EXCEPT ![a] = IF @ = "active" THEN "paused" ELSE "active"]
    /\ UNCHANGED attached

(* AlertResource.delete: a soft delete *)
DeleteAlert(a) ==
    /\ Edited
    /\ enabled[a] # "deleted"
    /\ enabled' = [enabled EXCEPT ![a] = "deleted"]
    /\ UNCHANGED attached

----------------------------------------------------------------------------
(* The task.  Each action below is what happens up to the next moment      *)
(* another process can intervene: a read or a commit of the database, or a *)
(* message handed to the broker.                                           *)

(* a worker takes a task and reads its clock *)
Begin(w, v) ==
    /\ pc[w] = "idle" /\ queue[v] > 0
    /\ queue' = [queue EXCEPT ![v] = @ - 1]
    /\ task' = [task EXCEPT ![w] = [value |-> v, now |-> clock]]
    /\ pc' = [pc EXCEPT ![w] = "query"]
    /\ UNCHANGED <<clock, posts, edits, crashes, attached, enabled, status, history,
                   rows, processed, view, expired, step>>

(* the query: the outer joins pair every network of an alert with every    *)
(* association of it, and a pair is a row if either leads to the sensor    *)
OrNone(S) == IF S = {} THEN {None} ELSE S
JoinRow == Alerts \X (Networks \cup {None}) \X (Associations \cup {None})

QueryRows ==
    {r \in JoinRow :
        /\ enabled[r[1]] = "active"
        /\ r[2] \in OrNone(attached[r[1]] \cap Networks)
        /\ r[3] \in OrNone(attached[r[1]] \cap Associations)
        /\ r[2] \in Members \/ r[3] = Direct}

Report(v, now) ==
    {[alert |-> a, at |-> now, hot |-> IsAlertTriggered(a, v)] :
        a \in {r[1] : r \in {q \in QueryRows : Applies(q[1], now) /\ HasField(q[1], v)}}}

Query(w) ==
    /\ pc[w] = "query"
    /\ rows' = [rows EXCEPT ![w] = QueryRows]
    /\ processed' = [processed EXCEPT ![w] = {}]
    /\ view' = [view EXCEPT ![w] = status]
    /\ expired' = [expired EXCEPT ![w] = FALSE]
    /\ pc' = [pc EXCEPT ![w] = "row"]
    /\ reports' = reports \cup Report(task[w].value, task[w].now)
    /\ UNCHANGED <<envVars, status, task, step, notes, skipped>>

(* the alert is not added to "processed" *)
MutantNextRow(w, r) ==
    /\ rows' = [rows EXCEPT ![w] = @ \ {r}]
    /\ UNCHANGED processed

(* to the next row *)
NextRow(w, r) ==
    /\ rows' = [rows EXCEPT ![w] = @ \ {r}]
    /\ processed' = [processed EXCEPT ![w] = @ \cup {r[1]}]

(* the task is over and its session is closed *)
Release(w) ==
    /\ pc' = [pc EXCEPT ![w] = "idle"]
    /\ task' = [task EXCEPT ![w] = NoTask]
    /\ rows' = [rows EXCEPT ![w] = {}]
    /\ processed' = [processed EXCEPT ![w] = {}]
    /\ view' = [view EXCEPT ![w] = NoView]
    /\ expired' = [expired EXCEPT ![w] = FALSE]
    /\ step' = [step EXCEPT ![w] = Idle]

(* the task returns or raises: what it has not reached is left alone, and  *)
(* so are the alerts of "undone"                                           *)
Leave(w, undone) ==
    /\ skipped' = skipped \cup
           {[alert |-> a, at |-> task[w].now] :
               a \in ({r[1] : r \in rows[w]} \ processed[w]) \cup undone}
    /\ Release(w)

(* the worker has r to walk and reaches the tests on the alert itself *)
AtRow(w, r) == pc[w] = "row" /\ r \in rows[w] /\ r[1] \notin processed[w]
Reaches(w, r) ==
    /\ AtRow(w, r) /\ Applies(r[1], task[w].now)
    /\ ~Conf[r[1]].detailsFail /\ HasField(r[1], task[w].value)
Hot(w, a) == IsAlertTriggered(a, task[w].value)

(* "Already Processed" *)
SkipProcessed(w, r) ==
    /\ pc[w] = "row" /\ r \in rows[w] /\ r[1] \in processed[w]
    /\ NextRow(w, r)
    /\ UNCHANGED <<envVars, status, pc, task, view, expired, step, history>>

(* outside the alert's hours, or a type this task does not handle; or the  *)
(* value does not trigger an alert that has nothing to clear               *)
PassOver(w, r) ==
    /\ \/ AtRow(w, r) /\ ~Applies(r[1], task[w].now)
       \/ /\ Reaches(w, r) /\ ~Hot(w, r[1])
          /\ Loaded(w, r[1]).last = NULL
    /\ NextRow(w, r)
    /\ UNCHANGED <<envVars, status, pc, task, view, expired, step, history>>

(* _get_details raises and the task returns; the field is missing or NULL  *)
(* and float() raises; the snooze of a fired trigger alert is None         *)
Fail(w, r) ==
    /\ \/ AtRow(w, r) /\ Applies(r[1], task[w].now)
          /\ (Conf[r[1]].detailsFail \/ ~HasField(r[1], task[w].value))
       \/ /\ Reaches(w, r) /\ Hot(w, r[1])
          /\ Loaded(w, r[1]).flag = "yes" /\ Conf[r[1]].snooze = NULL
    /\ Leave(w, {})
    /\ UNCHANGED <<envVars, status, notes, reports>>

Prepare(w, r, kind) ==
    /\ pc' = [pc EXCEPT ![w] = "commit"]
    /\ step' = [step EXCEPT ![w] = [kind |-> kind, alert |-> r[1], row |-> Loaded(w, r[1]),
                                    via |-> r[3]]]
    /\ NextRow(w, r)
    /\ UNCHANGED <<envVars, status, task, view, expired, reports, skipped>>

(* the reset of an alert that only was pending is sent too *)
MutantReset(w, r) ==
    /\ Reaches(w, r) /\ ~Hot(w, r[1])
    /\ Loaded(w, r[1]).last # NULL
    /\ notes' = notes \cup {Note("reset", r[1], Loaded(w, r[1]), task[w].now)}
    /\ Prepare(w, r, "reset")

(* the value no longer triggers: the reset is sent before it is committed *)
Reset(w, r) ==
    /\ Reaches(w, r) /\ ~Hot(w, r[1])
    /\ Loaded(w, r[1]).last # NULL
    /\ notes' = IF Loaded(w, r[1]).flag = "yes"
                THEN notes \cup {Note("reset", r[1], Loaded(w, r[1]), task[w].now)}
                ELSE notes
    /\ Prepare(w, r, "reset")

CanFire(w, r) ==
    /\ Reaches(w, r) /\ Hot(w, r[1])
    /\ ~(Loaded(w, r[1]).flag = "yes" /\ Conf[r[1]].snooze = NULL)

(* triggered, but its duration or its snooze is not over *)
Hold(w, r) ==
    /\ CanFire(w, r) /\ ~Due(r[1], Loaded(w, r[1]), task[w].now)
    /\ Prepare(w, r, "hold")
    /\ UNCHANGED notes

Fire(w, r) ==
    /\ CanFire(w, r) /\ Due(r[1], Loaded(w, r[1]), task[w].now)
    /\ Prepare(w, r, "fire")
    /\ UNCHANGED notes

----------------------------------------------------------------------------
(* Commits *)

(* a reminder does not restart the snooze *)
MutantUpdatedStamp(old, s, now) ==
    CASE s.kind = "reset" ->
           [flag |-> IF s.row.flag = "no" THEN old.flag ELSE "no", last |-> NULL]
      [] s.kind = "hold" ->
           [old EXCEPT !.last = IF s.row.last = NULL THEN now ELSE @]
      [] s.kind = "fire" ->
           [flag |-> IF s.row.flag = "yes" THEN old.flag ELSE "yes",
            last |-> IF s.row.flag = "yes" THEN old.last ELSE now]

(* the reset of a pending alert does not clear its start *)
MutantUpdatedReset(old, s, now) ==
    CASE s.kind = "reset" ->
           [flag |-> "no", last |-> IF s.row.flag = "yes" THEN NULL ELSE old.last]
      [] s.kind = "hold" ->
           [old EXCEPT !.last = IF s.row.last = NULL THEN now ELSE @]
      [] s.kind = "fire" ->
           [flag |-> IF s.row.flag = "yes" THEN old.flag ELSE "yes",
            last |-> IF s.row.last = now THEN old.last ELSE now]

(* the row after the UPDATE of the columns the task changed *)
Updated(old, s, now) ==
    CASE s.kind = "reset" ->
           [flag |-> IF s.row.flag = "no" THEN old.flag ELSE "no", last |-> NULL]
      [] s.kind = "hold" ->
           [old EXCEPT !.last = IF s.row.last = NULL THEN now ELSE @]
      [] s.kind = "fire" ->
           [flag |-> IF s.row.flag = "yes" THEN old.flag ELSE "yes",
            last |-> IF s.row.last = now THEN old.last ELSE now]

MutantInserted(s, now) == [flag |-> "yes", last |-> now]  \* triggered defaults to true

(* the row the task INSERTs when its query found none *)
Inserted(s, now) == [flag |-> IF s.kind = "fire" THEN "yes" ELSE "null", last |-> now]

(* a reset is of a row that was loaded *)
Inserts(s) == s.kind # "reset" /\ s.row.flag = "absent"

Conflict(w) == Inserts(step[w]) /\ status[step[w].alert].flag # "absent"

CommitRow(w) ==
    LET s == step[w]
    IN  /\ pc[w] = "commit" /\ ~Conflict(w)
        /\ status' = [status EXCEPT ![s.alert] =
                         IF Inserts(s) THEN Inserted(s, task[w].now)
                         ELSE Updated(@, s, task[w].now)]

(* the reset is committed and the task RETURNS: later rows are not walked *)
CommitReset(w) ==
    /\ CommitRow(w) /\ step[w].kind = "reset"
    /\ Leave(w, {})
    /\ UNCHANGED <<envVars, notes, reports>>

CommitHold(w) ==
    /\ CommitRow(w) /\ step[w].kind = "hold"
    /\ pc' = [pc EXCEPT ![w] = "row"]
    /\ expired' = [expired EXCEPT ![w] = TRUE]
    /\ UNCHANGED <<envVars, task, rows, processed, view, step, history>>

CommitFire(w) ==
    /\ CommitRow(w) /\ step[w].kind = "fire"
    /\ pc' = [pc EXCEPT ![w] = "announce"]
    /\ expired' = [expired EXCEPT ![w] = TRUE]
    /\ UNCHANGED <<envVars, task, rows, processed, view, step, history>>

(* another task inserted the row first: IntegrityError, caught by the task *)
CommitConflict(w) ==
    /\ pc[w] = "commit" /\ Conflict(w)
    /\ Leave(w, {step[w].alert})
    /\ UNCHANGED <<envVars, status, notes, reports>>

(* after the commit: send_alerts is enqueued *)
Announce(w) ==
    LET s == step[w]
    IN  /\ pc[w] = "announce" /\ Conf[s.alert].action = "notification"
        /\ notes' = notes \cup {Note("triggered", s.alert, s.row, task[w].now)}
        /\ pc' = [pc EXCEPT ![w] = "row"]
        /\ UNCHANGED <<envVars, status, taskVars, reports, skipped>>

(* after the commit: the actuator of the row's association is configured,  *)
(* whichever sensor the association is of                                  *)
Actuate(w) ==
    LET s == step[w]
    IN  /\ pc[w] = "announce" /\ Conf[s.alert].action = "trigger"
        /\ s.via # None => s.via \in attached[s.alert]
        /\ notes' = IF s.via # None
                    THEN notes \cup {Note("actuate", s.alert, s.row, task[w].now)}
                    ELSE notes
        /\ pc' = [pc EXCEPT ![w] = "row"]
        /\ UNCHANGED <<envVars, status, taskVars, reports, skipped>>

(* the association was deleted since the query: reading its actuator_id    *)
(* after the commit raises                                                 *)
ActuateFails(w) ==
    /\ pc[w] = "announce" /\ Conf[step[w].alert].action = "trigger"
    /\ step[w].via # None /\ step[w].via \notin attached[step[w].alert]
    /\ Leave(w, {})
    /\ UNCHANGED <<envVars, status, notes, reports>>

Finish(w) ==
    /\ pc[w] = "row" /\ rows[w] = {}
    /\ Release(w)
    /\ UNCHANGED <<envVars, status, history>>

(* the worker is killed; Celery has acknowledged the task when it started *)
Crash(w) ==
    /\ crashes < MaxCrashes /\ pc[w] # "idle"
    /\ crashes' = crashes + 1
    /\ Leave(w, IF pc[w] = "commit" THEN {step[w].alert} ELSE {})
    /\ UNCHANGED <<clock, posts, edits, queue, attached, enabled, status, notes, reports>>

----------------------------------------------------------------------------
Environment ==
    \/ Tick
    \/ \E v \in Readings : Post(v)
    \/ \E a \in Alerts : SetActive(a) \/ DeleteAlert(a)
    \/ \E a \in Alerts, p \in Paths : Attach(a, p) \/ Detach(a, p)

Walk(w) ==
    \E r \in rows[w] :
        \/ SkipProcessed(w, r) \/ PassOver(w, r) \/ Fail(w, r)
        \/ Reset(w, r) \/ Hold(w, r) \/ Fire(w, r)

Work(w) ==
    \/ \E v \in Readings : Begin(w, v)
    \/ Query(w) \/ Walk(w) \/ Finish(w)
    \/ CommitReset(w) \/ CommitHold(w) \/ CommitFire(w) \/ CommitConflict(w)
    \/ Announce(w) \/ Actuate(w) \/ ActuateFails(w)

Next == Environment \/ \E w \in Workers : Work(w) \/ Crash(w)

Spec == Init /\ [][Next]_vars
----------------------------------------------------------------------------
(* Properties *)

NoteRecord == [kind: {"triggered", "actuate", "reset"}, alert: Alerts,
               at: Nat, since: Nat, was: Flags]
ReportRecord == [alert: Alerts, at: Nat, hot: BOOLEAN]

(* Every variable keeps its type: in particular a status row is only ever  *)
(* one of the shapes the code can write.                                   *)
TypeOK ==
    /\ clock \in Nat /\ posts \in Nat /\ edits \in Nat /\ crashes \in Nat
    /\ queue \in [Readings -> Nat]
    /\ attached \in [Alerts -> SUBSET Paths]
    /\ enabled \in [Alerts -> {"active", "paused", "deleted"}]
    /\ status \in [Alerts -> Row]
    /\ pc \in [Workers -> {"idle", "query", "row", "commit", "announce"}]
    /\ task \in [Workers -> Task]
    /\ rows \in [Workers -> SUBSET JoinRow]
    /\ processed \in [Workers -> SUBSET Alerts]
    /\ view \in [Workers -> [Alerts -> Row]]
    /\ expired \in [Workers -> BOOLEAN]
    /\ step \in [Workers -> Step \cup {Idle}]
    /\ \A w \in Workers : pc[w] \in {"commit", "announce"} => step[w] \in Step
    /\ notes \subseteq NoteRecord
    /\ reports \subseteq ReportRecord
    /\ skipped \subseteq [alert: Alerts, at: Nat]

(* However the tasks of a sensor interleave, crash or read stale rows, an  *)
(* alert is only announced on evidence: the announcing task's value and a  *)
(* value processed at the recorded start both triggered the alert, and the *)
(* two are at least the threshold duration apart or, for a reminder, more  *)
(* than the snooze apart.                                                  *)
NotificationBacked ==
    \A n \in notes : n.kind # "reset" =>
        /\ [alert |-> n.alert, at |-> n.at, hot |-> TRUE] \in reports
        /\ [alert |-> n.alert, at |-> n.since, hot |-> TRUE] \in reports
        /\ IF n.was = "yes" THEN n.at - n.since > Conf[n.alert].snooze
           ELSE Conf[n.alert].threshold > 0 => n.at - n.since >= Conf[n.alert].threshold

(* A status row that says "triggered" was announced, or is about to be by  *)
(* the worker that committed it, unless a worker was killed: no order of   *)
(* commits and sends loses a first notification.                           *)
TriggeredIsAnnounced ==
    \A a \in Alerts :
        (status[a].flag = "yes" /\ Conf[a].action = "notification" /\ crashes = 0) =>
            \/ \E n \in notes : n.kind = "triggered" /\ n.alert = a
            \/ \E w \in Workers : pc[w] = "announce" /\ step[w].alert = a

(* Nobody is told that an alert was reset who was not told that it fired:  *)
(* a reset follows an announcement of the same alert, made no later, by    *)
(* one of the workers, none of them killed.                                *)
ResetFollowsAnnouncement ==
    \A n \in notes :
        (n.kind = "reset" /\ Conf[n.alert].action = "notification" /\ crashes = 0) =>
            \/ \E m \in notes : m.kind = "triggered" /\ m.alert = n.alert
            \/ \E w \in Workers : pc[w] = "announce" /\ step[w].alert = n.alert

Announced(a) == {n.at : n \in {m \in notes : m.kind = "triggered" /\ m.alert = a}}

(* One worker: the stamp of a triggered row is the time of the latest      *)
(* announcement users received, so the snooze counts from there.           *)
AnnouncedAtStamp ==
    \A a \in Alerts :
        (status[a].flag = "yes" /\ Conf[a].action = "notification" /\ crashes = 0) =>
            \/ /\ status[a].last \in Announced(a)
               /\ \A t \in Announced(a) : t <= status[a].last
            \/ \E w \in Workers : pc[w] = "announce" /\ step[w].alert = a

(* One worker: a task never runs into its own or an earlier task's row, so *)
(* no value is lost to a duplicate key although an alert can reach the     *)
(* sensor by several rows of the query.                                    *)
NoDuplicateInsert == \A w \in Workers : pc[w] = "commit" => ~Conflict(w)

Cold(n, r) == r.alert = n.alert /\ ~r.hot /\ n.since < r.at /\ r.at < n.at

(* One worker: an alert with a threshold duration fires only if every      *)
(* value in between that the alert was looked at for triggered it too.     *)
ThresholdHonoured ==
    \A n \in notes : n.kind # "reset" /\ n.was # "yes" =>
        \A r \in reports : Cold(n, r) => [alert |-> r.alert, at |-> r.at] \in skipped

(* What the model says of threshold_duration (alerts.py:97): "Trigger only *)
(* if alert is active for this duration in minutes".                       *)
ThresholdActive ==
    \A n \in notes : n.kind # "reset" /\ n.was # "yes" =>
        \A r \in reports : ~Cold(n, r)

(* What process_alert says of itself (tasks/__init__.py:230): "Process the *)
(* alerts for the sensor based on the current sensor values."              *)
AllAlertsProcessed == skipped = {}

----------------------------------------------------------------------------
(* What users are told of: the episodes the status rows stand for.         *)

PhaseOf(row) ==
    IF row.last = NULL THEN "quiet" ELSE IF row.flag = "yes" THEN "firing" ELSE "pending"
Phase == [a \in Alerts |-> PhaseOf(status[a])]
Stamp == [a \in Alerts |-> status[a].last]

Episode == INSTANCE AlertEpisode WITH
    Threshold <- [a \in Alerts |-> Conf[a].threshold],
    Snooze <- [a \in Alerts |-> Conf[a].snooze],
    time <- clock, phase <- Phase, since <- Stamp

(* With one worker the status rows behave as the episodes users are told   *)
(* of: an alert starts, fires after its duration, reminds after its snooze *)
(* and is cleared, and nothing else happens to it.                         *)
ImplementsEpisode == Episode!Spec
=============================================================================
