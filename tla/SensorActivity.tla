---------------------------- MODULE SensorActivity ----------------------------
(***************************************************************************)
(* Whether a sensor is heard of: post_sensor_values, which stores a value  *)
(* and ends an outage (src/snms/modules/sensors/controllers.py), and the   *)
(* two Celery tasks that look for silence, device_status and               *)
(* inactivity_alerts_check (src/snms/tasks/__init__.py).  All three read   *)
(* the sensor's row, and write it later in a transaction of their own.     *)
(* Time is counted in minutes.                                             *)
(***************************************************************************)
EXTENDS Integers

CONSTANTS
    Sensors,
    Alerts,        \* the active alerts of type "inactivity"
    Watches,       \* rows of the query of inactivity_alerts_check
    Limit,         \* minutes of silence an alert allows
    Between,       \* minutes an alert is meant for
    Hours,         \* minutes at which a sensor is in operation
    Timeout,       \* status_timeout of the sensor's type; 0: not watched
    FirstUpdates,  \* what last_update can be at the start
    Posters,       \* HTTP workers and MQTT threads
    Workers,       \* Celery workers that run inactivity_alerts_check
    StatusWorkers, \* Celery workers that run device_status
    MaxClock, MaxPosts, MaxFaults  \* bounds

NULL == -1

(* an alert can reach a sensor by several rows; "copy" tells them apart *)
Watch == [alert: Alerts, sensor: Sensors, copy: Nat]
Pairs == {<<r.alert, r.sensor>> : r \in Watches}

ASSUME WatchesAssumption == Watches \subseteq Watch
ASSUME MinutesAssumption ==
    /\ Limit \in [Alerts -> Nat] /\ Between \in [Alerts -> SUBSET Nat]
    /\ Hours \in [Sensors -> SUBSET Nat] /\ Timeout \in [Sensors -> Nat]
ASSUME BoundsAssumption == {MaxClock, MaxPosts, MaxFaults} \subseteq Nat
ASSUME FirstUpdatesAssumption == FirstUpdates \subseteq {0, NULL}

VARIABLES
    clock, posts, faults,
    sensor,      \* sensor[s]: last_update, is_down and is_inactive
    status,      \* status[p]: last_execute of the pair's row, NULL if there is none
    backups,     \* backups[s]: inactivity_alerts_check(s, backup_alert=True) waiting
    post,        \* post[q]: the request a poster is at
    pc, task,    \* where a worker is; its task and the task's "now"
    rows,        \* rows[w]: rows still to be walked
    view,        \* view[w]: status rows and sensors as the query loaded them
    expired,     \* expired[w]: the task has committed, its objects are stale
    step,        \* step[w]: the row a worker has decided on
    marking,     \* marking[d]: sensors device_status is about to mark
    notes,       \* history: messages to the recipients of the alerts
    rejected,    \* history: sensors a value of which raised
    outages,     \* history: how often a sensor became inactive
    recoveries   \* history: how often its recovery was queued

taskVars == <<pc, task, rows, view, expired, step>>
history == <<notes, rejected, outages, recoveries>>
vars == <<clock, posts, faults, sensor, status, backups, post, taskVars, marking, history>>

SensorRow == [last: Nat \cup {NULL}, down: BOOLEAN, inactive: BOOLEAN]
Status == [Pairs -> Nat \cup {NULL}]
Free == [at |-> "free"]
Idle == [kind |-> "none"]
NoView == [sensor |-> [s \in Sensors |-> [last |-> NULL, inactive |-> FALSE]],
           status |-> [p \in Pairs |-> NULL]]
Pair(r) == <<r.alert, r.sensor>>

(* the columns of a sensor that post_sensor_values and the checks look at *)
ReadRow == [last: Nat \cup {NULL}, inactive: BOOLEAN]
Read(s) == [last |-> sensor[s].last, inactive |-> sensor[s].inactive]

----------------------------------------------------------------------------
Init ==
    /\ clock = 0 /\ posts = 0 /\ faults = 0
    /\ sensor \in [Sensors -> [last: FirstUpdates, down: {FALSE}, inactive: {FALSE}]]
    /\ status = [p \in Pairs |-> NULL]
    /\ backups = [s \in Sensors |-> 0]
    /\ post = [q \in Posters |-> Free]
    /\ pc = [w \in Workers |-> "idle"]
    /\ task = [w \in Workers |-> Idle]
    /\ rows = [w \in Workers |-> {}]
    /\ view = [w \in Workers |-> NoView]
    /\ expired = [w \in Workers |-> FALSE]
    /\ step = [w \in Workers |-> Idle]
    /\ marking = [d \in StatusWorkers |-> {}]
    /\ notes = {} /\ rejected = {}
    /\ outages = [s \in Sensors |-> 0] /\ recoveries = [s \in Sensors |-> 0]

Tick ==
    /\ clock < MaxClock
    /\ clock' = clock + 1
    /\ UNCHANGED <<posts, faults, sensor, status, backups, post, taskVars, marking, history>>

----------------------------------------------------------------------------
(* post_sensor_values *)

(* the sensor is loaded; out of its hours the value is dropped *)
PostLoad(q, s) ==
    /\ posts < MaxPosts /\ post[q] = Free /\ clock \in Hours[s]
    /\ posts' = posts + 1
    /\ post' = [post EXCEPT ![q] = [at |-> "loaded", sensor |-> s, row |-> Read(s)]]
    /\ UNCHANGED <<clock, faults, sensor, status, backups, taskVars, marking, history>>

MutantBackOnline(row) == TRUE  \* the recovery is queued for every value

BackOnline(row) == row.inactive

(* "now" is read, and the recovery of an inactive sensor is queued *)
PostStamp(q) ==
    LET p == post[q]
    IN  /\ p.at = "loaded"
        /\ BackOnline(p.row) => p.row.last # NULL
        /\ backups' = IF BackOnline(p.row) THEN [backups EXCEPT ![p.sensor] = @ + 1] ELSE backups
        /\ recoveries' = IF BackOnline(p.row)
                         THEN [recoveries EXCEPT ![p.sensor] = @ + 1] ELSE recoveries
        /\ post' = [post EXCEPT ![q] = [at |-> "stamped", sensor |-> p.sensor, now |-> clock]]
        /\ UNCHANGED <<clock, posts, faults, sensor, status, taskVars, marking,
                       notes, rejected, outages>>

(* the seconds of silence are computed from last_update, which is None *)
PostRaises(q) ==
    /\ post[q].at = "loaded" /\ BackOnline(post[q].row) /\ post[q].row.last = NULL
    /\ rejected' = rejected \cup {post[q].sensor}
    /\ post' = [post EXCEPT ![q] = Free]
    /\ UNCHANGED <<clock, posts, faults, sensor, status, backups, taskVars, marking,
                   notes, outages, recoveries>>

(* is_inactive is left as it is *)
MutantStored(row, now) == [row EXCEPT !.last = now, !.down = FALSE]

Stored(row, now) == [last |-> now, down |-> FALSE, inactive |-> FALSE]

PostCommit(q) ==
    LET p == post[q]
    IN  /\ p.at = "stamped"
        /\ sensor' = [sensor EXCEPT ![p.sensor] = Stored(@, p.now)]
        /\ post' = [post EXCEPT ![q] = Free]
        /\ UNCHANGED <<clock, posts, faults, status, backups, taskVars, marking, history>>

(* the time series database refuses the point, or the worker is killed *)
PostFails(q) ==
    /\ faults < MaxFaults /\ post[q].at = "stamped"
    /\ faults' = faults + 1
    /\ post' = [post EXCEPT ![q] = Free]
    /\ UNCHANGED <<clock, posts, sensor, status, backups, taskVars, marking, history>>

----------------------------------------------------------------------------
(* device_status *)

(* a sensor that never posted is not found *)
MutantTimedOut(s) ==
    Timeout[s] > 0 /\ sensor[s].last # NULL /\ clock - sensor[s].last > Timeout[s]

TimedOut(s) ==
    Timeout[s] > 0 /\ (sensor[s].last = NULL \/ clock - sensor[s].last > Timeout[s])

(* all sensors are read; only a change of is_down will be written *)
StatusRead(d) ==
    /\ marking[d] = {}
    /\ marking' = [marking EXCEPT ![d] = {s \in Sensors : TimedOut(s) /\ ~sensor[s].down}]
    /\ UNCHANGED <<clock, posts, faults, sensor, status, backups, post, taskVars, history>>

StatusCommit(d) ==
    /\ marking[d] # {}
    /\ sensor' = [s \in Sensors |-> IF s \in marking[d] THEN [sensor[s] EXCEPT !.down = TRUE]
                                    ELSE sensor[s]]
    /\ marking' = [marking EXCEPT ![d] = {}]
    /\ UNCHANGED <<clock, posts, faults, status, backups, post, taskVars, history>>

----------------------------------------------------------------------------
(* inactivity_alerts_check *)

(* the worker's row objects: loaded by the query, and read again once the  *)
(* task has committed, except a status row the query did not find          *)
SensorOf(w, r) == IF expired[w] THEN Read(r.sensor) ELSE view[w].sensor[r.sensor]
StatusOf(w, r) ==
    IF expired[w] /\ view[w].status[Pair(r)] # NULL THEN status[Pair(r)]
    ELSE view[w].status[Pair(r)]

Start(w, t) ==
    /\ pc[w] = "idle"
    /\ task' = [task EXCEPT ![w] = t]
    /\ pc' = [pc EXCEPT ![w] = "query"]
    /\ UNCHANGED <<clock, posts, faults, sensor, status, post, rows, view, expired, step,
                   marking, history>>

(* beat queues a check of all sensors every minute *)
StartPeriodic(w) ==
    /\ Start(w, [kind |-> "periodic", sensors |-> Sensors, now |-> clock])
    /\ UNCHANGED backups

StartBackup(w, s) ==
    /\ backups[s] > 0
    /\ backups' = [backups EXCEPT ![s] = @ - 1]
    /\ Start(w, [kind |-> "backup", sensors |-> {s}, now |-> clock])

Query(w) ==
    /\ pc[w] = "query"
    /\ pc' = [pc EXCEPT ![w] = "row"]
    /\ rows' = [rows EXCEPT ![w] = {r \in Watches : r.sensor \in task[w].sensors}]
    /\ view' = [view EXCEPT ![w] = [sensor |-> [s \in Sensors |-> Read(s)], status |-> status]]
    /\ UNCHANGED <<clock, posts, faults, sensor, status, backups, post, task, expired, step,
                   marking, history>>

(* the task returns or raises *)
Leave(w) ==
    /\ pc' = [pc EXCEPT ![w] = "idle"]
    /\ task' = [task EXCEPT ![w] = Idle]
    /\ rows' = [rows EXCEPT ![w] = {}]
    /\ view' = [view EXCEPT ![w] = NoView]
    /\ expired' = [expired EXCEPT ![w] = FALSE]
    /\ step' = [step EXCEPT ![w] = Idle]

IsBackup(w) == task[w].kind = "backup"

(* the two tests of the hours: a backup is not sent out of the alert's,    *)
(* nothing is sent out of the sensor's                                     *)
InHours(w, r) ==
    /\ IsBackup(w) => task[w].now \in Between[r.alert]
    /\ task[w].now \in Hours[r.sensor]

(* last_execute < last_update with a last_update of None *)
Uncomparable(w, r) == StatusOf(w, r) # NULL /\ SensorOf(w, r).last = NULL

(* the alert is sent again while the sensor stays silent *)
MutantNewSilence(w, r) == TRUE

(* nothing was sent since the last value *)
NewSilence(w, r) == StatusOf(w, r) = NULL \/ StatusOf(w, r) < SensorOf(w, r).last

Silent(w, r) ==
    LET last == SensorOf(w, r).last
    IN  last = NULL \/ task[w].now - last > Limit[r.alert]

AtRow(w, r) == pc[w] = "row" /\ r \in rows[w]
PassesTests(w, r) == IsBackup(w) \/ (NewSilence(w, r) /\ Silent(w, r))

PassOver(w, r) ==
    /\ AtRow(w, r)
    /\ ~InHours(w, r) \/ (~Uncomparable(w, r) /\ ~PassesTests(w, r))
    /\ rows' = [rows EXCEPT ![w] = @ \ {r}]
    /\ UNCHANGED <<clock, posts, faults, sensor, status, backups, post, pc, task, view,
                   expired, step, marking, history>>

CheckRaises(w, r) ==
    /\ AtRow(w, r) /\ InHours(w, r) /\ Uncomparable(w, r)
    /\ Leave(w)
    /\ UNCHANGED <<clock, posts, faults, sensor, status, backups, post, marking, history>>

(* a recovery is committed as if it were an outage *)
(* a backup has nothing to commit *)
Decided(w) == IF IsBackup(w) THEN "send" ELSE "commit"

Decide(w, r) ==
    /\ AtRow(w, r) /\ InHours(w, r) /\ ~Uncomparable(w, r) /\ PassesTests(w, r)
    /\ rows' = [rows EXCEPT ![w] = @ \ {r}]
    /\ step' = [step EXCEPT ![w] = [kind |-> IF IsBackup(w) THEN "up" ELSE "down",
                                    watch |-> r, last |-> SensorOf(w, r).last,
                                    marks |-> ~SensorOf(w, r).inactive,
                                    found |-> StatusOf(w, r) # NULL]]
    /\ pc' = [pc EXCEPT ![w] = Decided(w)]
    /\ UNCHANGED <<clock, posts, faults, sensor, status, backups, post, task, view, expired,
                   marking, history>>

Duplicate(w) == ~step[w].found /\ status[Pair(step[w].watch)] # NULL

(* only a change of is_inactive is written *)
Commit(w) ==
    LET r == step[w].watch
    IN  /\ pc[w] = "commit" /\ ~Duplicate(w)
        /\ status' = [status EXCEPT ![Pair(r)] = task[w].now]
        /\ sensor' = IF step[w].marks THEN [sensor EXCEPT ![r.sensor].inactive = TRUE]
                     ELSE sensor
        /\ outages' = IF step[w].marks /\ ~sensor[r.sensor].inactive
                      THEN [outages EXCEPT ![r.sensor] = @ + 1] ELSE outages
        /\ expired' = [expired EXCEPT ![w] = TRUE]
        /\ pc' = [pc EXCEPT ![w] = "send"]
        /\ UNCHANGED <<clock, posts, faults, backups, post, task, rows, view, step, marking,
                       notes, rejected, recoveries>>

(* a second row of the pair, or another check, inserted the status first *)
CommitRaises(w) ==
    /\ pc[w] = "commit" /\ Duplicate(w)
    /\ Leave(w)
    /\ UNCHANGED <<clock, posts, faults, sensor, status, backups, post, marking, history>>

Send(w) ==
    LET s == step[w]
    IN  /\ pc[w] = "send"
        /\ notes' = notes \cup {[kind |-> s.kind, alert |-> s.watch.alert,
                                 sensor |-> s.watch.sensor, last |-> s.last, at |-> task[w].now]}
        /\ pc' = [pc EXCEPT ![w] = "row"]
        /\ step' = [step EXCEPT ![w] = Idle]
        /\ UNCHANGED <<clock, posts, faults, sensor, status, backups, post, task, rows, view,
                       expired, marking, rejected, outages, recoveries>>

(* _get_details raises: nothing is sent for this row *)
SendFails(w) ==
    /\ pc[w] = "send" /\ faults < MaxFaults
    /\ faults' = faults + 1
    /\ pc' = [pc EXCEPT ![w] = "row"]
    /\ step' = [step EXCEPT ![w] = Idle]
    /\ UNCHANGED <<clock, posts, sensor, status, backups, post, task, rows, view, expired,
                   marking, history>>

Finish(w) ==
    /\ pc[w] = "row" /\ rows[w] = {}
    /\ Leave(w)
    /\ UNCHANGED <<clock, posts, faults, sensor, status, backups, post, marking, history>>

(* the worker is killed; its task was acknowledged when it started *)
Crash(w) ==
    /\ faults < MaxFaults /\ pc[w] # "idle"
    /\ faults' = faults + 1
    /\ Leave(w)
    /\ UNCHANGED <<clock, posts, sensor, status, backups, post, marking, history>>

----------------------------------------------------------------------------
Posting(q) ==
    PostStamp(q) \/ PostRaises(q) \/ PostCommit(q) \/ PostFails(q)

Checking(w) ==
    \/ StartPeriodic(w) \/ \E s \in Sensors : StartBackup(w, s)
    \/ Query(w) \/ Finish(w) \/ Commit(w) \/ CommitRaises(w) \/ Send(w)
    \/ SendFails(w) \/ Crash(w)
    \/ \E r \in rows[w] : PassOver(w, r) \/ CheckRaises(w, r) \/ Decide(w, r)

Next ==
    \/ Tick
    \/ \E q \in Posters : Posting(q) \/ \E s \in Sensors : PostLoad(q, s)
    \/ \E d \in StatusWorkers : StatusRead(d) \/ StatusCommit(d)
    \/ \E w \in Workers : Checking(w)

Spec == Init /\ [][Next]_vars

(* beat queues device_status every minute and a worker runs it *)
Fairness == \A d \in StatusWorkers : WF_vars(StatusRead(d)) /\ WF_vars(StatusCommit(d))
FairSpec == Spec /\ Fairness

----------------------------------------------------------------------------
(* Properties *)

Post == [at: {"loaded"}, sensor: Sensors, row: ReadRow]
        \cup [at: {"stamped"}, sensor: Sensors, now: Nat] \cup {Free}

(* Every variable keeps its type: a worker at a commit has decided on a row *)
(* and a status row, once written, is never NULL again.                     *)
TypeOK ==
    /\ clock \in Nat /\ posts \in Nat /\ faults \in Nat
    /\ sensor \in [Sensors -> SensorRow] /\ status \in Status
    /\ backups \in [Sensors -> Nat] /\ post \in [Posters -> Post]
    /\ pc \in [Workers -> {"idle", "query", "row", "commit", "send"}]
    /\ task \in [Workers -> [kind: {"periodic", "backup"}, sensors: SUBSET Sensors, now: Nat]
                            \cup {Idle}]
    /\ rows \in [Workers -> SUBSET Watches]
    /\ view \in [Workers -> [sensor: [Sensors -> ReadRow], status: Status]]
    /\ expired \in [Workers -> BOOLEAN]
    /\ step \in [Workers -> [kind: {"up", "down"}, watch: Watches, last: Nat \cup {NULL},
                             marks: BOOLEAN, found: BOOLEAN] \cup {Idle}]
    /\ \A w \in Workers : pc[w] = "commit" => step[w] # Idle /\ step[w].kind = "down"
    /\ marking \in [StatusWorkers -> SUBSET Sensors]
    /\ notes \subseteq [kind: {"up", "down"}, alert: Alerts, sensor: Sensors,
                        last: Nat \cup {NULL}, at: Nat]
    /\ rejected \subseteq Sensors
    /\ outages \in [Sensors -> Nat] /\ recoveries \in [Sensors -> Nat]

(* A sensor is announced to be back only if it was announced to be gone,   *)
(* unless a worker was killed or a text failed: by some alert the outage   *)
(* was sent, or a worker has committed it and is about to send it.         *)
UpFollowsDown ==
    \A n \in notes : n.kind = "up" /\ faults = 0 =>
        \/ \E m \in notes : m.kind = "down" /\ m.sensor = n.sensor
        \/ \E w \in Workers : pc[w] = "send" /\ step[w].watch.sensor = n.sensor

(* One check at a time: an alert is sent for a sensor once in each silence; *)
(* a second message needs a value of a later time than the first.           *)
OneDownPerSilence ==
    \A m, n \in notes :
        (m.kind = "down" /\ n.kind = "down" /\ m.alert = n.alert /\ m.sensor = n.sensor
         /\ m.at < n.at) => m.at < n.last

(* One poster: a sensor comes back no more often than it was lost, however *)
(* its values, the checks and device_status write its row over each other. *)
RecoveryPerOutage ==
    faults = 0 => \A s \in Sensors : recoveries[s] <= outages[s]

(* Back only after gone, and no oftener.                                   *)
RecoveryFollowsOutage == UpFollowsDown /\ RecoveryPerOutage

(* SensorValueResource.post (controllers.py:463): "Update sensor value". *)
ValuesStored == rejected = {}

SilentSince(s, t) == sensor[s].last = NULL \/ sensor[s].last < t
Overdue(s) == Timeout[s] > 0 /\ SilentSince(s, clock - Timeout[s])

(* A sensor that stays silent for its type's timeout is marked down, also  *)
(* when it never posted and whatever the checks write to its row.          *)
SilentIsDown ==
    \A s \in Sensors : Overdue(s) ~> (sensor[s].down \/ ~Overdue(s))
=============================================================================
