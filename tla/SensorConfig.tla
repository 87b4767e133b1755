----------------------------- MODULE SensorConfig -----------------------------
(***************************************************************************)
(* The configuration of a sensor (an actuator) and those who write it: the *)
(* configuration resources of the REST API, the trigger alerts of          *)
(* process_alert, and the scheduled events of run_schedule_events; and the *)
(* device, which is told of a change over MQTT, or polls for it and        *)
(* acknowledges it.                                                        *)
(*                                                                         *)
(* The configuration is one JSON column.  Every writer reads the row,      *)
(* changes its copy, and commits the whole column later; a column whose    *)
(* value did not change is not written.  Time is counted in minutes.       *)
(***************************************************************************)
EXTENDS Integers

CONSTANTS
    Workers,     \* HTTP and Celery processes
    Fields, Values,
    Requests,    \* what the bodies of REST requests ask for
    Events,      \* the scheduled events of the sensor
    Shape,       \* what each event sets, and whether it repeats
    Starts,      \* start dates a user can choose
    Period,      \* minutes between two runs of a repeated event
    Polls,       \* the device polls; otherwise it listens to MQTT
    MaxClock, MaxChanges, MaxFaults  \* bounds

NULL == -1
Config == [Fields -> Values]
Change == UNION {[S -> Values] : S \in SUBSET Fields}
EventShape == [field: Fields, value: Values, repeat: BOOLEAN]

(* dict.update (the prover does not know @@ and :> of TLC) *)
Overlaid(conf, new) ==
    [f \in DOMAIN conf \cup DOMAIN new |-> IF f \in DOMAIN new THEN new[f] ELSE conf[f]]

Setting(f, v) == [x \in {f} |-> v]

ASSUME RequestsAssumption == Requests \subseteq Change
ASSUME ShapeAssumption == Shape \in [Events -> EventShape]
ASSUME TimeAssumption == Starts \subseteq Nat /\ Period \in Nat \ {0}
ASSUME PollsAssumption == Polls \in BOOLEAN
ASSUME BoundsAssumption == {MaxClock, MaxChanges, MaxFaults} \subseteq Nat

VARIABLES
    clock, changes, faults,
    config,      \* Sensor.config
    updated,     \* Sensor.config_updated is not NULL
    start, next, \* Event.start_date and Event.next_runtime
    enabled,     \* the events that are active and not deleted
    job,         \* job[w]: what a worker is at
    device,      \* the device: where it is, and the configuration it uses
    raced,       \* history: a change was committed since the device fetched
    edited,      \* history: events a user has edited
    occurred,    \* history: the minutes at which each event was run
    wanted,      \* history: the value each field was last asked to have
    missed,      \* history: the fields changed since a worker read the row
    exposed      \* history: the fields whose last change a stale copy undid

eventVars == <<start, next, enabled, edited, occurred>>
askedVars == <<wanted, missed, exposed>>
vars == <<clock, changes, faults, config, updated, eventVars, job, device, raced, askedVars>>

Idle == [at |-> "idle"]
ChangeJob == [at: {"loaded", "publish"}, seen: Config, asked: Change]
EventJob == [at: {"events"}, seen: Config, asked: Change, now: Nat,
             due: SUBSET Events, left: SUBSET Events,
             starts: [Events -> Nat], nexts: [Events -> Nat \cup {NULL}]]

(* the request replaces the configuration *)
MutantCopy(j) == Overlaid([f \in Fields |-> CHOOSE v \in Values : TRUE], j.asked)

(* the copy of the column that a job will commit *)
Copy(j) == Overlaid(j.seen, j.asked)

(* the last run before now, not the first one after it *)
MutantNextRuntime(s, repeat, now) ==
    IF s > now THEN s ELSE IF repeat THEN s + Period * ((now - s) \div Period) ELSE NULL

(* get_next_runtime: the first run after now *)
NextRuntime(s, repeat, now) ==
    CASE s > now -> s
      [] s <= now /\ repeat -> s + Period * ((now - s) \div Period + 1)
      [] OTHER -> NULL

----------------------------------------------------------------------------
Init ==
    /\ clock = 0 /\ changes = 0 /\ faults = 0
    /\ \E v \in Values : config = [f \in Fields |-> v]
    /\ updated = TRUE
    /\ start \in [Events -> Starts]
    /\ next = [e \in Events |-> NextRuntime(start[e], Shape[e].repeat, 0)]
    /\ enabled = Events
    /\ job = [w \in Workers |-> Idle]
    /\ device = [at |-> "idle", conf |-> config, seen |-> FALSE]
    /\ raced = FALSE
    /\ edited = {} /\ occurred = {}
    /\ wanted = config /\ missed = [w \in Workers |-> {}] /\ exposed = {}

Faulty == faults < MaxFaults /\ faults' = faults + 1

(* the events the task of this minute has yet to run *)
Due == {e \in enabled : next[e] = clock /\ <<e, clock>> \notin occurred}

(* beat and the workers are on time, unless there is a fault *)
Tick ==
    /\ clock < MaxClock
    /\ clock' = clock + 1
    /\ IF Due = {} THEN UNCHANGED faults ELSE Faulty
    /\ UNCHANGED <<changes, config, updated, eventVars, job, device, raced, askedVars>>

----------------------------------------------------------------------------
(* Writers *)

Began(w) == missed' = [missed EXCEPT ![w] = {}] /\ UNCHANGED <<wanted, exposed>>

Load(w, new) ==
    /\ job[w] = Idle /\ changes < MaxChanges
    /\ changes' = changes + 1
    /\ job' = [job EXCEPT ![w] = [at |-> "loaded", seen |-> config, asked |-> new]]
    /\ Began(w)
    /\ UNCHANGED <<clock, faults, config, updated, eventVars, device, raced>>

(* SensorConfigResource.put, SensorHIDConfigResource.put *)
Put(w, new) == Load(w, new)

(* process_alert sets one field of the actuator *)
Actuate(w, f, v) == Load(w, Setting(f, v))

(* config_updated is set when there is something new to tell *)
MutantStore(j) ==
    /\ config' = IF Copy(j) = j.seen THEN config ELSE Copy(j)
    /\ updated' = updated
    /\ raced' = (raced \/ device.at \in {"fetched", "acking"})

(* the UPDATE of a writer: both columns, config only if the copy differs *)
Store(j) ==
    /\ config' = IF Copy(j) = j.seen THEN config ELSE Copy(j)
    /\ updated' = TRUE
    /\ raced' = (raced \/ device.at \in {"fetched", "acking"})

(* of what w has missed, its commit undoes what it was not asked for; what  *)
(* it was asked for is not written if the row had it before                 *)
Noted(w) ==
    LET asked == DOMAIN job[w].asked
        lost  == IF Copy(job[w]) = job[w].seen THEN missed[w] \cap asked ELSE missed[w] \ asked
    IN  /\ wanted' = Overlaid(wanted, job[w].asked)
        /\ exposed' = (exposed \ asked) \cup lost
        /\ missed' = [x \in Workers |-> IF x = w THEN {}
                                        ELSE missed[x] \cup {f \in Fields : config'[f] # config[f]}]

Commit(w) ==
    /\ job[w].at = "loaded"
    /\ Store(job[w]) /\ Noted(w)
    /\ job' = [job EXCEPT ![w].at = "publish"]
    /\ UNCHANGED <<clock, changes, faults, eventVars, device>>

MutantTold(j) == j.seen  \* the configuration as it was read

(* the whole copy is published *)
Told(j) == Copy(j)

(* QoS 0: the message arrives, or it is lost *)
Delivered(j) ==
    \/ /\ device' = IF Polls THEN device ELSE [device EXCEPT !.conf = Told(j)]
       /\ UNCHANGED faults
    \/ Faulty /\ UNCHANGED device

(* after the commit the copy is published *)
Publish(w) ==
    /\ job[w].at = "publish"
    /\ Delivered(job[w])
    /\ job' = [job EXCEPT ![w] = Idle]
    /\ UNCHANGED <<clock, changes, config, updated, eventVars, raced, askedVars>>

----------------------------------------------------------------------------
(* run_schedule_events *)

(* the query compares next_runtime with the minute *)
RunRead(w) ==
    LET due == {e \in enabled : next[e] = clock}
    IN  /\ job[w] = Idle /\ due # {}
        /\ job' = [job EXCEPT ![w] =
                      [at |-> "events", seen |-> config, asked |-> << >>, now |-> clock,
                       due |-> due, left |-> due, starts |-> start,
                       nexts |-> [e \in Events |-> clock]]]
        /\ Began(w)
        /\ UNCHANGED <<clock, changes, faults, config, updated, eventVars, device, raced>>

(* each event starts from the configuration the query loaded *)
MutantAccumulated(j, e) == Setting(Shape[e].field, Shape[e].value)

(* the events of one sensor share its row object: their changes add up *)
Accumulated(j, e) == Overlaid(j.asked, Setting(Shape[e].field, Shape[e].value))

Rescheduled(j, e) ==
    IF Shape[e].repeat THEN NextRuntime(j.starts[e], TRUE, clock) ELSE j.nexts[e]

(* one event: its change is published before it is committed *)
RunEvent(w, e) ==
    /\ job[w].at = "events" /\ e \in job[w].left
    /\ LET j == [job[w] EXCEPT !.asked = Accumulated(job[w], e), !.left = @ \ {e},
                               !.nexts[e] = Rescheduled(job[w], e)]
       IN  Delivered(j) /\ job' = [job EXCEPT ![w] = j]
    /\ UNCHANGED <<clock, changes, config, updated, eventVars, raced, askedVars>>

(* next_runtime is written for the events whose value has changed *)
RunCommit(w) ==
    LET j == job[w]
        moved == {e \in j.due : j.nexts[e] # j.now}
    IN  /\ j.at = "events" /\ j.left = {}
        /\ Store(j) /\ Noted(w)
        /\ next' = [e \in Events |-> IF e \in moved THEN j.nexts[e] ELSE next[e]]
        /\ occurred' = occurred \cup (j.due \X {j.now})
        /\ job' = [job EXCEPT ![w] = Idle]
        /\ UNCHANGED <<clock, changes, faults, start, enabled, edited, device>>

(* the process is killed, or the broker or the time series database refuses *)
(* and the task raises: what it has not committed is rolled back            *)
Abandon(w) ==
    /\ job[w] # Idle /\ Faulty
    /\ job' = [job EXCEPT ![w] = Idle]
    /\ UNCHANGED <<clock, changes, config, updated, eventVars, device, raced, askedVars>>

----------------------------------------------------------------------------
(* The users' changes of an event *)

Edit(e) ==
    /\ e \notin edited
    /\ edited' = edited \cup {e}
    /\ UNCHANGED <<clock, changes, faults, config, updated, job, device, raced, occurred, askedVars>>

(* EventResource.put: the next run is computed from the new start *)
PutEvent(e, s, active) ==
    /\ Edit(e)
    /\ start' = [start EXCEPT ![e] = s]
    /\ next' = [next EXCEPT ![e] = NextRuntime(s, Shape[e].repeat, clock)]
    /\ enabled' = IF active THEN enabled \cup {e} ELSE enabled \ {e}

(* EventResource.delete *)
DeleteEvent(e) ==
    /\ Edit(e)
    /\ enabled' = enabled \ {e}
    /\ UNCHANGED <<start, next>>

----------------------------------------------------------------------------
(* The device: it posts a value and is told whether there is something to  *)
(* fetch, fetches, and acknowledges                                        *)

(* the answer to a posted value *)
Poll ==
    /\ Polls /\ device.at = "idle" /\ updated
    /\ device' = [device EXCEPT !.at = "told"]
    /\ UNCHANGED <<clock, changes, faults, config, updated, eventVars, job, raced, askedVars>>

(* SensorHIDConfigResource.get *)
Fetch ==
    /\ device.at = "told"
    /\ device' = [device EXCEPT !.at = "fetched", !.conf = config]
    /\ raced' = FALSE
    /\ UNCHANGED <<clock, changes, faults, config, updated, eventVars, job, askedVars>>

(* SensorHIDConfigAck.post reads the row *)
AckRead ==
    /\ device.at = "fetched"
    /\ device' = [device EXCEPT !.at = "acking", !.seen = updated]
    /\ UNCHANGED <<clock, changes, faults, config, updated, eventVars, job, raced, askedVars>>

(* and sets config_updated to NULL, whatever was written since *)
AckCommit ==
    /\ device.at = "acking"
    /\ device' = [device EXCEPT !.at = "idle"]
    /\ updated' = (updated /\ ~device.seen)
    /\ UNCHANGED <<clock, changes, faults, config, eventVars, job, raced, askedVars>>

(* the device restarts, or its request is lost on the way *)
Restart ==
    /\ device.at \in {"told", "fetched"} /\ Faulty
    /\ device' = [device EXCEPT !.at = "idle"]
    /\ UNCHANGED <<clock, changes, config, updated, eventVars, job, raced, askedVars>>

----------------------------------------------------------------------------
Work(w) ==
    \/ \E new \in Requests : Put(w, new)
    \/ \E f \in Fields, v \in Values : Actuate(w, f, v)
    \/ Commit(w) \/ Publish(w) \/ RunRead(w) \/ RunCommit(w) \/ Abandon(w)
    \/ \E e \in Events : RunEvent(w, e)

Next ==
    \/ Tick \/ Poll \/ Fetch \/ AckRead \/ AckCommit \/ Restart
    \/ \E w \in Workers : Work(w)
    \/ \E e \in Events : DeleteEvent(e) \/ \E s \in Starts, a \in BOOLEAN : PutEvent(e, s, a)

Spec == Init /\ [][Next]_vars

(* a device posts values, and goes on once it is told *)
Fairness == WF_vars(Poll) /\ WF_vars(Fetch) /\ WF_vars(AckRead) /\ WF_vars(AckCommit)
FairSpec == Spec /\ Fairness

----------------------------------------------------------------------------
(* Properties *)

(* Every variable keeps its type; an event that does not repeat is only    *)
(* ever due at its start.                                                  *)
TypeOK ==
    /\ clock \in Nat /\ changes \in Nat /\ faults \in Nat
    /\ config \in Config /\ updated \in BOOLEAN
    /\ start \in [Events -> Nat] /\ next \in [Events -> Nat \cup {NULL}]
    /\ enabled \subseteq Events /\ edited \subseteq Events
    /\ occurred \subseteq Events \X Nat
    /\ job \in [Workers -> ChangeJob \cup EventJob \cup {Idle}]
    /\ device \in [at: {"idle", "told", "fetched", "acking"}, conf: Config, seen: BOOLEAN]
    /\ raced \in BOOLEAN
    /\ \A e \in Events : ~Shape[e].repeat => next[e] \in {start[e], NULL}

(* A polling device that has nothing to fetch uses the configuration the   *)
(* server has, whatever the order of writes, fetches and acknowledgements, *)
(* except if a write was committed between its fetch and its               *)
(* acknowledgement.                                                        *)
StaleOnlyByRace == Polls /\ ~updated => device.conf = config \/ raced

(* So a polling device learns of every change, or a later one overtook it. *)
Learns == Polls => (device.conf # config ~> (device.conf = config \/ raced))

(* However many write the row at once, each field has the value that the    *)
(* last commit to name it asked for, unless the field was changed while a   *)
(* writer held its copy: that writer undoes the change if it was asked for  *)
(* other fields, or writes nothing if it was asked for what the field had   *)
(* before (process_alert, run_schedule_events, the REST handlers).          *)
AskedStays == \A f \in Fields \ exposed : config[f] = wanted[f]

(* One worker: a device that listens has the configuration of the server   *)
(* as soon as no writer is at work and no message was lost.                *)
QuietIsDelivered ==
    (~Polls /\ faults = 0 /\ \A w \in Workers : job[w] = Idle) => device.conf = config

(* each event that is run sets its field, or another one run with it does *)
TakesEffect ==
    LET ran == {o[1] : o \in occurred' \ occurred}
    IN  \A e \in ran : \E x \in ran : /\ Shape[x].field = Shape[e].field
                                    /\ config'[Shape[e].field] = Shape[x].value

(* One worker: the events a task has run are all in the configuration when *)
(* it commits, or another of them that sets the same field is.             *)
EventsTakeEffect == [][TakesEffect]_vars

IsOccurrence(e, m) ==
    \/ m = start[e]
    \/ Shape[e].repeat /\ m > start[e] /\ (m - start[e]) % Period = 0

(* As long as beat and the workers are on time, an event that nobody edits *)
(* is run at its start and at every period after it.                       *)
EveryOccurrence ==
    \A e \in enabled \ edited : \A m \in 1..(clock - 1) :
        (faults = 0 /\ IsOccurrence(e, m)) => <<e, m>> \in occurred
=============================================================================
