-------------------------- MODULE SensorConfigProofs --------------------------
(***************************************************************************)
(* Theorems about SensorConfig, for every value of its constants: that a   *)
(* polling device is out of date only if it will be told so or a write     *)
(* overtook its acknowledgement, that a field has the value last asked for *)
(* unless a stale copy undid it, and the type invariant; and, for one      *)
(* worker and any number of events, users' edits and faults, what its      *)
(* messages and its scheduled events promise.                              *)
(***************************************************************************)
EXTENDS SensorConfig, TLAPS

(* The device is a record whatever its configuration.                      *)
DeviceRecord == device = [at |-> device.at, conf |-> device.conf, seen |-> device.seen]

(* Between the fetch and the acknowledgement the device uses what it has   *)
(* fetched: that is what AckCommit relies on when it clears the flag.      *)
FetchedIsCurrent ==
    Polls /\ device.at \in {"fetched", "acking"} => device.conf = config \/ raced

Synchronised == DeviceRecord /\ FetchedIsCurrent /\ StaleOnlyByRace

----------------------------------------------------------------------------
(* A commit raises the flag, and is noticed by a device about to           *)
(* acknowledge: Store keeps the invariant, whatever it writes.             *)
LEMMA StoreKeeps ==
    ASSUME NEW j, Synchronised, Store(j), UNCHANGED device
    PROVE  Synchronised'
BY DEF Synchronised, DeviceRecord, FetchedIsCurrent, StaleOnlyByRace, Store

(* No message reaches a device that polls.                                 *)
LEMMA DeliveryKeeps ==
    ASSUME NEW j, Synchronised, Delivered(j), UNCHANGED <<config, updated, raced>>
    PROVE  Synchronised'
<1>1. CASE Polls
  <2>1. UNCHANGED device
    BY <1>1 DEF Delivered, Faulty
  <2> QED BY <2>1 DEF Synchronised, DeviceRecord, FetchedIsCurrent, StaleOnlyByRace
<1>2. CASE ~Polls
  <2>1. DeviceRecord'
    BY DEF Delivered, Synchronised, DeviceRecord
  <2> QED BY <1>2, <2>1 DEF Synchronised, FetchedIsCurrent, StaleOnlyByRace
<1> QED BY <1>1, <1>2

(* Steps that touch neither the configuration nor the device.              *)
LEMMA OthersKeep ==
    ASSUME Synchronised, UNCHANGED <<config, updated, device, raced>>
    PROVE  Synchronised'
BY DEF Synchronised, DeviceRecord, FetchedIsCurrent, StaleOnlyByRace

(* The steps of a worker.                                                  *)
LEMMA WorkKeeps ==
    ASSUME NEW w \in Workers, Synchronised, Work(w)
    PROVE  Synchronised'
<1>1. ASSUME NEW new \in Requests, Put(w, new) PROVE Synchronised'
  BY <1>1, OthersKeep DEF Put, Load
<1>2. ASSUME NEW f \in Fields, NEW v \in Values, Actuate(w, f, v) PROVE Synchronised'
  BY <1>2, OthersKeep DEF Actuate, Load
<1>3. CASE Commit(w)
  BY <1>3, StoreKeeps DEF Commit
<1>4. CASE Publish(w)
  BY <1>4, DeliveryKeeps DEF Publish
<1>5. CASE RunRead(w)
  BY <1>5, OthersKeep DEF RunRead
<1>6. ASSUME NEW e \in Events, RunEvent(w, e) PROVE Synchronised'
  BY <1>6, DeliveryKeeps DEF RunEvent
<1>7. CASE RunCommit(w)
  BY <1>7, StoreKeeps DEF RunCommit
<1>8. CASE Abandon(w)
  BY <1>8, OthersKeep DEF Abandon
<1> QED BY <1>1, <1>2, <1>3, <1>4, <1>5, <1>6, <1>7, <1>8 DEF Work

(* The steps of the device.                                                *)
LEMMA DeviceKeeps ==
    ASSUME Synchronised, Poll \/ Fetch \/ AckRead \/ AckCommit \/ Restart
    PROVE  Synchronised'
<1> USE DEF Synchronised, DeviceRecord, FetchedIsCurrent, StaleOnlyByRace
<1>1. CASE Poll      BY <1>1 DEF Poll
<1>2. CASE Fetch     BY <1>2 DEF Fetch
<1>3. CASE AckRead   BY <1>3 DEF AckRead
<1>4. CASE AckCommit BY <1>4 DEF AckCommit
<1>5. CASE Restart   BY <1>5 DEF Restart
<1> QED BY <1>1, <1>2, <1>3, <1>4, <1>5

(* For any workers, events, fields and interleaving, with lost messages,   *)
(* restarts and stale writes: a polling device that has nothing to fetch   *)
(* has the server's configuration, unless a write was committed between    *)
(* its fetch and its acknowledgement.                                      *)
THEOREM StaleOnlyByRaceHolds == Spec => []StaleOnlyByRace
<1>1. Init => Synchronised
  BY DEF Init, Synchronised, DeviceRecord, FetchedIsCurrent, StaleOnlyByRace
<1>2. Synchronised /\ [Next]_vars => Synchronised'
  <2> SUFFICES ASSUME Synchronised, [Next]_vars PROVE Synchronised'
    OBVIOUS
  <2>1. CASE Tick
    BY <2>1, OthersKeep DEF Tick
  <2>2. CASE Poll \/ Fetch \/ AckRead \/ AckCommit \/ Restart
    BY <2>2, DeviceKeeps
  <2>3. ASSUME NEW w \in Workers, Work(w) PROVE Synchronised'
    BY <2>3, WorkKeeps
  <2>4. ASSUME NEW e \in Events, DeleteEvent(e) PROVE Synchronised'
    BY <2>4, OthersKeep DEF DeleteEvent, Edit
  <2>5. ASSUME NEW e \in Events, NEW s \in Starts, NEW a \in BOOLEAN, PutEvent(e, s, a)
        PROVE  Synchronised'
    BY <2>5, OthersKeep DEF PutEvent, Edit
  <2>6. CASE UNCHANGED vars
    BY <2>6, OthersKeep DEF vars
  <2> QED BY <2>1, <2>2, <2>3, <2>4, <2>5, <2>6 DEF Next
<1>3. Synchronised => StaleOnlyByRace
  BY DEF Synchronised
<1> QED BY <1>1, <1>2, <1>3, PTL DEF Spec

----------------------------------------------------------------------------
(* Types.  An event that does not repeat keeps, in a running task, the     *)
(* next_runtime that the query found, so the task does not write it.       *)
KeepsOnce(j) ==
    j.at = "events" => \A e \in Events : ~Shape[e].repeat => j.nexts[e] = j.now

TypeInv == TypeOK /\ \A w \in Workers : KeepsOnce(job[w])

(* The next run is a minute or NULL, and the start if it never repeats.    *)
LEMMA NextRuntimeType ==
    ASSUME NEW s \in Nat, NEW now \in Nat, NEW repeat \in BOOLEAN
    PROVE  /\ NextRuntime(s, repeat, now) \in Nat \cup {NULL}
           /\ ~repeat => NextRuntime(s, repeat, now) \in {s, NULL}
<1>1. CASE s > now
  BY <1>1 DEF NextRuntime
<1>2. CASE ~(s > now) /\ repeat
  <2> DEFINE n == (now - s) \div Period + 1
  <2>1. n \in Nat
    BY <1>2, TimeAssumption
  <2>2. s + Period * n \in Nat
    <3> HIDE DEF n
    <3> QED BY <2>1, TimeAssumption
  <2> QED BY <1>2, <2>2 DEF NextRuntime
<1>3. CASE ~(s > now) /\ ~repeat
  BY <1>3 DEF NextRuntime
<1> QED BY <1>1, <1>2, <1>3

(* A change laid over a configuration is a configuration.                  *)
LEMMA CopyType ==
    ASSUME NEW j, j.asked \in Change, j.seen \in Config
    PROVE  Copy(j) \in Config
BY DEF Copy, Overlaid, Change, Config

(* Another event's field laid over a change is a change.                   *)
LEMMA AccumulatedType ==
    ASSUME NEW j, j.asked \in Change, NEW e \in Events
    PROVE  Accumulated(j, e) \in Change
<1>1. Shape[e].field \in Fields /\ Shape[e].value \in Values
  BY ShapeAssumption DEF EventShape
<1>2. PICK S \in SUBSET Fields : j.asked \in [S -> Values]
  BY DEF Change
<1>3. Accumulated(j, e) \in [S \cup {Shape[e].field} -> Values]
  BY <1>1, <1>2 DEF Accumulated, Overlaid, Setting
<1>4. S \cup {Shape[e].field} \in SUBSET Fields
  BY <1>1, <1>2
<1> QED BY <1>3, <1>4 DEF Change

(* What a writer stores has the type of a configuration.                   *)
LEMMA StoreType ==
    ASSUME NEW j \in ChangeJob \cup EventJob, config \in Config, raced \in BOOLEAN, Store(j)
    PROVE  config' \in Config /\ updated' \in BOOLEAN /\ raced' \in BOOLEAN
<1>1. Copy(j) \in Config
  BY CopyType DEF ChangeJob, EventJob
<1> QED BY <1>1 DEF Store


(* Facts about the job of a worker that is at work.                        *)
LEMMA JobType ==
    ASSUME NEW w \in Workers, TypeInv
    PROVE  /\ job[w].at \in {"loaded", "publish"} => job[w] \in ChangeJob
           /\ job[w].at = "events" => job[w] \in EventJob
           /\ job[w] = Idle <=> job[w].at = "idle"
           /\ job[w].at \in {"idle", "loaded", "publish", "events"}
BY DEF TypeInv, TypeOK, ChangeJob, EventJob, Idle

(* A worker that is done leaves a state of the right type, if what it has  *)
(* written is.                                                             *)
LEMMA IdleJob ==
    ASSUME NEW w \in Workers, TypeInv, job' = [job EXCEPT ![w] = Idle],
           UNCHANGED <<clock, start, enabled, edited>>,
           changes' \in Nat, faults' \in Nat, config' \in Config, updated' \in BOOLEAN,
           next' \in [Events -> Nat \cup {NULL}], occurred' \subseteq Events \X Nat,
           \A e \in Events : ~Shape[e].repeat => next'[e] \in {start[e], NULL},
           device' \in [at: {"idle", "told", "fetched", "acking"}, conf: Config, seen: BOOLEAN],
           raced' \in BOOLEAN
    PROVE  TypeInv'
<1>1. job' \in [Workers -> ChangeJob \cup EventJob \cup {Idle}]
  BY DEF TypeInv, TypeOK
<1>2. ASSUME NEW x \in Workers PROVE KeepsOnce(job[x])'
  BY DEF TypeInv, TypeOK, KeepsOnce, Idle
<1> QED BY <1>1, <1>2 DEF TypeInv, TypeOK

(* A message that is delivered is a configuration.                         *)
LEMMA DeliveredType ==
    ASSUME TypeInv, NEW j \in ChangeJob \cup EventJob, Delivered(j)
    PROVE  /\ faults' \in Nat
           /\ device' \in [at: {"idle", "told", "fetched", "acking"}, conf: Config, seen: BOOLEAN]
<1>1. Told(j) \in Config
  BY CopyType DEF Told, ChangeJob, EventJob
<1> QED BY <1>1 DEF Delivered, Faulty, TypeInv, TypeOK

(* A writer that has read the row holds a configuration and a change.      *)
LEMMA LoadType ==
    ASSUME NEW w \in Workers, NEW new \in Change, TypeInv, Load(w, new)
    PROVE  TypeInv'
<1> DEFINE j == [at |-> "loaded", seen |-> config, asked |-> new]
<1>1. j \in ChangeJob /\ KeepsOnce(j)
  BY DEF TypeInv, TypeOK, ChangeJob, KeepsOnce
<1>2. job' = [job EXCEPT ![w] = j]
  BY DEF Load
<1>3. changes' \in Nat /\ UNCHANGED <<clock, faults, config, updated, eventVars, device, raced>>
  BY DEF Load, TypeInv, TypeOK
<1> HIDE DEF j
<1>4. job' \in [Workers -> ChangeJob \cup EventJob \cup {Idle}]
  BY <1>1, <1>2 DEF TypeInv, TypeOK
<1>5. ASSUME NEW x \in Workers PROVE KeepsOnce(job[x])'
  BY <1>1, <1>2 DEF TypeInv, TypeOK, KeepsOnce
<1> QED BY <1>3, <1>4, <1>5 DEF TypeInv, TypeOK, eventVars

(* The steps of a worker.                                                 *)
LEMMA WorkType ==
    ASSUME NEW w \in Workers, TypeInv, Work(w)
    PROVE  TypeInv'
<1>1. ASSUME NEW new \in Change, Put(w, new) PROVE TypeInv'
  BY <1>1, LoadType DEF Put
<1>2. ASSUME NEW f \in Fields, NEW v \in Values, Actuate(w, f, v) PROVE TypeInv'
  <2>1. Setting(f, v) \in [{f} -> Values] /\ {f} \in SUBSET Fields
    BY DEF Setting
  <2>2. Setting(f, v) \in Change
    BY <2>1 DEF Change
  <2> QED BY <1>2, <2>2, LoadType DEF Actuate
<1>3. CASE Commit(w)
  <2> DEFINE j == [job[w] EXCEPT !.at = "publish"]
  <2>1. job[w] \in ChangeJob
    BY <1>3, JobType DEF Commit
  <2>2. j \in ChangeJob /\ KeepsOnce(j)
    BY <2>1 DEF ChangeJob, KeepsOnce
  <2>3. job' = [job EXCEPT ![w] = j]
    BY <1>3 DEF Commit
  <2>4. config' \in Config /\ updated' \in BOOLEAN /\ raced' \in BOOLEAN
    BY <1>3, <2>1, StoreType DEF Commit, TypeInv, TypeOK
  <2> HIDE DEF j
  <2>5. job' \in [Workers -> ChangeJob \cup EventJob \cup {Idle}]
    BY <2>2, <2>3 DEF TypeInv, TypeOK
  <2>6. ASSUME NEW x \in Workers PROVE KeepsOnce(job[x])'
    BY <2>2, <2>3 DEF TypeInv, TypeOK, KeepsOnce
  <2> QED BY <1>3, <2>4, <2>5, <2>6 DEF Commit, TypeInv, TypeOK, eventVars
<1>4. CASE Publish(w)
  <2>1. job[w] \in ChangeJob
    BY <1>4, JobType DEF Publish
  <2>2. /\ faults' \in Nat
        /\ device' \in [at: {"idle", "told", "fetched", "acking"}, conf: Config, seen: BOOLEAN]
    BY <1>4, <2>1, DeliveredType DEF Publish
  <2> QED BY <1>4, <2>2, IdleJob DEF Publish, eventVars, TypeInv, TypeOK
<1>5. CASE RunRead(w)
  <2> DEFINE due == {e \in enabled : next[e] = clock}
             j == [at |-> "events", seen |-> config, asked |-> << >>, now |-> clock,
                   due |-> due, left |-> due, starts |-> start,
                   nexts |-> [e \in Events |-> clock]]
  <2>1. << >> \in Change
    <3>1. << >> \in [{} -> Values]
      OBVIOUS
    <3> QED BY <3>1 DEF Change
  <2>2. j \in EventJob /\ KeepsOnce(j)
    BY <2>1 DEF TypeInv, TypeOK, EventJob, KeepsOnce
  <2>3. job' = [job EXCEPT ![w] = j]
    BY <1>5 DEF RunRead
  <2> HIDE DEF j
  <2>4. job' \in [Workers -> ChangeJob \cup EventJob \cup {Idle}]
    BY <2>2, <2>3 DEF TypeInv, TypeOK
  <2>5. ASSUME NEW x \in Workers PROVE KeepsOnce(job[x])'
    BY <2>2, <2>3 DEF TypeInv, TypeOK, KeepsOnce
  <2> QED BY <1>5, <2>4, <2>5 DEF RunRead, TypeInv, TypeOK, eventVars
<1>6. ASSUME NEW e \in Events, RunEvent(w, e) PROVE TypeInv'
  <2> DEFINE j == [job[w] EXCEPT !.asked = Accumulated(job[w], e), !.left = @ \ {e},
                                 !.nexts[e] = Rescheduled(job[w], e)]
  <2>1. job[w] \in EventJob /\ KeepsOnce(job[w])
    BY <1>6, JobType DEF RunEvent, TypeInv
  <2>2. Accumulated(job[w], e) \in Change
    BY <2>1, AccumulatedType DEF EventJob
  <2>3. /\ Rescheduled(job[w], e) \in Nat \cup {NULL}
        /\ ~Shape[e].repeat => Rescheduled(job[w], e) = job[w].nexts[e]
    BY <2>1, NextRuntimeType DEF Rescheduled, EventJob, TypeInv, TypeOK
  <2>4. j \in EventJob /\ KeepsOnce(j)
    BY <2>1, <2>2, <2>3 DEF EventJob, KeepsOnce
  <2>5. job' = [job EXCEPT ![w] = j] /\ Delivered(j)
    BY <1>6 DEF RunEvent
  <2> HIDE DEF j
  <2>6. /\ faults' \in Nat
        /\ device' \in [at: {"idle", "told", "fetched", "acking"}, conf: Config, seen: BOOLEAN]
    BY <2>4, <2>5, DeliveredType
  <2>7. job' \in [Workers -> ChangeJob \cup EventJob \cup {Idle}]
    BY <2>4, <2>5 DEF TypeInv, TypeOK
  <2>8. ASSUME NEW x \in Workers PROVE KeepsOnce(job[x])'
    BY <2>4, <2>5 DEF TypeInv, TypeOK, KeepsOnce
  <2> QED BY <1>6, <2>6, <2>7, <2>8 DEF RunEvent, TypeInv, TypeOK, eventVars
<1>7. CASE RunCommit(w)
  <2> DEFINE j == job[w]
             moved == {e \in j.due : j.nexts[e] # j.now}
  <2>1. j \in EventJob /\ KeepsOnce(j)
    BY <1>7, JobType DEF RunCommit, TypeInv
  <2>2. config' \in Config /\ updated' \in BOOLEAN /\ raced' \in BOOLEAN
    BY <1>7, <2>1, StoreType DEF RunCommit, TypeInv, TypeOK
  <2>3. next' = [e \in Events |-> IF e \in moved THEN j.nexts[e] ELSE next[e]]
    BY <1>7 DEF RunCommit
  <2>4. next' \in [Events -> Nat \cup {NULL}]
    BY <2>1, <2>3 DEF EventJob, TypeInv, TypeOK
  <2>5. \A e \in Events : ~Shape[e].repeat => next'[e] \in {start[e], NULL}
    BY <1>7, <2>1, <2>3 DEF RunCommit, EventJob, KeepsOnce, TypeInv, TypeOK
  <2>6. occurred' \subseteq Events \X Nat
    BY <1>7, <2>1 DEF RunCommit, EventJob, TypeInv, TypeOK
  <2> QED BY <1>7, <2>2, <2>4, <2>5, <2>6, IdleJob DEF RunCommit, TypeInv, TypeOK
<1>8. CASE Abandon(w)
  <2>1. faults' \in Nat
    BY <1>8 DEF Abandon, Faulty, TypeInv, TypeOK
  <2>2. /\ job' = [job EXCEPT ![w] = Idle]
        /\ UNCHANGED <<clock, changes, config, updated, start, next, enabled, edited, occurred,
                       device, raced>>
    BY <1>8 DEF Abandon, eventVars
  <2>3. /\ changes' \in Nat /\ config' \in Config /\ updated' \in BOOLEAN
        /\ next' \in [Events -> Nat \cup {NULL}] /\ occurred' \subseteq Events \X Nat
        /\ device' \in [at: {"idle", "told", "fetched", "acking"}, conf: Config, seen: BOOLEAN]
        /\ raced' \in BOOLEAN
    BY <2>2 DEF TypeInv, TypeOK
  <2>4. \A e \in Events : ~Shape[e].repeat => next'[e] \in {start[e], NULL}
    BY <2>2 DEF TypeInv, TypeOK
  <2> QED BY <2>1, <2>2, <2>3, <2>4, IdleJob
<1> QED BY <1>1, <1>2, <1>3, <1>4, <1>5, <1>6, <1>7, <1>8, RequestsAssumption DEF Work

(* The steps of the users.                                                 *)
LEMMA EditType ==
    ASSUME NEW e \in Events, TypeInv,
           DeleteEvent(e) \/ \E s \in Starts, a \in BOOLEAN : PutEvent(e, s, a)
    PROVE  TypeInv'
<1>1. CASE DeleteEvent(e)
  BY <1>1 DEF DeleteEvent, Edit, TypeInv, TypeOK, KeepsOnce
<1>2. ASSUME NEW s \in Starts, NEW a \in BOOLEAN, PutEvent(e, s, a) PROVE TypeInv'
  <2> DEFINE n == NextRuntime(s, Shape[e].repeat, clock)
  <2>1. s \in Nat /\ clock \in Nat /\ Shape[e].repeat \in BOOLEAN
    BY TimeAssumption, ShapeAssumption DEF EventShape, TypeInv, TypeOK
  <2>2. n \in Nat \cup {NULL} /\ (~Shape[e].repeat => n \in {s, NULL})
    BY <2>1, NextRuntimeType
  <2>3. next' = [next EXCEPT ![e] = n] /\ start' = [start EXCEPT ![e] = s]
    BY <1>2 DEF PutEvent
  <2> HIDE DEF n
  <2>4. /\ start' \in [Events -> Nat] /\ next' \in [Events -> Nat \cup {NULL}]
        /\ \A x \in Events : ~Shape[x].repeat => next'[x] \in {start'[x], NULL}
    BY <2>1, <2>2, <2>3 DEF TypeInv, TypeOK
  <2>5. edited' \subseteq Events /\ enabled' \subseteq Events
    BY <1>2 DEF PutEvent, Edit, TypeInv, TypeOK
  <2>6. UNCHANGED <<clock, changes, faults, config, updated, job, device, raced, occurred>>
    BY <1>2 DEF PutEvent, Edit
  <2> QED BY <2>4, <2>5, <2>6 DEF TypeInv, TypeOK, KeepsOnce
<1> QED BY <1>1, <1>2

LEMMA InitType == Init => TypeInv
<1> SUFFICES ASSUME Init PROVE TypeInv
  OBVIOUS
<1>1. start \in [Events -> Nat]
  BY TimeAssumption DEF Init
<1>2. ASSUME NEW e \in Events
      PROVE  /\ next[e] = NextRuntime(start[e], Shape[e].repeat, 0)
             /\ next[e] \in Nat \cup {NULL}
             /\ ~Shape[e].repeat => next[e] \in {start[e], NULL}
  <2>1. next[e] = NextRuntime(start[e], Shape[e].repeat, 0)
    BY DEF Init
  <2>2. start[e] \in Nat /\ Shape[e].repeat \in BOOLEAN
    BY <1>1, ShapeAssumption DEF EventShape
  <2> QED BY <2>1, <2>2, NextRuntimeType
<1>3. next \in [Events -> Nat \cup {NULL}]
  <2>1. next = [e \in Events |-> NextRuntime(start[e], Shape[e].repeat, 0)]
    BY DEF Init
  <2> QED BY <1>2, <2>1
<1>4. config \in Config
  BY DEF Init, Config
<1> QED BY <1>1, <1>2, <1>3, <1>4 DEF Init, TypeInv, TypeOK, KeepsOnce, Idle

LEMMA NextType == TypeInv /\ [Next]_vars => TypeInv'
<1> SUFFICES ASSUME TypeInv, [Next]_vars PROVE TypeInv'
  OBVIOUS
<1>1. CASE Tick
  BY <1>1 DEF Tick, Faulty, eventVars, TypeInv, TypeOK, KeepsOnce
<1>2. CASE Poll
  BY <1>2 DEF Poll, eventVars, TypeInv, TypeOK, KeepsOnce
<1>3. CASE Fetch
  BY <1>3 DEF Fetch, eventVars, TypeInv, TypeOK, KeepsOnce
<1>4. CASE AckRead
  BY <1>4 DEF AckRead, eventVars, TypeInv, TypeOK, KeepsOnce
<1>5. CASE AckCommit
  BY <1>5 DEF AckCommit, eventVars, TypeInv, TypeOK, KeepsOnce
<1>6. CASE Restart
  BY <1>6 DEF Restart, Faulty, eventVars, TypeInv, TypeOK, KeepsOnce
<1>7. ASSUME NEW w \in Workers, Work(w) PROVE TypeInv'
  BY <1>7, WorkType
<1>8. ASSUME NEW e \in Events,
             DeleteEvent(e) \/ \E s \in Starts, a \in BOOLEAN : PutEvent(e, s, a)
      PROVE  TypeInv'
  BY <1>8, EditType
<1>9. CASE UNCHANGED vars
  BY <1>9 DEF vars, eventVars, TypeInv, TypeOK, KeepsOnce
<1> QED BY <1>1, <1>2, <1>3, <1>4, <1>5, <1>6, <1>7, <1>8, <1>9 DEF Next

(* Every variable keeps its type, for any constants; so an event that does *)
(* not repeat is never scheduled for another time than its start, whoever  *)
(* edits it while it is run.                                               *)
THEOREM TypeCorrect == Spec => []TypeOK
<1>1. TypeInv => TypeOK
  BY DEF TypeInv
<1> QED BY <1>1, InitType, NextType, PTL DEF Spec

----------------------------------------------------------------------------
(* One worker, w.  Nobody writes the configuration between its read of the *)
(* row and its commit.                                                     *)
Alone(w) ==
    /\ job[w].at \in {"loaded", "events"} => job[w].seen = config
    /\ job[w].at = "publish" => Copy(job[w]) = config

(* A change of nothing leaves the configuration as it is.                  *)
LEMMA NothingAsked ==
    ASSUME NEW j, j.seen \in Config, j.asked = << >>
    PROVE  Copy(j) = j.seen
<1>1. << >> \in [{} -> Values]
  OBVIOUS
<1>2. DOMAIN j.asked = {}
  BY <1>1
<1> QED BY <1>2 DEF Copy, Overlaid, Config

(* Then a commit writes the copy, whether the column is written or not.    *)
LEMMA StoresCopy ==
    ASSUME NEW j, j.seen = config, Store(j)
    PROVE  config' = Copy(j)
BY DEF Store

(* The steps of the clock, the users and the device.                       *)
Others ==
    \/ Tick \/ Poll \/ Fetch \/ AckRead \/ AckCommit \/ Restart
    \/ \E e \in Events : DeleteEvent(e) \/ \E s \in Starts, a \in BOOLEAN : PutEvent(e, s, a)
    \/ UNCHANGED vars

LEMMA Steps ==
    ASSUME NEW w, Workers = {w}, [Next]_vars
    PROVE  Work(w) \/ Others
BY DEF Next, Others

LEMMA OthersLeave == Others => UNCHANGED <<config, job>>
BY DEF Others, Tick, Poll, Fetch, AckRead, AckCommit, Restart, DeleteEvent, PutEvent, Edit, vars

(* What each step of the worker does to its job.                           *)
LEMMA WorkSteps ==
    ASSUME NEW w \in Workers, TypeInv, Work(w)
    PROVE  \/ \E new \in Change :
                /\ job[w] = Idle
                /\ job'[w] = [at |-> "loaded", seen |-> config, asked |-> new]
                /\ UNCHANGED <<clock, faults, config, updated, eventVars, device, raced>>
           \/ Commit(w) /\ job'[w] = [job[w] EXCEPT !.at = "publish"]
           \/ Publish(w) /\ job'[w] = Idle
           \/ RunRead(w)
           \/ RunCommit(w) /\ job'[w] = Idle
           \/ Abandon(w) /\ job'[w] = Idle
           \/ \E e \in Events : RunEvent(w, e)
<1>1. ASSUME NEW new \in Change, Load(w, new)
      PROVE  /\ job[w] = Idle
             /\ job'[w] = [at |-> "loaded", seen |-> config, asked |-> new]
             /\ UNCHANGED <<clock, faults, config, updated, eventVars, device, raced>>
  BY <1>1 DEF Load, TypeInv, TypeOK
<1>2. ASSUME NEW f \in Fields, NEW v \in Values PROVE Setting(f, v) \in Change
  <2>1. Setting(f, v) \in [{f} -> Values] /\ {f} \in SUBSET Fields
    BY DEF Setting
  <2> QED BY <2>1 DEF Change
<1>3. /\ Commit(w) => job'[w] = [job[w] EXCEPT !.at = "publish"]
      /\ Publish(w) \/ RunCommit(w) \/ Abandon(w) => job'[w] = Idle
  BY DEF Commit, Publish, RunCommit, Abandon, TypeInv, TypeOK
<1> QED BY <1>1, <1>2, <1>3, RequestsAssumption DEF Work, Put, Actuate

LEMMA AloneSteps ==
    ASSUME NEW w \in Workers, TypeInv, Alone(w), Work(w)
    PROVE  Alone(w)'
<1>1. ASSUME NEW new \in Change, job'[w] = [at |-> "loaded", seen |-> config, asked |-> new],
             UNCHANGED config
      PROVE  Alone(w)'
  BY <1>1 DEF Alone
<1>2. CASE Commit(w) /\ job'[w] = [job[w] EXCEPT !.at = "publish"]
  <2>1. job[w].at = "loaded" /\ job[w] \in ChangeJob /\ Store(job[w])
    BY <1>2, JobType DEF Commit
  <2>2. config' = Copy(job[w])
    BY <2>1, StoresCopy DEF Alone
  <2>3. job'[w].at = "publish" /\ Copy(job[w])' = Copy(job[w])
    BY <1>2, <2>1 DEF Copy, ChangeJob
  <2> QED BY <2>2, <2>3 DEF Alone
<1>3. CASE job'[w] = Idle
  BY <1>3 DEF Alone, Idle
<1>4. CASE RunRead(w)
  BY <1>4 DEF RunRead, Alone, TypeInv, TypeOK
<1>5. ASSUME NEW e \in Events, RunEvent(w, e) PROVE Alone(w)'
  <2>1. job[w] \in EventJob
    BY <1>5, JobType DEF RunEvent
  <2>2. job'[w].at = "events" /\ job'[w].seen = job[w].seen /\ UNCHANGED config
    BY <1>5, <2>1 DEF RunEvent, EventJob, TypeInv, TypeOK
  <2> QED BY <1>5, <2>2 DEF RunEvent, Alone
<1> QED BY <1>1, <1>2, <1>3, <1>4, <1>5, WorkSteps

LEMMA AloneInv ==
    ASSUME NEW w, Workers = {w}
    PROVE  /\ Init => Alone(w)
           /\ TypeInv /\ Alone(w) /\ [Next]_vars => Alone(w)'
<1>1. Init => Alone(w)
  BY DEF Init, Alone, Idle
<1>2. TypeInv /\ Alone(w) /\ [Next]_vars => Alone(w)'
  <2>1. UNCHANGED <<config, job>> /\ Alone(w) => Alone(w)'
    BY DEF Alone, Copy
  <2> QED BY <2>1, Steps, AloneSteps, OthersLeave
<1> QED BY <1>1, <1>2

(* A listening device hears of each copy that is published, and a running  *)
(* task has published all it has gathered.                                 *)
Heard(w) ==
    ~Polls =>
      /\ device.at = "idle"
      /\ faults = 0 => /\ job[w].at \in {"idle", "loaded"} => device.conf = config
                       /\ job[w].at = "events" => device.conf = Copy(job[w])

LEMMA HeardSteps ==
    ASSUME NEW w \in Workers, TypeInv, Alone(w), Heard(w), Work(w), ~Polls
    PROVE  Heard(w)'
<1> USE DEF Heard
<1>1. faults \in Nat /\ DeviceRecord
  BY DEF TypeInv, TypeOK, DeviceRecord
<1>2. ASSUME NEW new \in Change, job[w] = Idle,
             job'[w] = [at |-> "loaded", seen |-> config, asked |-> new],
             UNCHANGED <<faults, config, device>>
      PROVE  Heard(w)'
  BY <1>2 DEF Idle
<1>3. CASE Commit(w) /\ job'[w] = [job[w] EXCEPT !.at = "publish"]
  <2>1. job'[w].at = "publish" /\ UNCHANGED device
    BY <1>3, JobType DEF Commit, ChangeJob
  <2> QED BY <2>1
<1>4. CASE Publish(w) /\ job'[w] = Idle
  <2>1. Copy(job[w]) = config /\ UNCHANGED config
    BY <1>4 DEF Publish, Alone
  <2>2. device'.at = "idle" /\ (faults' = 0 => device'.conf = config)
    BY <1>1, <1>4, <2>1 DEF Publish, Delivered, Told, Faulty, DeviceRecord
  <2> QED BY <1>4, <2>1, <2>2 DEF Idle
<1>5. CASE RunRead(w)
  <2>1. /\ job[w] = Idle /\ UNCHANGED <<faults, config, device>>
        /\ job'[w].at = "events" /\ job'[w].seen = config /\ job'[w].asked = << >>
    BY <1>5 DEF RunRead, TypeInv, TypeOK
  <2>2. Copy(job[w])' = config
    <3>1. config \in Config
      BY DEF TypeInv, TypeOK
    <3>2. Copy(job'[w]) = config
      BY <2>1, <3>1, NothingAsked
    <3> QED BY <3>2 DEF Copy
  <2> QED BY <2>1, <2>2 DEF Idle
<1>6. CASE RunCommit(w) /\ job'[w] = Idle
  <2>1. job[w].at = "events" /\ UNCHANGED <<faults, device>> /\ Store(job[w])
    BY <1>6 DEF RunCommit
  <2>2. config' = Copy(job[w])
    BY <2>1, StoresCopy DEF Alone
  <2> QED BY <1>6, <2>1, <2>2 DEF Idle
<1>7. CASE Abandon(w)
  BY <1>1, <1>7 DEF Abandon, Faulty
<1>8. ASSUME NEW e \in Events, RunEvent(w, e) PROVE Heard(w)'
  <2>1. job[w] \in EventJob
    BY <1>8, JobType DEF RunEvent
  <2>2. job'[w].at = "events" /\ Delivered(job'[w])
    BY <1>8, <2>1 DEF RunEvent, EventJob, TypeInv, TypeOK
  <2>3. device'.at = "idle" /\ (faults' = 0 => device'.conf = Copy(job[w])')
    BY <1>1, <2>2 DEF Delivered, Told, Faulty, DeviceRecord, Copy
  <2> QED BY <2>2, <2>3
<1> QED BY <1>2, <1>3, <1>4, <1>5, <1>6, <1>7, <1>8, WorkSteps

LEMMA HeardInv ==
    ASSUME NEW w, Workers = {w}
    PROVE  /\ Init => Heard(w)
           /\ TypeInv /\ Alone(w) /\ Heard(w) /\ [Next]_vars => Heard(w)'
<1>1. Init => Heard(w)
  BY DEF Init, Heard, Idle
<1>2. ASSUME TypeInv, Heard(w), Others, ~Polls PROVE Heard(w)'
  <2>1. UNCHANGED <<config, job, device>> /\ (faults' = 0 => faults = 0)
    BY <1>2 DEF Heard, Others, Tick, Poll, Fetch, AckRead, AckCommit, Restart, DeleteEvent,
                PutEvent, Edit, Faulty, vars, TypeInv, TypeOK
  <2> QED BY <1>2, <2>1 DEF Heard, Copy
<1> QED BY <1>1, <1>2, Steps, HeardSteps DEF Heard

(* With one worker, for any events, fields and changes: a device that      *)
(* listens has the server's configuration as soon as no writer is at work  *)
(* and no message was lost, though each event of a minute publishes before *)
(* any is committed.                                                       *)
THEOREM QuietIsDeliveredHolds ==
    ASSUME NEW w, Workers = {w}
    PROVE  Spec => []QuietIsDelivered
<1>1. Heard(w) => QuietIsDelivered
  BY DEF Heard, QuietIsDelivered, Idle
<1> QED BY <1>1, AloneInv, HeardInv, InitType, NextType, PTL DEF Spec

----------------------------------------------------------------------------
(* Any number of workers.  A copy differs from the row only in the fields  *)
(* that its worker is known to have missed.                                *)
Holds(w) ==
    job[w].at \in {"loaded", "events"} =>
        \A f \in Fields \ missed[w] : job[w].seen[f] = config[f]

AskedInv ==
    /\ missed \in [Workers -> SUBSET Fields] /\ DOMAIN wanted = Fields
    /\ \A w \in Workers : Holds(w)
    /\ AskedStays

(* A copy, field by field.                                                 *)
LEMMA CopyAt ==
    ASSUME NEW j, j.seen \in Config, NEW f \in Fields
    PROVE  Copy(j)[f] = IF f \in DOMAIN j.asked THEN j.asked[f] ELSE j.seen[f]
BY DEF Copy, Overlaid, Config

(* What w has not missed, its commit leaves as it is or sets as it was     *)
(* asked to.                                                               *)
LEMMA CommitAsked ==
    ASSUME NEW w \in Workers, TypeInv, AskedInv, Store(job[w]), Noted(w),
           job[w].at \in {"loaded", "events"}, job'[w].at \notin {"loaded", "events"},
           \A x \in Workers \ {w} : job'[x] = job[x]
    PROVE  AskedInv'
<1> DEFINE j == job[w]
           asked == DOMAIN j.asked
<1>1. job[w].seen \in Config /\ job[w].asked \in Change
  BY JobType DEF ChangeJob, EventJob
<1>2. asked \subseteq Fields
  BY <1>1 DEF Change
<1>3. DOMAIN wanted' = Fields /\ missed' \in [Workers -> SUBSET Fields]
  BY <1>2 DEF Noted, Overlaid, AskedInv
<1>4. ASSUME NEW x \in Workers PROVE Holds(x)'
  <2>1. CASE x = w
    BY <2>1 DEF Holds
  <2>2. CASE x # w
    <3>1. missed'[x] = missed[x] \cup {f \in Fields : config'[f] # config[f]} /\ job'[x] = job[x]
      BY <2>2 DEF Noted
    <3> QED BY <3>1 DEF AskedInv, Holds
  <2> QED BY <2>1, <2>2
<1>5. ASSUME NEW f \in Fields, f \notin exposed' PROVE config'[f] = wanted'[f]
  <2>1. wanted'[f] = IF f \in asked THEN j.asked[f] ELSE wanted[f]
    BY DEF Noted, Overlaid, AskedInv
  <2>2. f \notin missed[w] => j.seen[f] = config[f]
    BY DEF AskedInv, Holds
  <2>3. f \notin asked => f \notin exposed /\ config[f] = wanted[f]
    BY <1>5 DEF Noted, AskedInv, AskedStays
  <2>4. Copy(j)[f] = IF f \in asked THEN j.asked[f] ELSE j.seen[f]
    BY <1>1, CopyAt
  <2>5. CASE Copy(j) = j.seen
    <3>1. config' = config
      BY <2>5 DEF Store
    <3>2. f \in asked => f \notin missed[w]
      BY <1>5, <2>5 DEF Noted
    <3>3. f \in asked => j.asked[f] = j.seen[f]
      BY <2>4, <2>5
    <3> QED BY <2>1, <2>2, <2>3, <3>1, <3>2, <3>3
  <2>6. CASE Copy(j) # j.seen
    <3>1. config' = Copy(j)
      BY <2>6 DEF Store
    <3>2. f \notin asked => f \notin missed[w]
      BY <1>5, <2>6 DEF Noted
    <3> QED BY <2>1, <2>2, <2>3, <2>4, <3>1, <3>2
  <2> QED BY <2>5, <2>6
<1> QED BY <1>3, <1>4, <1>5 DEF AskedInv, AskedStays

(* A worker that has read the row has missed nothing.                      *)
LEMMA ReadAsked ==
    ASSUME NEW w \in Workers, AskedInv, Began(w), UNCHANGED config, job'[w].seen = config,
           \A x \in Workers \ {w} : job'[x] = job[x]
    PROVE  AskedInv'
<1>1. missed' \in [Workers -> SUBSET Fields] /\ wanted' = wanted /\ exposed' = exposed
  BY DEF AskedInv, Began
<1>2. ASSUME NEW x \in Workers PROVE Holds(x)'
  <2>1. x # w => missed'[x] = missed[x] /\ job'[x] = job[x]
    BY DEF Began, AskedInv
  <2> QED BY <2>1 DEF Holds, AskedInv
<1> QED BY <1>1, <1>2 DEF AskedInv, AskedStays

(* Steps that neither read nor write the row.                              *)
LEMMA OtherAsked ==
    ASSUME AskedInv, UNCHANGED <<config, askedVars>>,
           \A w \in Workers : \/ job'[w] = job[w] \/ job'[w].at = "idle"
                              \/ job'[w].at = job[w].at /\ job'[w].seen = job[w].seen
    PROVE  AskedInv'
BY DEF AskedInv, Holds, AskedStays, askedVars

LEMMA WorkAsked ==
    ASSUME NEW w \in Workers, TypeInv, AskedInv, Work(w)
    PROVE  AskedInv'
<1>1. /\ DOMAIN job = Workers
      /\ \A v : \A x \in Workers \ {w} : [job EXCEPT ![w] = v][x] = job[x]
  BY DEF TypeInv, TypeOK
<1>2. ASSUME NEW new, Load(w, new) PROVE AskedInv'
  BY <1>1, <1>2, ReadAsked DEF Load
<1>3. CASE Commit(w)
  <2>1. job[w] \in ChangeJob
    BY <1>3, JobType DEF Commit
  <2>2. job'[w].at = "publish" /\ \A x \in Workers \ {w} : job'[x] = job[x]
    BY <1>1, <1>3, <2>1 DEF Commit, ChangeJob
  <2> QED BY <1>3, <2>2, CommitAsked DEF Commit
<1>4. CASE RunRead(w)
  BY <1>1, <1>4, ReadAsked DEF RunRead
<1>5. ASSUME NEW e \in Events, RunEvent(w, e) PROVE AskedInv'
  <2>1. job[w] \in EventJob
    BY <1>5, JobType DEF RunEvent
  <2>2. job'[w].at = job[w].at /\ job'[w].seen = job[w].seen /\ \A x \in Workers \ {w} : job'[x] = job[x]
    BY <1>1, <1>5, <2>1 DEF RunEvent, EventJob
  <2> QED BY <1>5, <2>2, OtherAsked DEF RunEvent
<1>6. CASE RunCommit(w)
  BY <1>1, <1>6, CommitAsked DEF RunCommit, Idle
<1>7. CASE Publish(w) \/ Abandon(w)
  BY <1>1, <1>7, OtherAsked DEF Publish, Abandon, Idle
<1> QED BY <1>2, <1>3, <1>4, <1>5, <1>6, <1>7 DEF Work, Put, Actuate

(* For any number of workers, events, fields and changes, however their    *)
(* reads and commits interleave and whoever is killed: a field has the     *)
(* value last asked for, unless a copy read before its last change undid   *)
(* it or found nothing to write.                                           *)
THEOREM AskedStaysHolds == Spec => []AskedStays
<1>1. Init => AskedInv
  BY DEF Init, AskedInv, Holds, AskedStays, Idle
<1>2. TypeInv /\ AskedInv /\ [Next]_vars => AskedInv'
  <2> SUFFICES ASSUME TypeInv, AskedInv, [Next]_vars PROVE AskedInv'
    OBVIOUS
  <2>1. CASE Others
    <3>1. UNCHANGED <<config, job, askedVars>>
      BY <2>1 DEF Others, Tick, Poll, Fetch, AckRead, AckCommit, Restart, DeleteEvent, PutEvent,
                  Edit, vars
    <3> QED BY <3>1, OtherAsked
  <2> QED BY <2>1, WorkAsked DEF Next, Others
<1>3. AskedInv => AskedStays
  BY DEF AskedInv
<1> QED BY <1>1, <1>2, <1>3, InitType, NextType, PTL DEF Spec

----------------------------------------------------------------------------
(* What get_next_runtime promises, by arithmetic alone: the next run is an *)
(* occurrence, later than now, and none is in between.                     *)
LEMMA Division ==
    ASSUME NEW p \in Nat \ {0}, NEW a \in Nat
    PROVE  /\ a \div p \in Nat /\ a % p \in Nat /\ a % p < p
           /\ a = p * (a \div p) + (a % p)
<1> DEFINE q == a \div p
           r == a % p
<1>1. q \in Int /\ r \in Int /\ a = p * q + r /\ r < p /\ r >= 0
  OBVIOUS
<1> HIDE DEF q, r
<1>2. CASE q < 0
  <2>1. q <= -1
    BY <1>1, <1>2
  <2>2. p * q <= -p
    BY <1>1, <2>1
  <2> QED BY <1>1, <2>2
<1> QED BY <1>1, <1>2 DEF q, r

Occurs(s, repeat, m) == m = s \/ (repeat /\ m > s /\ (m - s) % Period = 0)

LEMMA NextIsFirst ==
    ASSUME NEW s \in Nat, NEW now \in Nat, NEW repeat \in BOOLEAN
    PROVE  LET n == NextRuntime(s, repeat, now)
           IN  /\ n # NULL => n \in Nat /\ n > now
               /\ repeat => n # NULL
               /\ \A m \in Nat : m > now /\ Occurs(s, repeat, m) => n # NULL /\ n <= m
<1>1. CASE s > now
  BY <1>1 DEF NextRuntime, NULL, Occurs
<1>2. CASE ~(s > now) /\ ~repeat
  BY <1>2 DEF NextRuntime, NULL, Occurs
<1>3. CASE ~(s > now) /\ repeat
  <2> DEFINE k == (now - s) \div Period
             r == (now - s) % Period
             n == s + Period * (k + 1)
  <2>1. Period \in Nat \ {0} /\ now - s \in Nat
    BY <1>3, TimeAssumption
  <2>2. k \in Nat /\ r \in Nat /\ r < Period /\ now - s = Period * k + r
    BY <2>1, Division
  <2>3. NextRuntime(s, repeat, now) = n
    BY <1>3 DEF NextRuntime
  <2> HIDE DEF k, r
  <2>4. n = s + Period * k + Period /\ Period * k \in Nat
    BY <2>1, <2>2
  <2>5. n \in Nat /\ n > now
    BY <2>1, <2>2, <2>4
  <2>6. ASSUME NEW m \in Nat, m > now, Occurs(s, repeat, m) PROVE n <= m
    <3> DEFINE q == (m - s) \div Period
    <3>1. m - s \in Nat /\ (m - s) % Period = 0
      BY <1>3, <2>1, <2>6 DEF Occurs
    <3>2. q \in Nat /\ m - s = Period * q
      BY <2>1, <3>1, Division
    <3> HIDE DEF q
    <3>3. q > k
      <4>1. CASE q <= k
        <5>1. Period * q <= Period * k
          BY <2>1, <2>2, <3>2, <4>1
        <5> QED BY <2>1, <2>2, <2>4, <2>6, <3>2, <5>1
      <4> QED BY <2>2, <3>2, <4>1
    <3>4. Period * q >= Period * (k + 1)
      BY <2>1, <2>2, <3>2, <3>3
    <3> QED BY <2>1, <2>2, <3>2, <3>4
  <2> HIDE DEF n
  <2>7. n # NULL
    BY <2>5 DEF NULL
  <2> QED BY <2>3, <2>5, <2>6, <2>7, Zenon
<1> QED BY <1>1, <1>2, <1>3

(* The events of a task whose change is in its copy.                       *)
Ran(j) == j.due \ j.left

(* What a task will commit is what the events that it ran asked for: the   *)
(* field of each is in the copy, and has the value of one of them.         *)
Gathered(j) ==
    j.at = "events" =>
      /\ j.left \subseteq j.due
      /\ \A e \in Ran(j) : Shape[e].field \in DOMAIN j.asked
      /\ \A f \in DOMAIN j.asked : \E x \in Ran(j) : /\ Shape[x].field = f
                                                     /\ j.asked[f] = Shape[x].value

(* What one event does to the job that runs it.                            *)
LEMMA RunSteps ==
    ASSUME NEW w \in Workers, TypeInv, NEW e \in Events, RunEvent(w, e)
    PROVE  /\ job[w] \in EventJob /\ job[w].at = "events" /\ e \in job[w].left
           /\ job'[w] = [job[w] EXCEPT !.asked = Accumulated(job[w], e), !.left = @ \ {e},
                                       !.nexts[e] = Rescheduled(job[w], e)]
           /\ job'[w].at = "events" /\ job'[w].now = job[w].now /\ job'[w].due = job[w].due
           /\ job'[w].left = job[w].left \ {e} /\ job'[w].asked = Accumulated(job[w], e)
           /\ job'[w].starts = job[w].starts
           /\ job'[w].nexts = [job[w].nexts EXCEPT ![e] = Rescheduled(job[w], e)]
<1>1. job[w] \in EventJob /\ job[w].at = "events" /\ e \in job[w].left
  BY JobType DEF RunEvent
<1>2. job'[w] = [job[w] EXCEPT !.asked = Accumulated(job[w], e), !.left = @ \ {e},
                               !.nexts[e] = Rescheduled(job[w], e)]
  BY DEF RunEvent, TypeInv, TypeOK
<1> QED BY <1>1, <1>2 DEF EventJob

LEMMA GatheredSteps ==
    ASSUME NEW w \in Workers, TypeInv, Gathered(job[w]), Work(w)
    PROVE  Gathered(job'[w])
<1>1. CASE job'[w].at # "events"
  BY <1>1 DEF Gathered
<1>2. CASE RunRead(w)
  <2>1. DOMAIN << >> = {}
    OBVIOUS
  <2>2. job'[w].due = job'[w].left /\ job'[w].asked = << >>
    BY <1>2 DEF RunRead, TypeInv, TypeOK
  <2> QED BY <2>1, <2>2 DEF Gathered, Ran
<1>3. ASSUME NEW e \in Events, RunEvent(w, e) PROVE Gathered(job'[w])
  <2> DEFINE j == job[w]
             k == job'[w]
             f == Shape[e].field
  <2>1. /\ j.at = "events" /\ e \in j.left /\ k.due = j.due /\ k.left = j.left \ {e}
        /\ k.asked = Accumulated(j, e)
    BY <1>3, RunSteps
  <2>2. /\ DOMAIN k.asked = DOMAIN j.asked \cup {f} /\ k.asked[f] = Shape[e].value
        /\ \A g \in DOMAIN j.asked : g # f => k.asked[g] = j.asked[g]
    BY <2>1 DEF Accumulated, Overlaid, Setting
  <2>3. /\ j.left \subseteq j.due
        /\ \A x \in Ran(j) : Shape[x].field \in DOMAIN j.asked
        /\ \A g \in DOMAIN j.asked : \E x \in Ran(j) : /\ Shape[x].field = g
                                                       /\ j.asked[g] = Shape[x].value
    BY <2>1 DEF Gathered
  <2>4. Ran(k) = Ran(j) \cup {e} /\ k.left \subseteq k.due
    BY <2>1, <2>3 DEF Ran
  <2> HIDE DEF j, k
  <2>5. \A x \in Ran(k) : Shape[x].field \in DOMAIN k.asked
    BY <2>2, <2>3, <2>4
  <2>6. ASSUME NEW g \in DOMAIN k.asked
        PROVE  \E x \in Ran(k) : Shape[x].field = g /\ k.asked[g] = Shape[x].value
    <3>1. CASE g = f
      BY <2>2, <2>4, <3>1
    <3>2. CASE g # f
      BY <2>2, <2>3, <2>4, <2>6, <3>2
    <3> QED BY <3>1, <3>2
  <2> QED BY <2>4, <2>5, <2>6 DEF Gathered, k
<1>4. ASSUME NEW new \in Change, job'[w] = [at |-> "loaded", seen |-> config, asked |-> new]
      PROVE  job'[w].at # "events"
  BY <1>4
<1>5. CASE Commit(w) /\ job'[w] = [job[w] EXCEPT !.at = "publish"]
  BY <1>1, <1>5, JobType DEF Commit, ChangeJob
<1>6. CASE job'[w] = Idle
  BY <1>1, <1>6 DEF Idle
<1> QED BY <1>1, <1>2, <1>3, <1>4, <1>5, <1>6, WorkSteps

(* The events of a minute are run together: when one of them is in the     *)
(* history of runs, so is every event whose next run is still that minute; *)
(* and so a task that finds one of its events run finds them all run.      *)
RunTogether ==
    /\ \A o \in occurred : o[2] <= clock
    /\ (\E o \in occurred : o[2] = clock) =>
          \A e \in enabled : next[e] = clock => <<e, clock>> \in occurred

TaskTogether(j) ==
    j.at = "events" =>
      /\ j.now <= clock
      /\ \A o \in occurred : o[2] <= j.now
      /\ (\E o \in occurred : o[2] = j.now) => j.due \X {j.now} \subseteq occurred
      /\ j.now = clock => \A e \in enabled : next[e] = clock => e \in j.due

Together(w) == RunTogether /\ TaskTogether(job[w])

LEMMA TogetherSteps ==
    ASSUME NEW w \in Workers, TypeInv, Together(w), Work(w)
    PROVE  Together(w)'
<1> USE DEF Together
<1>1. ASSUME job'[w].at # "events", UNCHANGED <<clock, eventVars>>
      PROVE  Together(w)'
  BY <1>1 DEF RunTogether, TaskTogether, eventVars
<1>2. CASE RunRead(w)
  <2>1. /\ UNCHANGED <<clock, eventVars>> /\ job'[w].now = clock
        /\ job'[w].due = {e \in enabled : next[e] = clock}
    BY <1>2 DEF RunRead, TypeInv, TypeOK
  <2>2. clock \in Nat
    BY DEF TypeInv, TypeOK
  <2> QED BY <2>1, <2>2 DEF RunTogether, TaskTogether, eventVars
<1>3. ASSUME NEW e \in Events, RunEvent(w, e) PROVE Together(w)'
  <2>1. UNCHANGED <<clock, eventVars>> /\ job[w].at = "events"
    BY <1>3 DEF RunEvent
  <2>2. job'[w].now = job[w].now /\ job'[w].due = job[w].due
    BY <1>3, RunSteps
  <2> QED BY <2>1, <2>2 DEF RunTogether, TaskTogether, eventVars
<1>4. CASE RunCommit(w) /\ job'[w] = Idle
  <2> DEFINE j == job[w]
  <2>1. j \in EventJob /\ j.at = "events"
    BY <1>4, JobType DEF RunCommit
  <2>2. /\ UNCHANGED <<clock, enabled>> /\ occurred' = occurred \cup (j.due \X {j.now})
        /\ \A e \in Events : next'[e] = next[e] \/ next'[e] # j.now
    BY <1>4 DEF RunCommit
  <2>3. j.now \in Nat /\ clock \in Nat /\ enabled \subseteq Events /\ occurred \subseteq Events \X Nat
    BY <2>1 DEF EventJob, TypeInv, TypeOK
  <2>4. \A o \in occurred' : o \in occurred \/ o[2] = j.now
    BY <2>2
  <2>5. \A o \in occurred' : o[2] <= clock
    BY <2>1, <2>3, <2>4 DEF RunTogether, TaskTogether
  <2>6. ASSUME NEW o \in occurred', o[2] = clock, NEW e \in enabled, next'[e] = clock
        PROVE  <<e, clock>> \in occurred'
    <3>1. j.now = clock
      BY <2>1, <2>3, <2>4, <2>6 DEF TaskTogether
    <3>2. next[e] = clock /\ e \in j.due
      BY <2>1, <2>2, <2>3, <2>6, <3>1 DEF TaskTogether
    <3> QED BY <2>2, <3>1, <3>2
  <2>7. RunTogether'
    BY <2>2, <2>5, <2>6 DEF RunTogether
  <2> QED BY <1>4, <2>7 DEF TaskTogether, Idle
<1>5. ASSUME NEW new \in Change, job'[w] = [at |-> "loaded", seen |-> config, asked |-> new]
      PROVE  job'[w].at # "events"
  BY <1>5
<1>6. CASE Commit(w) /\ job'[w] = [job[w] EXCEPT !.at = "publish"]
  BY <1>1, <1>6, JobType DEF Commit, ChangeJob
<1>7. CASE (Publish(w) \/ Abandon(w)) /\ job'[w] = Idle
  BY <1>1, <1>7 DEF Publish, Abandon, Idle
<1> QED BY <1>1, <1>2, <1>3, <1>4, <1>5, <1>6, <1>7, WorkSteps

(* An event that is edited is next run later than now, if at all.          *)
LEMMA EditTogether ==
    ASSUME NEW w \in Workers, TypeInv, Together(w), NEW e \in Events,
           DeleteEvent(e) \/ \E s \in Starts, a \in BOOLEAN : PutEvent(e, s, a)
    PROVE  Together(w)'
<1>1. CASE DeleteEvent(e)
  BY <1>1 DEF DeleteEvent, Edit, Together, RunTogether, TaskTogether
<1>2. ASSUME NEW s \in Starts, NEW a \in BOOLEAN, PutEvent(e, s, a) PROVE Together(w)'
  <2>1. s \in Nat /\ clock \in Nat /\ Shape[e].repeat \in BOOLEAN
    BY TimeAssumption, ShapeAssumption DEF EventShape, TypeInv, TypeOK
  <2>2. NextRuntime(s, Shape[e].repeat, clock) # clock
    <3> DEFINE n == NextRuntime(s, Shape[e].repeat, clock)
    <3>1. n # NULL => n \in Nat /\ n > clock
      BY <2>1, NextIsFirst
    <3> HIDE DEF n
    <3>2. n # clock
      BY <2>1, <3>1 DEF NULL
    <3> QED BY <3>2 DEF n
  <2>3. /\ next'[e] # clock /\ \A x \in Events : x # e => next'[x] = next[x]
        /\ enabled' \subseteq enabled \cup {e} /\ enabled \subseteq Events
        /\ UNCHANGED <<clock, job, occurred>>
    BY <1>2, <2>2 DEF PutEvent, Edit, TypeInv, TypeOK
  <2> QED BY <2>3 DEF Together, RunTogether, TaskTogether
<1> QED BY <1>1, <1>2

LEMMA TogetherInv ==
    ASSUME NEW w, Workers = {w}
    PROVE  /\ Init => Gathered(job[w]) /\ Together(w)
           /\ TypeInv /\ Gathered(job[w]) /\ Together(w) /\ [Next]_vars
                => (Gathered(job[w]) /\ Together(w))'
<1>1. Init => Gathered(job[w]) /\ Together(w)
  BY DEF Init, Gathered, Together, RunTogether, TaskTogether, Idle
<1>2. ASSUME TypeInv, Together(w), Others PROVE Together(w)'
  <2>1. CASE Tick
    <3>1. /\ clock \in Nat /\ clock' = clock + 1 /\ UNCHANGED <<eventVars, job>>
          /\ \A o \in occurred : o[2] \in Nat
          /\ job[w].at = "events" => job[w].now \in Nat
      BY <2>1, <1>2, JobType DEF Tick, TypeInv, TypeOK, EventJob
    <3> QED BY <1>2, <3>1 DEF eventVars, Together, RunTogether, TaskTogether
  <2>2. ASSUME NEW e \in Events,
               DeleteEvent(e) \/ \E s \in Starts, a \in BOOLEAN : PutEvent(e, s, a)
        PROVE  Together(w)'
    BY <1>2, <2>2, EditTogether
  <2>3. ASSUME UNCHANGED <<clock, eventVars, job>> PROVE Together(w)'
    BY <1>2, <2>3 DEF eventVars, Together, RunTogether, TaskTogether
  <2> QED BY <1>2, <2>1, <2>2, <2>3
          DEF Others, Poll, Fetch, AckRead, AckCommit, Restart, vars
<1>3. UNCHANGED job /\ Gathered(job[w]) => Gathered(job[w])'
  BY DEF Gathered, Ran
<1> QED BY <1>1, <1>2, <1>3, Steps, OthersLeave, GatheredSteps, TogetherSteps

(* With one worker, for any events, fields and periods: the events that a  *)
(* task has run are all in the configuration it commits, or another one of *)
(* them that sets the same field is, though they share one row object.     *)
THEOREM EventsTakeEffectHolds ==
    ASSUME NEW w, Workers = {w}
    PROVE  Spec => EventsTakeEffect
<1>1. TypeInv /\ Alone(w) /\ Gathered(job[w]) /\ Together(w) /\ [Next]_vars => [TakesEffect]_vars
  <2> SUFFICES ASSUME TypeInv, Alone(w), Gathered(job[w]), Together(w), [Next]_vars
               PROVE  TakesEffect
    OBVIOUS
  <2> DEFINE j == job[w]
             ran == {o[1] : o \in occurred' \ occurred}
  <2>1. CASE UNCHANGED occurred
    BY <2>1 DEF TakesEffect
  <2>2. CASE RunCommit(w)
    <3>1. j \in EventJob /\ j.at = "events"
      BY <2>2, JobType DEF RunCommit
    <3>2. /\ occurred' = occurred \cup (j.due \X {j.now}) /\ j.left = {} /\ Store(j)
      BY <2>2 DEF RunCommit
    <3>3. config' = Overlaid(config, j.asked)
      BY <3>1, <3>2, StoresCopy DEF Alone, Copy
    <3>4. ASSUME NEW d \in ran PROVE d \in j.due /\ ran = j.due
      <4>1. PICK o \in occurred' \ occurred : d = o[1]
        OBVIOUS
      <4>2. o \in j.due \X {j.now} /\ ~(j.due \X {j.now} \subseteq occurred)
        BY <3>2, <4>1
      <4>3. \A p \in occurred : p[2] # j.now
        BY <3>1, <4>2 DEF Together, TaskTogether
      <4>4. occurred' \ occurred = j.due \X {j.now}
        BY <3>2, <4>3
      <4>5. ran = j.due
        <5>1. \A x \in ran : x \in j.due
          BY <4>4
        <5>2. \A x \in j.due : <<x, j.now>> \in occurred' \ occurred /\ <<x, j.now>>[1] = x
          BY <4>4
        <5>3. \A x \in j.due : x \in ran
          BY <5>2
        <5> QED BY <5>1, <5>3
      <4> QED BY <4>5
    <3>5. ASSUME NEW d \in ran
          PROVE  \E x \in ran : /\ Shape[x].field = Shape[d].field
                                /\ config'[Shape[d].field] = Shape[x].value
      <4>1. ran = j.due /\ ran = Ran(j) /\ d \in Ran(j)
        BY <3>2, <3>4 DEF Ran
      <4>2. Shape[d].field \in DOMAIN j.asked
        BY <3>1, <4>1 DEF Gathered
      <4>3. config'[Shape[d].field] = j.asked[Shape[d].field]
        BY <3>3, <4>2 DEF Overlaid
      <4> HIDE DEF ran
      <4> QED BY <3>1, <4>1, <4>2, <4>3 DEF Gathered
    <3> QED BY <3>5 DEF TakesEffect
  <2>3. UNCHANGED occurred \/ RunCommit(w)
    BY Steps DEF Others, Tick, Poll, Fetch, AckRead, AckCommit, Restart, DeleteEvent, PutEvent,
                 Edit, Work, Put, Actuate, Load, Commit, Publish, RunRead, RunEvent, Abandon,
                 vars, eventVars
  <2> QED BY <2>1, <2>2, <2>3
<1> QED BY <1>1, AloneInv, TogetherInv, InitType, NextType, PTL DEF Spec, EventsTakeEffect

----------------------------------------------------------------------------
(* While nothing is late, the next run of an event that nobody edits is    *)
(* the first of its occurrences that has not been run; an event that does  *)
(* not repeat keeps its start as next_runtime, and is then run already.    *)
Kept(e) ==
    /\ Shape[e].repeat => next[e] # NULL /\ \A o \in occurred : o[1] = e => o[2] < next[e]
    /\ next[e] = NULL => \A m \in Nat \ {0} : ~IsOccurrence(e, m)
    /\ next[e] # NULL =>
          \A m \in 1..(next[e] - 1) : IsOccurrence(e, m) => <<e, m>> \in occurred
    /\ next[e] # NULL /\ next[e] < clock => ~Shape[e].repeat /\ <<e, next[e]>> \in occurred

(* The task writes, for each of its events, the occurrence after this one. *)
TaskKept(j) ==
    j.at = "events" =>
      \A e \in j.due \ edited :
        /\ j.starts[e] = start[e]
        /\ e \in enabled => next[e] = j.now
        /\ e \in enabled \ j.left /\ Shape[e].repeat =>
              j.nexts[e] = NextRuntime(start[e], TRUE, j.now)

OnTime(w) == faults = 0 => (\A e \in enabled \ edited : Kept(e)) /\ TaskKept(job[w])

(* NextIsFirst, for an event.                                              *)
LEMMA NextOfEvent ==
    ASSUME NEW e \in Events, start[e] \in Nat, NEW now \in Nat, NEW n,
           n = NextRuntime(start[e], Shape[e].repeat, now)
    PROVE  /\ n # NULL => n \in Nat /\ n > now
           /\ Shape[e].repeat => n # NULL
           /\ \A m \in Nat : m > now /\ IsOccurrence(e, m) => n # NULL /\ n <= m
<1>1. Shape[e].repeat \in BOOLEAN
  BY ShapeAssumption DEF EventShape
<1>2. \A m : IsOccurrence(e, m) <=> Occurs(start[e], Shape[e].repeat, m)
  BY DEF IsOccurrence, Occurs
<1> QED BY <1>1, <1>2, NextIsFirst

(* What Init computes.                                                     *)
LEMMA InitOnTime ==
    ASSUME NEW w \in Workers, Init, TypeInv
    PROVE  OnTime(w)
<1>1. clock = 0 /\ occurred = {} /\ job[w].at # "events"
  BY DEF Init, Idle
<1>2. ASSUME NEW e \in Events PROVE Kept(e)
  <2>1. start[e] \in Nat /\ next[e] = NextRuntime(start[e], Shape[e].repeat, 0)
    BY DEF Init, TypeInv, TypeOK
  <2>2. /\ next[e] # NULL => next[e] \in Nat /\ next[e] > 0
        /\ Shape[e].repeat => next[e] # NULL
        /\ \A m \in Nat : m > 0 /\ IsOccurrence(e, m) => next[e] # NULL /\ next[e] <= m
    BY <2>1, NextOfEvent
  <2> QED BY <1>1, <2>2 DEF Kept
<1> QED BY <1>1, <1>2 DEF OnTime, TaskKept, TypeInv, TypeOK

(* The commit of a task: an event that repeats moves to the occurrence     *)
(* after the one that is run, any other stays where it is.                 *)
LEMMA CommitOnTime ==
    ASSUME NEW w \in Workers, TypeInv, Together(w), OnTime(w), RunCommit(w), faults = 0,
           NEW e \in enabled \ edited
    PROVE  Kept(e)'
<1> DEFINE j == job[w]
<1>1. j \in EventJob /\ KeepsOnce(j) /\ j.at = "events"
  BY JobType DEF RunCommit, TypeInv
<1>2. /\ e \in Events /\ clock \in Nat /\ j.now \in Nat /\ j.now <= clock
      /\ start[e] \in Nat /\ next[e] \in Nat \cup {NULL} /\ Shape[e].repeat \in BOOLEAN
      /\ ~Shape[e].repeat => next[e] \in {start[e], NULL}
  BY <1>1, ShapeAssumption DEF EventShape, EventJob, TypeInv, TypeOK, Together, TaskTogether
<1>3. /\ UNCHANGED <<clock, start>> /\ j.left = {}
      /\ occurred' = occurred \cup (j.due \X {j.now})
      /\ next'[e] = IF e \in j.due /\ j.nexts[e] # j.now THEN j.nexts[e] ELSE next[e]
  BY <1>2 DEF RunCommit
<1>4. Kept(e) /\ TaskKept(j)
  BY DEF OnTime
<1>5. \A m : IsOccurrence(e, m)' <=> IsOccurrence(e, m)
  BY <1>3 DEF IsOccurrence
<1>6. CASE e \notin j.due
  <2>1. next'[e] = next[e] /\ \A o \in occurred' : o[1] = e => o \in occurred
    BY <1>3, <1>6
  <2>2. \A m : <<e, m>> \in occurred => <<e, m>> \in occurred'
    BY <1>3
  <2> QED BY <1>3, <1>4, <1>5, <2>1, <2>2 DEF Kept
<1>7. CASE e \in j.due /\ ~Shape[e].repeat
  <2>1. j.nexts[e] = j.now /\ next[e] = j.now /\ next'[e] = next[e]
    BY <1>1, <1>2, <1>3, <1>4, <1>7 DEF KeepsOnce, TaskKept
  <2>2. <<e, j.now>> \in occurred' /\ \A m : <<e, m>> \in occurred => <<e, m>> \in occurred'
    BY <1>3, <1>7
  <2>3. j.now # NULL
    BY <1>2 DEF NULL
  <2> QED BY <1>3, <1>4, <1>5, <1>7, <2>1, <2>2, <2>3 DEF Kept
<1>8. CASE e \in j.due /\ Shape[e].repeat
  <2> DEFINE n == NextRuntime(start[e], Shape[e].repeat, j.now)
  <2>1. next[e] = j.now /\ j.nexts[e] = n
    BY <1>1, <1>3, <1>4, <1>8 DEF TaskKept
  <2>2. /\ n # NULL /\ n \in Nat /\ n > j.now
        /\ \A m \in Nat : m > j.now /\ IsOccurrence(e, m) => n <= m
    BY <1>2, <1>8, NextOfEvent
  <2> HIDE DEF n, j
  <2>3. next'[e] = n /\ j.now # NULL
    BY <1>2, <1>3, <1>8, <2>1, <2>2 DEF NULL
  <2>4. j.now = clock
    BY <1>2, <1>4, <1>8, <2>1, <2>3 DEF Kept
  <2>5. ASSUME NEW m \in 1..(n - 1), IsOccurrence(e, m) PROVE <<e, m>> \in occurred'
    <3>1. CASE m < j.now
      BY <1>2, <1>3, <1>4, <2>1, <2>2, <2>3, <2>5, <3>1 DEF Kept
    <3>2. CASE m = j.now
      BY <1>3, <1>8, <3>2
    <3>3. ~(m > j.now)
      BY <2>2, <2>5
    <3> QED BY <1>2, <2>2, <3>1, <3>2, <3>3
  <2>6. ASSUME NEW o \in occurred', o[1] = e PROVE o[2] < n
    <3>1. o \in occurred \/ o[2] = j.now
      BY <1>3, <2>6
    <3>2. o \in occurred => o[2] < j.now /\ o[2] \in Nat
      BY <1>4, <1>8, <2>1, <2>6 DEF Kept, TypeInv, TypeOK
    <3> QED BY <1>2, <2>2, <3>1, <3>2
  <2> QED BY <1>2, <1>3, <1>5, <2>2, <2>3, <2>4, <2>5, <2>6 DEF Kept
<1> QED BY <1>2, <1>6, <1>7, <1>8

LEMMA OnTimeSteps ==
    ASSUME NEW w \in Workers, TypeInv, Together(w), OnTime(w), Work(w), faults' = 0
    PROVE  OnTime(w)'
<1>1. faults = 0
  <2>1. UNCHANGED faults \/ faults' = faults + 1
    BY DEF Work, Put, Actuate, Load, Commit, Publish, Delivered, RunRead, RunEvent, RunCommit,
           Abandon, Faulty
  <2> QED BY <2>1 DEF TypeInv, TypeOK
<1>2. TaskKept(job[w]) /\ \A e \in enabled \ edited : Kept(e)
  BY <1>1 DEF OnTime
<1>3. ASSUME UNCHANGED <<clock, eventVars>> PROVE (\A e \in enabled \ edited : Kept(e))'
  BY <1>2, <1>3 DEF Kept, IsOccurrence, eventVars
<1>4. ASSUME job'[w].at # "events", UNCHANGED <<clock, eventVars>> PROVE OnTime(w)'
  BY <1>3, <1>4 DEF OnTime, TaskKept
<1>5. CASE RunRead(w)
  <2>1. /\ UNCHANGED <<clock, eventVars>> /\ job'[w].now = clock /\ job'[w].starts = start
        /\ job'[w].due = {e \in enabled : next[e] = clock} /\ job'[w].left = job'[w].due
    BY <1>5 DEF RunRead, TypeInv, TypeOK
  <2>2. TaskKept(job[w])'
    BY <2>1 DEF TaskKept, eventVars
  <2> QED BY <1>3, <2>1, <2>2 DEF OnTime
<1>6. ASSUME NEW e \in Events, RunEvent(w, e) PROVE OnTime(w)'
  <2> DEFINE j == job[w]
             k == job'[w]
  <2>1. /\ j \in EventJob /\ j.at = "events" /\ k.at = "events" /\ k.now = j.now
        /\ k.due = j.due /\ k.left = j.left \ {e} /\ k.starts = j.starts
        /\ k.nexts = [j.nexts EXCEPT ![e] = Rescheduled(j, e)]
    BY <1>6, RunSteps
  <2>2. UNCHANGED <<clock, eventVars>>
    BY <1>6 DEF RunEvent
  <2>3. /\ j.nexts \in [Events -> Nat \cup {NULL}] /\ j.now \in Nat /\ clock \in Nat
        /\ j.now <= clock /\ enabled \subseteq Events
    BY <2>1 DEF EventJob, TypeInv, TypeOK, Together, TaskTogether
  <2>4. ASSUME NEW x \in j.due \ edited, x \in enabled \ k.left, Shape[x].repeat
        PROVE  k.nexts[x] = NextRuntime(start[x], TRUE, j.now)
    <3>1. CASE x # e
      BY <1>2, <2>1, <2>3, <2>4, <3>1 DEF TaskKept
    <3>2. CASE x = e
      <4>1. j.starts[e] = start[e] /\ next[e] = j.now /\ Kept(e)
        BY <1>2, <2>1, <2>4, <3>2 DEF TaskKept
      <4>2. j.now = clock
        BY <2>3, <2>4, <3>2, <4>1 DEF Kept, NULL
      <4> QED BY <2>1, <2>3, <2>4, <3>2, <4>1, <4>2 DEF Rescheduled
    <3> QED BY <3>1, <3>2
  <2>5. TaskKept(job[w])'
    BY <1>2, <2>1, <2>2, <2>4 DEF TaskKept, eventVars
  <2> QED BY <1>3, <2>2, <2>5 DEF OnTime
<1>7. CASE RunCommit(w) /\ job'[w] = Idle
  <2>1. \A e \in enabled \ edited : Kept(e)'
    BY <1>1, <1>7, CommitOnTime
  <2>2. UNCHANGED <<enabled, edited>>
    BY <1>7 DEF RunCommit
  <2> QED BY <1>7, <2>1, <2>2 DEF OnTime, TaskKept, Idle
<1>8. ASSUME NEW new \in Change, job'[w] = [at |-> "loaded", seen |-> config, asked |-> new]
      PROVE  job'[w].at # "events"
  BY <1>8
<1>9. CASE Commit(w) /\ job'[w] = [job[w] EXCEPT !.at = "publish"]
  BY <1>4, <1>9, JobType DEF Commit, ChangeJob
<1>10. CASE (Publish(w) \/ Abandon(w)) /\ job'[w] = Idle
  BY <1>4, <1>10 DEF Publish, Abandon, Idle
<1> QED BY <1>4, <1>5, <1>6, <1>7, <1>8, <1>9, <1>10, WorkSteps

(* The clock moves on only when the events of the minute have been run.    *)
LEMMA TickOnTime ==
    ASSUME NEW w \in Workers, TypeInv, OnTime(w), Tick, faults' = 0
    PROVE  OnTime(w)'
<1>1. /\ faults = 0 /\ Due = {} /\ clock \in Nat /\ clock' = clock + 1
      /\ UNCHANGED <<eventVars, job>>
  BY DEF Tick, Faulty, TypeInv, TypeOK
<1>2. ASSUME NEW e \in enabled \ edited PROVE Kept(e)'
  <2>1. next[e] \in Nat \cup {NULL} /\ Kept(e)
    BY <1>1 DEF OnTime, TypeInv, TypeOK
  <2>2. next[e] = clock => <<e, next[e]>> \in occurred
    BY <1>1 DEF Due
  <2>3. <<e, next[e]>> \in occurred => ~Shape[e].repeat
    <3>1. ASSUME <<e, next[e]>> \in occurred, Shape[e].repeat PROVE FALSE
      <4>1. next[e] < next[e] /\ next[e] \in Nat
        BY <2>1, <3>1 DEF Kept
      <4> QED BY <4>1
    <3> QED BY <3>1
  <2>4. \A m : IsOccurrence(e, m)' <=> IsOccurrence(e, m)
    BY <1>1 DEF eventVars, IsOccurrence
  <2>5. next[e] # NULL /\ next[e] < clock' => ~Shape[e].repeat /\ <<e, next[e]>> \in occurred
    BY <1>1, <2>1, <2>2, <2>3 DEF Kept
  <2> QED BY <1>1, <2>1, <2>4, <2>5 DEF Kept, eventVars
<1> QED BY <1>1, <1>2 DEF OnTime, TaskKept, eventVars

(* A user's edit concerns one event, which nobody follows any more.        *)
LEMMA EditOnTime ==
    ASSUME NEW w \in Workers, TypeInv, OnTime(w), NEW e \in Events,
           DeleteEvent(e) \/ \E s \in Starts, a \in BOOLEAN : PutEvent(e, s, a)
    PROVE  OnTime(w)'
<1>1. /\ edited' = edited \cup {e} /\ enabled' \subseteq enabled \cup {e}
      /\ \A x \in Events : x # e => next'[x] = next[x] /\ start'[x] = start[x]
      /\ UNCHANGED <<clock, faults, job, occurred>>
  BY DEF DeleteEvent, PutEvent, Edit, TypeInv, TypeOK
<1>2. ASSUME faults = 0, NEW x \in enabled' \ edited' PROVE Kept(x)'
  <2>1. x \in enabled \ edited /\ x \in Events /\ x # e
    BY <1>1, <1>2 DEF TypeInv, TypeOK
  <2>2. Kept(x) /\ next'[x] = next[x] /\ \A m : IsOccurrence(x, m)' <=> IsOccurrence(x, m)
    BY <1>1, <1>2, <2>1 DEF OnTime, IsOccurrence
  <2> QED BY <1>1, <2>2 DEF Kept
<1>3. ASSUME faults = 0, job[w].at = "events" PROVE TaskKept(job[w])'
  <2>1. job[w].due \subseteq Events /\ TaskKept(job[w])
    BY <1>3, JobType DEF EventJob, OnTime
  <2> QED BY <1>1, <1>3, <2>1 DEF TaskKept
<1> QED BY <1>1, <1>2, <1>3 DEF OnTime, TaskKept

LEMMA OnTimeInv ==
    ASSUME NEW w, Workers = {w}
    PROVE  /\ Init => OnTime(w)
           /\ TypeInv /\ Together(w) /\ OnTime(w) /\ [Next]_vars => OnTime(w)'
<1>1. Init => OnTime(w)
  BY InitType, InitOnTime
<1>2. ASSUME TypeInv, OnTime(w), Others PROVE OnTime(w)'
  <2>1. CASE Tick
    BY <1>2, <2>1, TickOnTime DEF OnTime
  <2>2. ASSUME NEW e \in Events,
               DeleteEvent(e) \/ \E s \in Starts, a \in BOOLEAN : PutEvent(e, s, a)
        PROVE  OnTime(w)'
    BY <1>2, <2>2, EditOnTime
  <2>3. ASSUME UNCHANGED <<clock, eventVars, job>>, faults' = 0 => faults = 0
        PROVE  OnTime(w)'
    BY <1>2, <2>3 DEF OnTime, Kept, TaskKept, IsOccurrence, eventVars
  <2>4. Restart => (faults' = 0 => faults = 0)
    BY <1>2 DEF Restart, Faulty, TypeInv, TypeOK
  <2> QED BY <1>2, <2>1, <2>2, <2>3, <2>4
          DEF Others, Poll, Fetch, AckRead, AckCommit, Restart, vars
<1>3. OnTime(w)' \/ faults' = 0
  BY DEF OnTime
<1> QED BY <1>1, <1>2, <1>3, Steps, OnTimeSteps

(* With one worker, for any period, starts and events, edited or not: as   *)
(* long as beat and the workers are on time, an event that nobody edits is *)
(* run at its start and at every period after it.                          *)
THEOREM EveryOccurrenceHolds ==
    ASSUME NEW w, Workers = {w}
    PROVE  Spec => []EveryOccurrence
<1>1. TypeInv /\ OnTime(w) => EveryOccurrence
  <2> SUFFICES ASSUME TypeInv, OnTime(w), NEW e \in enabled \ edited, NEW m \in 1..(clock - 1),
                      faults = 0, IsOccurrence(e, m)
               PROVE  <<e, m>> \in occurred
    BY DEF EveryOccurrence
  <2>1. /\ Kept(e) /\ e \in Events /\ clock \in Nat /\ next[e] \in Nat \cup {NULL}
        /\ ~Shape[e].repeat => next[e] \in {start[e], NULL}
    BY DEF OnTime, TypeInv, TypeOK
  <2>2. m \in Nat \ {0} /\ m < clock
    BY <2>1
  <2>3. next[e] # NULL /\ next[e] \in Nat
    BY <2>1, <2>2 DEF Kept
  <2>4. CASE m < next[e]
    BY <2>1, <2>2, <2>3, <2>4 DEF Kept
  <2>5. CASE next[e] <= m
    <3>1. ~Shape[e].repeat /\ <<e, next[e]>> \in occurred
      BY <2>1, <2>2, <2>3, <2>5 DEF Kept
    <3>2. m = start[e] /\ next[e] = start[e]
      BY <2>1, <2>3, <3>1 DEF IsOccurrence
    <3> QED BY <3>1, <3>2
  <2> QED BY <2>2, <2>3, <2>4, <2>5
<1> QED BY <1>1, TogetherInv, AloneInv, OnTimeInv, InitType, NextType, PTL DEF Spec
=============================================================================
