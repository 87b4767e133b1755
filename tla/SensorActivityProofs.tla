------------------------- MODULE SensorActivityProofs -------------------------
(***************************************************************************)
(* Theorems about SensorActivity, for any sensors, alerts, hours, limits   *)
(* and bounds: its type invariant, that no recovery is announced of a      *)
(* sensor that was not announced to be gone; with one poster, that a       *)
(* sensor comes back no more often than it was lost; and, with one worker, *)
(* that a sensor is announced to be lost once in each of its silences.     *)
(***************************************************************************)
EXTENDS SensorActivity, TLAPS

Task == [kind: {"periodic", "backup"}, sensors: SUBSET Sensors, now: Nat]
Step == [kind: {"up", "down"}, watch: Watches, last: Nat \cup {NULL}, marks: BOOLEAN,
         found: BOOLEAN]
View == [sensor: [Sensors -> ReadRow], status: Status]

(* A worker that is not idle has a task, and one that has decided a step.  *)
AtWork(w) ==
    /\ pc[w] # "idle" => task[w] \in Task
    /\ pc[w] \in {"commit", "send"} => step[w] \in Step

TypeInv == TypeOK /\ \A w \in Workers : AtWork(w)

----------------------------------------------------------------------------
(* Helpers.                                                                *)
LEMMA WatchType ==
    ASSUME NEW r \in Watches
    PROVE  r.sensor \in Sensors /\ r.alert \in Alerts /\ Pair(r) \in Pairs
BY WatchesAssumption DEF Watch, Pair, Pairs

LEMMA ReadType ==
    ASSUME TypeInv, NEW s \in Sensors
    PROVE  Read(s) \in ReadRow
BY DEF TypeInv, TypeOK, SensorRow, Read, ReadRow

LEMMA LoadedType ==
    ASSUME TypeInv, NEW w \in Workers, NEW r \in Watches
    PROVE  SensorOf(w, r) \in ReadRow /\ StatusOf(w, r) \in Nat \cup {NULL}
<1>1. r.sensor \in Sensors /\ Pair(r) \in Pairs
  BY WatchType
<1>2. view[w].sensor[r.sensor] \in ReadRow /\ Read(r.sensor) \in ReadRow
  BY <1>1, ReadType DEF TypeInv, TypeOK
<1>3. view[w].status[Pair(r)] \in Nat \cup {NULL} /\ status[Pair(r)] \in Nat \cup {NULL}
  BY <1>1 DEF TypeInv, TypeOK, Status
<1> QED BY <1>2, <1>3 DEF SensorOf, StatusOf

LEMMA NoViewType == NoView \in View
BY DEF NoView, View, ReadRow, Status

(* A worker's own variables, whatever it does.                             *)
WorkTypes ==
    /\ pc \in [Workers -> {"idle", "query", "row", "commit", "send"}]
    /\ task \in [Workers -> Task \cup {Idle}]
    /\ rows \in [Workers -> SUBSET Watches]
    /\ view \in [Workers -> View]
    /\ expired \in [Workers -> BOOLEAN]
    /\ step \in [Workers -> Step \cup {Idle}]
    /\ \A w \in Workers : pc[w] = "commit" => step[w] # Idle /\ step[w].kind = "down"
    /\ \A w \in Workers : AtWork(w)

(* The rows, the posters and what was sent.                                *)
RowTypes ==
    /\ clock \in Nat /\ posts \in Nat /\ faults \in Nat
    /\ sensor \in [Sensors -> SensorRow] /\ status \in Status
    /\ backups \in [Sensors -> Nat] /\ post \in [Posters -> Post]
    /\ marking \in [StatusWorkers -> SUBSET Sensors]
    /\ notes \subseteq [kind: {"up", "down"}, alert: Alerts, sensor: Sensors,
                        last: Nat \cup {NULL}, at: Nat]
    /\ rejected \subseteq Sensors
    /\ outages \in [Sensors -> Nat] /\ recoveries \in [Sensors -> Nat]

LEMMA Parts == (TypeInv <=> RowTypes /\ WorkTypes) /\ (TypeInv' <=> RowTypes' /\ WorkTypes')
BY DEF TypeInv, TypeOK, RowTypes, WorkTypes, Task, Step, View

LEMMA LeaveType ==
    ASSUME WorkTypes, NEW w \in Workers, Leave(w)
    PROVE  WorkTypes'
<1>1. NoView \in View
  BY NoViewType
<1> QED BY <1>1 DEF WorkTypes, Leave, AtWork

(* Only the two marks of a row change.                                     *)
LEMMA MarkedType ==
    ASSUME NEW row \in SensorRow
    PROVE  [row EXCEPT !.down = TRUE] \in SensorRow /\ [row EXCEPT !.inactive = TRUE] \in SensorRow
BY DEF SensorRow

(* What a poster does.                                                     *)
LEMMA PostingType ==
    ASSUME TypeInv, NEW q \in Posters, Posting(q) \/ \E s \in Sensors : PostLoad(q, s)
    PROVE  TypeInv'
<1> USE DEF Post
<1>1. RowTypes /\ WorkTypes
  BY Parts
<1>2. UNCHANGED taskVars => WorkTypes'
  BY <1>1 DEF WorkTypes, taskVars, AtWork
<1>3. ASSUME NEW s \in Sensors, PostLoad(q, s) PROVE TypeInv'
  <2>1. Read(s) \in ReadRow
    BY ReadType
  <2>2. RowTypes'
    BY <1>1, <1>3, <2>1 DEF PostLoad, RowTypes, history
  <2> QED BY <1>2, <1>3, <2>2, Parts DEF PostLoad
<1>4. CASE PostStamp(q)
  <2>1. post[q] \in [at: {"loaded"}, sensor: Sensors, row: ReadRow]
    BY <1>1, <1>4 DEF PostStamp, RowTypes, Free
  <2>2. RowTypes'
    BY <1>1, <1>4, <2>1 DEF PostStamp, RowTypes
  <2> QED BY <1>2, <1>4, <2>2, Parts DEF PostStamp
<1>5. CASE PostRaises(q)
  <2>1. post[q] \in [at: {"loaded"}, sensor: Sensors, row: ReadRow]
    BY <1>1, <1>5 DEF PostRaises, RowTypes, Free
  <2>2. RowTypes'
    BY <1>1, <1>5, <2>1 DEF PostRaises, RowTypes
  <2> QED BY <1>2, <1>5, <2>2, Parts DEF PostRaises
<1>6. CASE PostCommit(q)
  <2>1. post[q] \in [at: {"stamped"}, sensor: Sensors, now: Nat]
    BY <1>1, <1>6 DEF PostCommit, RowTypes, Free
  <2>2. RowTypes'
    BY <1>1, <1>6, <2>1 DEF PostCommit, RowTypes, Stored, SensorRow, history
  <2> QED BY <1>2, <1>6, <2>2, Parts DEF PostCommit
<1>7. CASE PostFails(q)
  <2>1. RowTypes'
    BY <1>1, <1>7 DEF PostFails, RowTypes, history
  <2> QED BY <1>2, <1>7, <2>1, Parts DEF PostFails
<1> QED BY <1>3, <1>4, <1>5, <1>6, <1>7 DEF Posting

(* The clock and device_status.                                            *)
LEMMA StatusType ==
    ASSUME TypeInv, Tick \/ \E d \in StatusWorkers : StatusRead(d) \/ StatusCommit(d)
    PROVE  TypeInv'
<1>1. RowTypes /\ WorkTypes
  BY Parts
<1>2. UNCHANGED taskVars => WorkTypes'
  BY <1>1 DEF WorkTypes, taskVars, AtWork
<1>3. CASE Tick
  BY <1>1, <1>2, <1>3, Parts DEF Tick, RowTypes, history
<1>4. ASSUME NEW d \in StatusWorkers, StatusRead(d) PROVE TypeInv'
  BY <1>1, <1>2, <1>4, Parts DEF StatusRead, RowTypes, history
<1>5. ASSUME NEW d \in StatusWorkers, StatusCommit(d) PROVE TypeInv'
  <2>1. sensor' \in [Sensors -> SensorRow]
    BY <1>1, <1>5, MarkedType DEF StatusCommit, RowTypes
  <2>2. RowTypes'
    BY <1>1, <1>5, <2>1 DEF StatusCommit, RowTypes, history
  <2> QED BY <1>2, <1>5, <2>2, Parts DEF StatusCommit
<1> QED BY <1>3, <1>4, <1>5

(* What a worker of inactivity_alerts_check does.                          *)
LEMMA CheckingType ==
    ASSUME TypeInv, NEW w \in Workers, Checking(w)
    PROVE  TypeInv'
<1>1. RowTypes /\ WorkTypes
  BY Parts
<1>2. ASSUME NEW t \in Task, Start(w, t), backups' \in [Sensors -> Nat] PROVE TypeInv'
  <2>1. WorkTypes'
    BY <1>1, <1>2 DEF Start, WorkTypes, AtWork
  <2>2. RowTypes'
    BY <1>1, <1>2 DEF Start, RowTypes, history
  <2> QED BY <2>1, <2>2, Parts
<1>3. CASE StartPeriodic(w)
  <2>1. [kind |-> "periodic", sensors |-> Sensors, now |-> clock] \in Task
    BY <1>1 DEF RowTypes, Task
  <2> QED BY <1>1, <1>2, <1>3, <2>1 DEF StartPeriodic, RowTypes
<1>4. ASSUME NEW s \in Sensors, StartBackup(w, s) PROVE TypeInv'
  <2>1. [kind |-> "backup", sensors |-> {s}, now |-> clock] \in Task
    BY <1>1 DEF RowTypes, Task
  <2>2. backups' \in [Sensors -> Nat]
    BY <1>1, <1>4 DEF StartBackup, RowTypes
  <2> QED BY <1>2, <1>4, <2>1, <2>2 DEF StartBackup
<1>5. CASE Query(w)
  <2>1. [sensor |-> [s \in Sensors |-> Read(s)], status |-> status] \in View
    BY <1>1, ReadType DEF RowTypes, View
  <2>2. WorkTypes'
    BY <1>1, <1>5, <2>1 DEF Query, WorkTypes, AtWork
  <2> QED BY <1>1, <1>5, <2>2, Parts DEF Query, RowTypes, history
<1>6. ASSUME Leave(w), RowTypes' PROVE TypeInv'
  BY <1>1, <1>6, LeaveType, Parts
<1>7. CASE Finish(w)
  BY <1>1, <1>6, <1>7 DEF Finish, RowTypes, history
<1>8. CASE CommitRaises(w)
  BY <1>1, <1>6, <1>8 DEF CommitRaises, RowTypes, history
<1>9. CASE Crash(w)
  BY <1>1, <1>6, <1>9 DEF Crash, RowTypes, history
<1>10. CASE Commit(w)
  <2>1. step[w] \in Step /\ task[w] \in Task
    BY <1>1, <1>10 DEF Commit, WorkTypes, AtWork
  <2>2. step[w].watch.sensor \in Sensors /\ Pair(step[w].watch) \in Pairs
    BY <2>1, WatchType DEF Step
  <2>3. status' \in Status
    BY <1>1, <1>10, <2>1, <2>2 DEF Commit, RowTypes, Status, Task
  <2> DEFINE id == step[w].watch.sensor
  <2>4. sensor' \in [Sensors -> SensorRow] /\ outages' \in [Sensors -> Nat]
    <3>1. [sensor[id] EXCEPT !.inactive = TRUE] \in SensorRow
      BY <1>1, <2>2, MarkedType DEF RowTypes
    <3>2. /\ sensor' = sensor \/ sensor' = [sensor EXCEPT ![id] = [sensor[id] EXCEPT !.inactive = TRUE]]
          /\ outages' = outages \/ outages' = [outages EXCEPT ![id] = outages[id] + 1]
      BY <1>10 DEF Commit
    <3> QED BY <1>1, <2>2, <3>1, <3>2 DEF RowTypes
  <2>5. RowTypes'
    BY <1>1, <1>10, <2>3, <2>4 DEF Commit, RowTypes
  <2>6. WorkTypes'
    BY <1>1, <1>10, <2>1 DEF Commit, WorkTypes, AtWork
  <2> QED BY <2>5, <2>6, Parts
<1>11. CASE Send(w)
  <2>1. step[w] \in Step /\ task[w] \in Task
    BY <1>1, <1>11 DEF Send, WorkTypes, AtWork
  <2>2. step[w].watch.sensor \in Sensors /\ step[w].watch.alert \in Alerts
    BY <2>1, WatchType DEF Step
  <2>3. RowTypes'
    BY <1>1, <1>11, <2>1, <2>2 DEF Send, RowTypes, Step, Task
  <2>4. WorkTypes'
    BY <1>1, <1>11 DEF Send, WorkTypes, AtWork
  <2> QED BY <2>3, <2>4, Parts
<1>12. CASE SendFails(w)
  <2>1. WorkTypes'
    BY <1>1, <1>12 DEF SendFails, WorkTypes, AtWork
  <2>2. RowTypes'
    BY <1>1, <1>12 DEF SendFails, RowTypes, history
  <2> QED BY <2>1, <2>2, Parts
<1>13. ASSUME NEW r \in rows[w], PassOver(w, r) PROVE TypeInv'
  <2>1. WorkTypes'
    BY <1>1, <1>13 DEF PassOver, WorkTypes, AtWork
  <2>2. RowTypes'
    BY <1>1, <1>13 DEF PassOver, RowTypes, history
  <2> QED BY <2>1, <2>2, Parts
<1>14. ASSUME NEW r \in rows[w], CheckRaises(w, r) PROVE TypeInv'
  BY <1>1, <1>6, <1>14 DEF CheckRaises, RowTypes, history
<1>15. ASSUME NEW r \in rows[w], Decide(w, r) PROVE TypeInv'
  <2> DEFINE d == [kind |-> IF IsBackup(w) THEN "up" ELSE "down",
                   watch |-> r, last |-> SensorOf(w, r).last,
                   marks |-> ~SensorOf(w, r).inactive,
                   found |-> StatusOf(w, r) # NULL]
  <2>1. r \in Watches
    BY <1>1 DEF WorkTypes
  <2>2. d \in Step /\ d.kind = IF IsBackup(w) THEN "up" ELSE "down"
    BY <2>1, LoadedType DEF Step, ReadRow
  <2>3. step' = [step EXCEPT ![w] = d] /\ pc' = [pc EXCEPT ![w] = Decided(w)]
    BY <1>15 DEF Decide
  <2> HIDE DEF d
  <2>4. d # Idle
    BY <2>2 DEF Step, Idle
  <2>5. task[w] \in Task
    BY <1>1, <1>15 DEF Decide, AtRow, WorkTypes, AtWork
  <2>6. WorkTypes'
    BY <1>1, <1>15, <2>2, <2>3, <2>4, <2>5 DEF Decide, Decided, WorkTypes, AtWork
  <2>7. RowTypes'
    BY <1>1, <1>15 DEF Decide, RowTypes, history
  <2> QED BY <2>6, <2>7, Parts
<1> QED BY <1>3, <1>4, <1>5, <1>7, <1>8, <1>9, <1>10, <1>11, <1>12, <1>13, <1>14, <1>15
    DEF Checking

LEMMA InitType == Init => TypeInv
<1> SUFFICES ASSUME Init PROVE RowTypes /\ WorkTypes
  BY Parts
<1>1. WorkTypes
  BY NoViewType DEF Init, WorkTypes, AtWork
<1>2. sensor \in [Sensors -> SensorRow]
  <2>1. [last: FirstUpdates, down: {FALSE}, inactive: {FALSE}] \subseteq SensorRow
    <3>1. \A last \in FirstUpdates : last \in Nat \cup {NULL}
      BY FirstUpdatesAssumption
    <3> QED BY <3>1 DEF SensorRow
  <2> QED BY <2>1 DEF Init
<1>3. RowTypes
  BY <1>2 DEF Init, RowTypes, Status, Post
<1> QED BY <1>1, <1>3

LEMMA NextType == TypeInv /\ [Next]_vars => TypeInv'
<1> SUFFICES ASSUME TypeInv, [Next]_vars PROVE TypeInv'
  OBVIOUS
<1>1. CASE UNCHANGED vars
  BY <1>1 DEF vars, taskVars, history, TypeInv, TypeOK, AtWork
<1>2. CASE Tick \/ \E d \in StatusWorkers : StatusRead(d) \/ StatusCommit(d)
  BY <1>2, StatusType
<1>3. ASSUME NEW q \in Posters, Posting(q) \/ \E s \in Sensors : PostLoad(q, s) PROVE TypeInv'
  BY <1>3, PostingType
<1>4. ASSUME NEW w \in Workers, Checking(w) PROVE TypeInv'
  BY <1>4, CheckingType
<1> QED BY <1>1, <1>2, <1>3, <1>4 DEF Next

(* Every variable keeps its type, for any constants: a worker at a commit  *)
(* has decided on a row, and whatever the tasks and posters write over     *)
(* each other, the rows keep the shapes the next one can read.             *)
THEOREM TypeCorrect == Spec => []TypeOK
<1>1. TypeInv => TypeOK
  BY DEF TypeInv
<1> QED BY <1>1, InitType, NextType, PTL DEF Spec

----------------------------------------------------------------------------
(* While nothing fails, a trace of an outage never goes away: the sensor   *)
(* was announced to be gone, or is about to be.                            *)
Gone(s) ==
    \/ \E m \in notes : m.kind = "down" /\ m.sensor = s
    \/ \E w \in Workers : pc[w] = "send" /\ step[w].kind = "down" /\ step[w].watch.sensor = s

(* Whatever takes the sensor to be inactive comes from such an outage: its *)
(* row, a poster that has read it, a queued recovery, the task that runs   *)
(* it, the rows and the step of that task, and the message in the end.     *)
RowsGone == \A s \in Sensors : sensor[s].inactive => Gone(s)
PostsGone == \A q \in Posters : post[q].at = "loaded" /\ post[q].row.inactive => Gone(post[q].sensor)
BackupsGone == \A s \in Sensors : backups[s] > 0 => Gone(s)
TasksGone == \A w \in Workers :
    IsBackup(w) => /\ \A s \in task[w].sensors : Gone(s)
                   /\ pc[w] \notin {"idle", "query"} => \A r \in rows[w] : Gone(r.sensor)
StepsGone == \A w \in Workers :
    pc[w] \in {"commit", "send"} /\ step[w].kind = "up" => Gone(step[w].watch.sensor)
NotesGone == \A n \in notes : n.kind = "up" => Gone(n.sensor)

AllGone == RowsGone /\ PostsGone /\ BackupsGone /\ TasksGone /\ StepsGone /\ NotesGone
Traced == faults = 0 => AllGone

(* No step takes the trace away, unless a worker that is about to send     *)
(* sends something else, or nothing.                                       *)
LEMMA GoneStays ==
    ASSUME notes \subseteq notes',
           \A w \in Workers :
               pc[w] = "send" /\ step[w].kind = "down" =>
                   \/ pc'[w] = "send" /\ step'[w] = step[w]
                   \/ \E m \in notes' : m.kind = "down" /\ m.sensor = step[w].watch.sensor
    PROVE  \A s : Gone(s) => Gone(s)'
BY DEF Gone

LEMMA NoFault ==
    ASSUME TypeInv, [Next]_vars, faults' = 0
    PROVE  faults = 0
<1>1. faults \in Nat
  BY DEF TypeInv, TypeOK
<1>2. faults' = faults \/ faults' = faults + 1
  BY DEF Next, vars, Tick, Posting, PostLoad, PostStamp, PostRaises, PostCommit, PostFails,
         StatusRead, StatusCommit, Checking, StartPeriodic, StartBackup, Start, Query, Finish,
         Commit, CommitRaises, Send, SendFails, Crash, PassOver, CheckRaises, Decide
<1> QED BY <1>1, <1>2

(* Steps of the posters.                                                   *)
LEMMA PostingTraces ==
    ASSUME TypeInv, AllGone, faults = 0, faults' = 0, NEW q \in Posters,
           Posting(q) \/ \E s \in Sensors : PostLoad(q, s)
    PROVE  AllGone'
<1>1. UNCHANGED <<notes, taskVars>>
  BY DEF Posting, PostLoad, PostStamp, PostRaises, PostCommit, PostFails, history
<1>2. \A s : Gone(s)' = Gone(s)
  BY <1>1 DEF Gone, taskVars
<1>3. TasksGone' /\ StepsGone' /\ NotesGone'
  BY <1>1, <1>2 DEF AllGone, TasksGone, StepsGone, NotesGone, taskVars, IsBackup
<1>4. post \in [Posters -> Post] /\ sensor \in [Sensors -> SensorRow] /\ backups \in [Sensors -> Nat]
  BY DEF TypeInv, TypeOK
<1>5. ASSUME NEW s \in Sensors, PostLoad(q, s) PROVE AllGone'
  BY <1>2, <1>3, <1>4, <1>5 DEF PostLoad, Read, AllGone, RowsGone, PostsGone, BackupsGone
<1>6. CASE PostStamp(q)
  <2>1. post[q].at = "loaded" /\ post[q].row.inactive => Gone(post[q].sensor)
    BY DEF AllGone, PostsGone
  <2>2. BackupsGone'
    BY <1>2, <1>4, <1>6, <2>1 DEF PostStamp, BackOnline, AllGone, BackupsGone
  <2> QED BY <1>2, <1>3, <1>4, <1>6, <2>2 DEF PostStamp, AllGone, RowsGone, PostsGone
<1>7. CASE PostRaises(q)
  BY <1>2, <1>3, <1>4, <1>7 DEF PostRaises, Free, AllGone, RowsGone, PostsGone, BackupsGone
<1>8. CASE PostCommit(q)
  BY <1>2, <1>3, <1>4, <1>8 DEF PostCommit, Stored, Free, AllGone, RowsGone, PostsGone, BackupsGone
<1>9. CASE PostFails(q)
  BY <1>9 DEF PostFails
<1> QED BY <1>5, <1>6, <1>7, <1>8, <1>9 DEF Posting

(* Steps of device_status and of the clock: neither touches is_inactive.   *)
LEMMA StatusTraces ==
    ASSUME TypeInv, AllGone, Tick \/ \E d \in StatusWorkers : StatusRead(d) \/ StatusCommit(d)
    PROVE  AllGone'
<1>1. UNCHANGED <<notes, taskVars, post, backups>>
  BY DEF Tick, StatusRead, StatusCommit, history
<1>2. \A s : Gone(s)' = Gone(s)
  BY <1>1 DEF Gone, taskVars
<1>3. \A s \in Sensors : sensor'[s].inactive = sensor[s].inactive
  BY DEF Tick, StatusRead, StatusCommit, TypeInv, TypeOK, SensorRow
<1> QED BY <1>1, <1>2, <1>3
    DEF AllGone, RowsGone, PostsGone, BackupsGone, TasksGone, StepsGone, NotesGone, taskVars, IsBackup

(* Steps of a worker that keep the rows of the sensors.                    *)
LEMMA WorkerTraces ==
    ASSUME AllGone, NEW w \in Workers, \A s : Gone(s) => Gone(s)',
           \A x \in Workers \ {w} : /\ pc'[x] = pc[x] /\ task'[x] = task[x]
                                    /\ rows'[x] = rows[x] /\ step'[x] = step[x],
           UNCHANGED <<sensor, post>>, BackupsGone', NotesGone',
           task'[w].kind = "backup" =>
               /\ \A s \in task'[w].sensors : Gone(s)
               /\ pc'[w] \notin {"idle", "query"} => \A r \in rows'[w] : Gone(r.sensor),
           pc'[w] \in {"commit", "send"} /\ step'[w].kind = "up" => Gone(step'[w].watch.sensor)
    PROVE  AllGone'
<1>1. RowsGone' /\ PostsGone'
  BY DEF AllGone, RowsGone, PostsGone
<1>2. TasksGone'
  BY DEF AllGone, TasksGone, IsBackup
<1>3. StepsGone'
  BY DEF AllGone, StepsGone
<1> QED BY <1>1, <1>2, <1>3 DEF AllGone

(* The steps of a worker.                                                  *)
LEMMA CheckingTraces ==
    ASSUME TypeInv, AllGone, faults = 0, faults' = 0, NEW w \in Workers, Checking(w)
    PROVE  AllGone'
<1>1. WorkTypes /\ backups \in [Sensors -> Nat] /\ sensor \in [Sensors -> SensorRow]
  BY Parts DEF RowTypes
<1> USE DEF WorkTypes
<1>2. ASSUME notes' = notes,
             pc[w] # "send" \/ (pc'[w] = "send" /\ step'[w] = step[w]),
             \A x \in Workers \ {w} : pc'[x] = pc[x] /\ step'[x] = step[x]
      PROVE  (\A s : Gone(s) => Gone(s)') /\ NotesGone'
  <2>1. \A s : Gone(s) => Gone(s)'
    BY <1>2, GoneStays
  <2> QED BY <1>2, <2>1 DEF AllGone, NotesGone
<1>3. ASSUME pc[w] # "send", Leave(w), UNCHANGED <<notes, sensor, post, backups>>
      PROVE  AllGone'
  <2>1. /\ \A x \in Workers \ {w} : /\ pc'[x] = pc[x] /\ task'[x] = task[x]
                                    /\ rows'[x] = rows[x] /\ step'[x] = step[x]
        /\ pc'[w] = "idle" /\ task'[w].kind # "backup"
    BY <1>1, <1>3 DEF Leave, Idle
  <2>2. (\A s : Gone(s) => Gone(s)') /\ NotesGone'
    BY <1>2, <1>3, <2>1
  <2>3. BackupsGone'
    BY <1>3, <2>2 DEF AllGone, BackupsGone
  <2> QED BY <1>3, <2>1, <2>2, <2>3, WorkerTraces
<1>4. CASE StartPeriodic(w)
  <2>1. /\ \A x \in Workers \ {w} : /\ pc'[x] = pc[x] /\ task'[x] = task[x]
                                    /\ rows'[x] = rows[x] /\ step'[x] = step[x]
        /\ pc[w] = "idle" /\ pc'[w] = "query" /\ task'[w].kind = "periodic"
        /\ UNCHANGED <<notes, sensor, post, backups>>
    BY <1>1, <1>4 DEF StartPeriodic, Start, history
  <2>2. (\A s : Gone(s) => Gone(s)') /\ NotesGone'
    BY <1>2, <2>1
  <2>3. BackupsGone'
    BY <2>1, <2>2 DEF AllGone, BackupsGone
  <2> QED BY <2>1, <2>2, <2>3, WorkerTraces
<1>5. ASSUME NEW s \in Sensors, StartBackup(w, s) PROVE AllGone'
  <2>1. /\ \A x \in Workers \ {w} : /\ pc'[x] = pc[x] /\ task'[x] = task[x]
                                    /\ rows'[x] = rows[x] /\ step'[x] = step[x]
        /\ pc[w] = "idle" /\ pc'[w] = "query" /\ task'[w].sensors = {s}
        /\ UNCHANGED <<notes, sensor, post>>
    BY <1>1, <1>5 DEF StartBackup, Start, history
  <2>2. (\A t : Gone(t) => Gone(t)') /\ NotesGone'
    BY <1>2, <2>1
  <2>3. Gone(s)
    BY <1>5 DEF StartBackup, AllGone, BackupsGone
  <2>4. \A t \in Sensors : backups'[t] > 0 => backups[t] > 0
    BY <1>1, <1>5 DEF StartBackup
  <2>5. BackupsGone'
    BY <2>2, <2>4 DEF AllGone, BackupsGone
  <2> QED BY <2>1, <2>2, <2>3, <2>5, WorkerTraces
<1>6. CASE Query(w)
  <2>1. /\ \A x \in Workers \ {w} : pc'[x] = pc[x] /\ rows'[x] = rows[x]
        /\ pc[w] = "query" /\ pc'[w] = "row"
        /\ rows'[w] = {r \in Watches : r.sensor \in task[w].sensors}
        /\ UNCHANGED <<notes, sensor, post, backups, task, step>>
    BY <1>1, <1>6 DEF Query, history
  <2>2. (\A s : Gone(s) => Gone(s)') /\ NotesGone'
    BY <1>2, <2>1
  <2>3. BackupsGone'
    BY <2>1, <2>2 DEF AllGone, BackupsGone
  <2>4. task[w].kind = "backup" => \A s \in task[w].sensors : Gone(s)
    BY DEF AllGone, TasksGone, IsBackup
  <2> QED BY <2>1, <2>2, <2>3, <2>4, WorkerTraces
<1>7. CASE Finish(w)
  BY <1>3, <1>7 DEF Finish, history
<1>8. CASE CommitRaises(w)
  BY <1>3, <1>8 DEF CommitRaises, history
<1>9. CASE Crash(w) \/ SendFails(w)
  BY <1>9 DEF Crash, SendFails
<1>10. CASE Commit(w)
  <2>1. /\ \A x \in Workers \ {w} : pc'[x] = pc[x]
        /\ pc[w] = "commit" /\ pc'[w] = "send"
        /\ UNCHANGED <<notes, post, backups, task, rows, step>>
    BY <1>1, <1>10 DEF Commit
  <2>2. (\A s : Gone(s) => Gone(s)') /\ NotesGone'
    BY <1>2, <2>1
  <2>3. step[w].kind = "down"
    BY <1>1, <2>1
  <2>4. Gone(step[w].watch.sensor)'
    BY <2>1, <2>3 DEF Gone
  <2>5. \A s \in Sensors : sensor'[s].inactive =>
            sensor[s].inactive \/ s = step[w].watch.sensor
    BY <1>1, <1>10 DEF Commit
  <2>6. RowsGone' /\ PostsGone' /\ BackupsGone'
    BY <2>1, <2>2, <2>4, <2>5 DEF AllGone, RowsGone, PostsGone, BackupsGone
  <2>7. TasksGone' /\ StepsGone'
    BY <2>1, <2>2, <2>3 DEF AllGone, TasksGone, StepsGone, IsBackup
  <2> QED BY <2>2, <2>6, <2>7 DEF AllGone
<1>11. CASE Send(w)
  <2> DEFINE n == [kind |-> step[w].kind, alert |-> step[w].watch.alert,
                   sensor |-> step[w].watch.sensor, last |-> step[w].last, at |-> task[w].now]
  <2>1. /\ \A x \in Workers \ {w} : pc'[x] = pc[x] /\ step'[x] = step[x]
        /\ pc[w] = "send" /\ pc'[w] = "row" /\ notes' = notes \cup {n}
        /\ UNCHANGED <<sensor, post, backups, task, rows>>
    BY <1>1, <1>11 DEF Send
  <2>2. n.kind = step[w].kind /\ n.sensor = step[w].watch.sensor
    OBVIOUS
  <2> HIDE DEF n
  <2>3. \A s : Gone(s) => Gone(s)'
    BY <2>1, <2>2, GoneStays
  <2>4. NotesGone'
    <3>1. step[w].kind = "up" => Gone(step[w].watch.sensor)
      BY <2>1 DEF AllGone, StepsGone
    <3> QED BY <2>1, <2>2, <2>3, <3>1 DEF AllGone, NotesGone
  <2>5. BackupsGone'
    BY <2>1, <2>3 DEF AllGone, BackupsGone
  <2>6. task[w].kind = "backup" =>
            (\A s \in task[w].sensors : Gone(s)) /\ \A r \in rows[w] : Gone(r.sensor)
    BY <2>1 DEF AllGone, TasksGone, IsBackup
  <2> QED BY <2>1, <2>3, <2>4, <2>5, <2>6, WorkerTraces
<1>12. ASSUME NEW r \in rows[w], PassOver(w, r) PROVE AllGone'
  <2>1. /\ \A x \in Workers \ {w} : rows'[x] = rows[x]
        /\ pc[w] = "row" /\ rows'[w] \subseteq rows[w]
        /\ UNCHANGED <<notes, sensor, post, backups, pc, task, step>>
    BY <1>1, <1>12 DEF PassOver, AtRow, history
  <2>2. (\A s : Gone(s) => Gone(s)') /\ NotesGone'
    BY <1>2, <2>1
  <2>3. BackupsGone'
    BY <2>1, <2>2 DEF AllGone, BackupsGone
  <2>4. task[w].kind = "backup" =>
            (\A s \in task[w].sensors : Gone(s)) /\ \A x \in rows[w] : Gone(x.sensor)
    BY <2>1 DEF AllGone, TasksGone, IsBackup
  <2> QED BY <2>1, <2>2, <2>3, <2>4, WorkerTraces
<1>13. ASSUME NEW r \in rows[w], CheckRaises(w, r) PROVE AllGone'
  BY <1>3, <1>13 DEF CheckRaises, AtRow, history
<1>14. ASSUME NEW r \in rows[w], Decide(w, r) PROVE AllGone'
  <2>1. /\ \A x \in Workers \ {w} : pc'[x] = pc[x] /\ rows'[x] = rows[x] /\ step'[x] = step[x]
        /\ pc[w] = "row" /\ rows'[w] \subseteq rows[w]
        /\ step'[w].watch = r /\ (step'[w].kind = "up" => task[w].kind = "backup")
        /\ UNCHANGED <<notes, sensor, post, backups, task>>
    BY <1>1, <1>14 DEF Decide, AtRow, IsBackup, history
  <2>2. (\A s : Gone(s) => Gone(s)') /\ NotesGone'
    BY <1>2, <2>1
  <2>3. BackupsGone'
    BY <2>1, <2>2 DEF AllGone, BackupsGone
  <2>4. task[w].kind = "backup" =>
            (\A s \in task[w].sensors : Gone(s)) /\ \A x \in rows[w] : Gone(x.sensor)
    BY <2>1 DEF AllGone, TasksGone, IsBackup
  <2> QED BY <2>1, <2>2, <2>3, <2>4, WorkerTraces
<1> QED BY <1>4, <1>5, <1>6, <1>7, <1>8, <1>9, <1>10, <1>11, <1>12, <1>13, <1>14 DEF Checking

LEMMA InitTraces == Init => Traced
<1> SUFFICES ASSUME Init PROVE AllGone
  BY DEF Traced
<1>1. \A s \in Sensors : sensor[s].inactive = FALSE
  <2>1. sensor \in [Sensors -> [last: FirstUpdates, down: {FALSE}, inactive: {FALSE}]]
    BY DEF Init
  <2> QED BY <2>1
<1>2. \A q \in Posters : post[q].at = "free"
  BY DEF Init, Free
<1>3. \A s \in Sensors : ~(backups[s] > 0)
  <2>1. \A s \in Sensors : backups[s] = 0
    BY Zenon DEF Init
  <2>2. ~(0 > 0)
    OBVIOUS
  <2> QED BY <2>1, <2>2, Zenon
<1>4. \A w \in Workers : pc[w] = "idle" /\ task[w].kind = "none"
  BY DEF Init, Idle
<1>5. notes = {}
  BY DEF Init
<1> QED BY <1>1, <1>2, <1>3, <1>4, <1>5
    DEF AllGone, RowsGone, PostsGone, BackupsGone, TasksGone, StepsGone, NotesGone, IsBackup

LEMMA NextTraces == TypeInv /\ Traced /\ [Next]_vars => Traced'
<1> SUFFICES ASSUME TypeInv, Traced, [Next]_vars, faults' = 0 PROVE AllGone'
  BY DEF Traced
<1>1. faults = 0 /\ AllGone
  BY NoFault DEF Traced
<1>2. CASE UNCHANGED vars
  <2>1. UNCHANGED <<sensor, backups, post, pc, task, rows, step, notes>>
    BY <1>2 DEF vars, taskVars, history
  <2>2. \A s : Gone(s)' = Gone(s)
    BY <2>1 DEF Gone
  <2> QED BY <1>1, <2>1, <2>2
      DEF AllGone, RowsGone, PostsGone, BackupsGone, TasksGone, StepsGone, NotesGone, IsBackup
<1>3. CASE Tick \/ \E d \in StatusWorkers : StatusRead(d) \/ StatusCommit(d)
  BY <1>1, <1>3, StatusTraces
<1>4. ASSUME NEW q \in Posters, Posting(q) \/ \E s \in Sensors : PostLoad(q, s) PROVE AllGone'
  BY <1>1, <1>4, PostingTraces
<1>5. ASSUME NEW w \in Workers, Checking(w) PROVE AllGone'
  BY <1>1, <1>5, CheckingTraces
<1> QED BY <1>2, <1>3, <1>4, <1>5 DEF Next

(* For any number of posters and workers: a sensor is announced to be back *)
(* only after it was announced to be gone, or while it is about to be.     *)
THEOREM UpFollowsDownHolds == Spec => []UpFollowsDown
<1>1. Traced => UpFollowsDown
  BY DEF Traced, AllGone, NotesGone, Gone, UpFollowsDown
<1> QED BY <1>1, InitType, NextType, InitTraces, NextTraces, PTL DEF Spec

----------------------------------------------------------------------------
(* One poster, q.  Its request ends an outage that it has read; between    *)
(* that and its commit the sensor is still marked inactive, with its       *)
(* recovery counted.                                                       *)
Ending(q, s) == post[q].at = "stamped" /\ post[q].sensor = s

Counted(q) ==
    /\ \A s \in Sensors : recoveries[s] <= outages[s]
    /\ \A s \in Sensors : sensor[s].inactive /\ ~Ending(q, s) => recoveries[s] < outages[s]
    /\ post[q].at = "loaded" /\ post[q].row.inactive => sensor[post[q].sensor].inactive

LEMMA NextCounts ==
    ASSUME NEW q, Posters = {q}, TypeInv, Counted(q), [Next]_vars, faults' = 0
    PROVE  Counted(q)'
<1>1. /\ post \in [Posters -> Post] /\ sensor \in [Sensors -> SensorRow] /\ post[q] \in Post
      /\ outages \in [Sensors -> Nat] /\ recoveries \in [Sensors -> Nat]
      /\ faults \in Nat
  BY DEF TypeInv, TypeOK
<1>2. ASSUME UNCHANGED <<post, outages, recoveries>>,
             \A s \in Sensors : sensor'[s].inactive = sensor[s].inactive
      PROVE  Counted(q)'
  <2>1. post[q].at = "loaded" => post[q].sensor \in Sensors
    BY <1>1 DEF Post, Free
  <2> QED BY <1>2, <2>1 DEF Counted, Ending
<1>3. CASE Tick \/ \E d \in StatusWorkers : StatusRead(d) \/ StatusCommit(d)
  <2>1. \A s \in Sensors : sensor'[s].inactive = sensor[s].inactive
    BY <1>1, <1>3 DEF Tick, StatusRead, StatusCommit, SensorRow
  <2> QED BY <1>2, <1>3, <2>1 DEF Tick, StatusRead, StatusCommit, history
<1>4. ASSUME NEW s \in Sensors, PostLoad(q, s) PROVE Counted(q)'
  <2>1. /\ post'[q] = [at |-> "loaded", sensor |-> s, row |-> Read(s)]
        /\ post[q].at = "free" /\ UNCHANGED <<sensor, outages, recoveries>>
    BY <1>1, <1>4 DEF PostLoad, Free, history
  <2> QED BY <2>1 DEF Counted, Ending, Read
<1>5. CASE PostStamp(q)
  <2> DEFINE id == post[q].sensor
  <2>1. /\ post[q].at = "loaded" /\ id \in Sensors /\ post[q].row.inactive \in BOOLEAN
        /\ post'[q].at = "stamped" /\ post'[q].sensor = id
        /\ UNCHANGED <<sensor, outages>>
    BY <1>1, <1>5 DEF PostStamp, Post, Free, ReadRow
  <2>2. recoveries' = IF post[q].row.inactive THEN [recoveries EXCEPT ![id] = recoveries[id] + 1]
                      ELSE recoveries
    BY <1>5 DEF PostStamp, BackOnline
  <2>3. post[q].row.inactive => recoveries[id] < outages[id]
    BY <2>1 DEF Counted, Ending
  <2> HIDE DEF id
  <2>4. \A s \in Sensors : recoveries'[s] <= outages[s] /\ (s # id => recoveries'[s] = recoveries[s])
    BY <1>1, <2>1, <2>2, <2>3 DEF Counted
  <2> QED BY <1>1, <2>1, <2>4 DEF Counted, Ending
<1>6. CASE PostRaises(q)
  <2>1. /\ post[q].at = "loaded" /\ post'[q].at = "free"
        /\ UNCHANGED <<sensor, outages, recoveries>>
    BY <1>1, <1>6 DEF PostRaises, Free
  <2> QED BY <2>1 DEF Counted, Ending
<1>7. CASE PostCommit(q)
  <2> DEFINE id == post[q].sensor
  <2>1. /\ post[q].at = "stamped" /\ post'[q].at = "free"
        /\ UNCHANGED <<outages, recoveries>>
    BY <1>1, <1>7 DEF PostCommit, Free, history
  <2>2. \A s \in Sensors : sensor'[s].inactive => sensor[s].inactive /\ s # id
    BY <1>1, <1>7 DEF PostCommit, Stored
  <2> QED BY <2>1, <2>2 DEF Counted, Ending
<1>8. CASE PostFails(q)
  BY <1>1, <1>8 DEF PostFails
<1>9. ASSUME NEW w \in Workers, Checking(w) PROVE Counted(q)'
  <2>1. CASE ~Commit(w)
    <3>1. UNCHANGED <<post, outages, recoveries, sensor>>
      BY <1>9, <2>1 DEF Checking, StartPeriodic, StartBackup, Start, Query, Finish, CommitRaises,
                        Send, SendFails, Crash, PassOver, CheckRaises, Decide, history
    <3> QED BY <1>2, <3>1
  <2>2. CASE Commit(w)
    <3> DEFINE id == step[w].watch.sensor
    <3>1. UNCHANGED <<post, recoveries>>
      BY <2>2 DEF Commit
    <3>2. id \in Sensors
      <4>1. step[w] \in Step
        BY <2>2, Parts DEF Commit, WorkTypes, AtWork
      <4> QED BY <4>1, WatchType DEF Step
    <3>3. CASE ~step[w].marks
      BY <1>2, <2>2, <3>1, <3>3 DEF Commit
    <3>4. CASE step[w].marks
      <4>1. sensor' = [sensor EXCEPT ![id].inactive = TRUE]
        BY <2>2, <3>4 DEF Commit
      <4>2. outages' = IF ~sensor[id].inactive THEN [outages EXCEPT ![id] = outages[id] + 1]
                       ELSE outages
        BY <2>2, <3>4 DEF Commit
      <4> HIDE DEF id
      <4>3. \A s \in Sensors : /\ sensor'[s].inactive = (sensor[s].inactive \/ s = id)
                               /\ s # id \/ sensor[s].inactive => outages'[s] = outages[s]
                               /\ s = id /\ ~sensor[s].inactive => outages'[s] = outages[s] + 1
        BY <1>1, <3>2, <4>1, <4>2 DEF SensorRow
      <4>4. ASSUME NEW s \in Sensors
            PROVE  /\ recoveries[s] <= outages'[s]
                   /\ sensor'[s].inactive /\ ~Ending(q, s) => recoveries[s] < outages'[s]
        <5>1. recoveries[s] \in Nat /\ outages[s] \in Nat /\ recoveries[s] <= outages[s]
          BY <1>1 DEF Counted
        <5>2. sensor[s].inactive /\ ~Ending(q, s) => recoveries[s] < outages[s]
          BY DEF Counted
        <5>3. \/ outages'[s] = outages[s] + 1
              \/ outages'[s] = outages[s] /\ (sensor'[s].inactive => sensor[s].inactive)
          BY <4>3
        <5> QED BY <5>1, <5>2, <5>3
      <4>5. post[q].at = "loaded" => post[q].sensor \in Sensors
        BY <1>1 DEF Post, Free
      <4> QED BY <3>1, <4>3, <4>4, <4>5 DEF Counted, Ending
    <3> QED BY <3>3, <3>4
  <2> QED BY <2>1, <2>2
<1>10. CASE UNCHANGED vars
  BY <1>2, <1>10 DEF vars, history
<1> QED BY <1>3, <1>4, <1>5, <1>6, <1>7, <1>8, <1>9, <1>10 DEF Next, Posting

LEMMA InitCounts ==
    ASSUME NEW q, Posters = {q}, Init
    PROVE  Counted(q)
<1>1. \A s \in Sensors : sensor[s].inactive = FALSE
  <2>1. sensor \in [Sensors -> [last: FirstUpdates, down: {FALSE}, inactive: {FALSE}]]
    BY DEF Init
  <2> QED BY <2>1
<1>2. \A s \in Sensors : recoveries[s] = 0 /\ outages[s] = 0
  BY Zenon DEF Init
<1>3. post[q].at = "free"
  BY DEF Init, Free
<1> QED BY <1>1, <1>2, <1>3 DEF Counted

(* With one poster, any number of workers of the other tasks and no fault: *)
(* a sensor is announced to be back only after it was announced to be      *)
(* gone, and comes back no more often than it was lost.                    *)
THEOREM RecoveryFollowsOutageHolds ==
    ASSUME NEW q, Posters = {q}
    PROVE  Spec => []RecoveryFollowsOutage
<1> DEFINE Inv == TypeInv /\ Traced /\ (faults = 0 => Counted(q))
<1>1. Init => Inv
  BY InitType, InitTraces, InitCounts
<1>2. Inv /\ [Next]_vars => Inv'
  <2> SUFFICES ASSUME Inv, [Next]_vars PROVE Inv'
    OBVIOUS
  <2>1. TypeInv' /\ Traced'
    BY NextType, NextTraces
  <2>2. (faults = 0 => Counted(q))'
    BY NoFault, NextCounts
  <2> QED BY <2>1, <2>2
<1>3. Inv => RecoveryFollowsOutage
  BY DEF Traced, AllGone, NotesGone, Gone, UpFollowsDown, Counted, RecoveryPerOutage,
         RecoveryFollowsOutage
<1> QED BY <1>1, <1>2, <1>3, PTL DEF Spec

----------------------------------------------------------------------------
(* One check at a time.  A status row holds the time of its latest message *)
(* and only the task at work writes it: what the task has found of a row   *)
(* is what is stored, and what it decides looks back on a later value.     *)
PairOf(n) == <<n.alert, n.sensor>>

NotesRecorded ==
    \A n \in notes : n.kind = "down" => /\ PairOf(n) \in Pairs /\ status[PairOf(n)] # NULL
                                        /\ n.at <= status[PairOf(n)]

InTurn(w) ==
    /\ pc[w] # "idle" => task[w].now <= clock
    /\ \A p \in Pairs : status[p] <= IF pc[w] = "idle" THEN clock ELSE task[w].now

ViewCurrent(w) ==
    pc[w] \in {"row", "commit", "send"} /\ ~expired[w] => view[w].status = status

Deciding(w) ==
    LET p == Pair(step[w].watch)
    IN  pc[w] = "commit" /\ step[w].found => status[p] # NULL /\ status[p] < step[w].last

Announcing(w) ==
    LET s == step[w]
    IN  pc[w] = "send" /\ s.kind = "down" =>
          /\ status[Pair(s.watch)] = task[w].now
          /\ \A m \in notes : m.kind = "down" /\ PairOf(m) = Pair(s.watch) /\ m.at < task[w].now
                                => m.at < s.last

Silenced(w) ==
    /\ NotesRecorded /\ InTurn(w) /\ ViewCurrent(w) /\ Deciding(w) /\ Announcing(w)
    /\ OneDownPerSilence

LEMMA InitSilenced == ASSUME NEW w \in Workers, Init PROVE Silenced(w)
BY DEF Init, Silenced, NotesRecorded, InTurn, ViewCurrent, Deciding, Announcing,
       OneDownPerSilence, NULL

(* Time passes; posters and device_status write no status row.             *)
LEMMA FrameSilenced ==
    ASSUME NEW w \in Workers, TypeInv, Silenced(w), clock' \in {clock, clock + 1},
           UNCHANGED <<status, pc, task, view, expired, step, notes>>
    PROVE  Silenced(w)'
<1>1. /\ clock \in Nat /\ status \in Status
      /\ pc[w] # "idle" => task[w].now \in Nat
  BY DEF TypeInv, TypeOK, AtWork, Task
<1>2. InTurn(w)'
  BY <1>1 DEF Silenced, InTurn, Status, NULL
<1> QED BY <1>2 DEF Silenced, NotesRecorded, ViewCurrent, Deciding, Announcing, OneDownPerSilence

(* A task that returns or raises.                                          *)
LEMMA LeaveSilenced ==
    ASSUME NEW w \in Workers, TypeInv, Silenced(w), pc[w] # "idle", Leave(w),
           UNCHANGED <<clock, status, notes>>
    PROVE  Silenced(w)'
<1>1. pc'[w] = "idle"
  BY DEF Leave, TypeInv, TypeOK
<1>2. /\ clock \in Nat /\ status \in Status /\ task[w].now \in Nat
  BY DEF TypeInv, TypeOK, AtWork, Task
<1>3. InTurn(w)'
  BY <1>1, <1>2 DEF Silenced, InTurn, Status, NULL
<1> QED BY <1>1, <1>3 DEF Silenced, NotesRecorded, ViewCurrent, Deciding, Announcing,
                         OneDownPerSilence

(* Where the found row of a decision comes from.                           *)
LEMMA StatusFound ==
    ASSUME NEW w \in Workers, Silenced(w), pc[w] = "row", NEW r \in Watches,
           StatusOf(w, r) # NULL
    PROVE  StatusOf(w, r) = status[Pair(r)]
BY DEF Silenced, ViewCurrent, StatusOf

LEMMA DecideSilenced ==
    ASSUME NEW w \in Workers, TypeInv, Silenced(w), NEW r \in rows[w], Decide(w, r)
    PROVE  Silenced(w)'
<1>1. /\ r \in Watches /\ pc[w] = "row" /\ pc'[w] \in {"commit", "send"}
      /\ UNCHANGED <<clock, status, task, view, expired, notes>>
      /\ step'[w].watch = r /\ step'[w].last = SensorOf(w, r).last
      /\ step'[w].found = (StatusOf(w, r) # NULL)
  BY DEF Decide, AtRow, Decided, TypeInv, TypeOK, history
<1>2. /\ IsBackup(w) => pc'[w] = "send" /\ step'[w].kind = "up"
      /\ ~IsBackup(w) => pc'[w] = "commit" /\ NewSilence(w, r)
  BY DEF Decide, Decided, PassesTests, TypeInv, TypeOK
<1>3. Deciding(w)'
  BY <1>1, <1>2, StatusFound DEF Deciding, NewSilence
<1>4. Announcing(w)'
  BY <1>1, <1>2 DEF Announcing
<1> QED BY <1>1, <1>3, <1>4 DEF Silenced, NotesRecorded, InTurn, ViewCurrent, OneDownPerSilence

LEMMA CommitSilenced ==
    ASSUME NEW w \in Workers, TypeInv, Silenced(w), Commit(w)
    PROVE  Silenced(w)'
<1> DEFINE p == Pair(step[w].watch)
           now == task[w].now
<1>1. /\ pc[w] = "commit" /\ pc'[w] = "send" /\ status' = [status EXCEPT ![p] = now]
      /\ UNCHANGED <<clock, task, view, step, notes>>
      /\ step[w].found \/ status[p] = NULL
  BY DEF Commit, Duplicate, TypeInv, TypeOK
<1>2. step[w] \in Step /\ step[w].kind = "down" /\ now \in Nat /\ p \in Pairs
  <2>1. step[w] \in Step /\ task[w] \in Task
    BY <1>1 DEF TypeInv, AtWork
  <2> QED BY <1>1, <2>1, WatchType DEF TypeInv, TypeOK, Step, Task
<1>3. status \in Status /\ notes \subseteq [kind: {"up", "down"}, alert: Alerts, sensor: Sensors,
                                           last: Nat \cup {NULL}, at: Nat]
  BY DEF TypeInv, TypeOK
<1> HIDE DEF p, now
<1>4. /\ status'[p] = now /\ status[p] <= now
      /\ \A q \in Pairs : q # p => status'[q] = status[q]
  BY <1>1, <1>2, <1>3 DEF Status, Silenced, InTurn, now
<1>5. NotesRecorded'
  <2> SUFFICES ASSUME NEW n \in notes, n.kind = "down"
               PROVE  /\ PairOf(n) \in Pairs /\ status'[PairOf(n)] # NULL
                      /\ n.at <= status'[PairOf(n)]
    BY <1>1 DEF NotesRecorded, PairOf
  <2>1. /\ PairOf(n) \in Pairs /\ status[PairOf(n)] # NULL /\ n.at <= status[PairOf(n)]
        /\ n.at \in Nat
    BY <1>3 DEF Silenced, NotesRecorded
  <2>2. CASE PairOf(n) # p
    BY <1>4, <2>1, <2>2
  <2>3. CASE PairOf(n) = p
    BY <1>2, <1>3, <1>4, <2>1, <2>3 DEF Status, NULL
  <2> QED BY <2>2, <2>3
<1>6. InTurn(w)'
  BY <1>1, <1>2, <1>4 DEF Silenced, InTurn, now
<1>7. Announcing(w)'
  <2> SUFFICES ASSUME NEW m \in notes, m.kind = "down", PairOf(m) = p, m.at < now
               PROVE  m.at < step[w].last
    BY <1>1, <1>4 DEF Announcing, PairOf, p, now
  <2>1. status[p] # NULL /\ m.at <= status[p]
    BY DEF Silenced, NotesRecorded
  <2>2. status[p] < step[w].last
    BY <1>1, <2>1 DEF Silenced, Deciding, p
  <2>3. m.at \in Nat /\ status[p] \in Nat /\ step[w].last \in Int
    BY <1>2, <1>3, <2>1 DEF Status, Step, NULL
  <2> QED BY <2>1, <2>2, <2>3
<1>8. ViewCurrent(w)'
  <2>1. expired'[w]
    BY DEF Commit, TypeInv, TypeOK
  <2> QED BY <2>1 DEF ViewCurrent
<1> QED BY <1>1, <1>5, <1>6, <1>7, <1>8 DEF Silenced, Deciding, OneDownPerSilence

LEMMA SendSilenced ==
    ASSUME NEW w \in Workers, TypeInv, Silenced(w), Send(w)
    PROVE  Silenced(w)'
<1> DEFINE s == step[w]
           now == task[w].now
           note == [kind |-> s.kind, alert |-> s.watch.alert, sensor |-> s.watch.sensor,
                    last |-> s.last, at |-> now]
<1>1. /\ pc[w] = "send" /\ pc'[w] = "row" /\ notes' = notes \cup {note}
      /\ UNCHANGED <<clock, status, task, view, expired>>
  BY DEF Send, TypeInv, TypeOK
<1>2. s \in Step /\ now \in Nat /\ Pair(s.watch) \in Pairs /\ PairOf(note) = Pair(s.watch)
  <2>1. s \in Step /\ task[w] \in Task
    BY <1>1 DEF TypeInv, AtWork
  <2> QED BY <2>1, WatchType DEF Step, Task, Pair, PairOf
<1>3. s.kind = "down" => status[PairOf(note)] = now
  BY <1>1, <1>2 DEF Silenced, Announcing
<1>4. NotesRecorded'
  BY <1>1, <1>2, <1>3 DEF Silenced, NotesRecorded, PairOf, NULL
<1>5. OneDownPerSilence'
  <2> SUFFICES ASSUME NEW m \in notes \cup {note}, NEW n \in notes \cup {note},
                      m.kind = "down", n.kind = "down", m.alert = n.alert, m.sensor = n.sensor,
                      m.at < n.at
               PROVE  m.at < n.last
    BY <1>1 DEF OneDownPerSilence
  <2>1. CASE m \in notes /\ n \in notes
    BY <2>1 DEF Silenced, OneDownPerSilence
  <2>2. CASE m \in notes /\ n = note
    BY <1>1, <1>2, <2>2 DEF Silenced, Announcing, PairOf
  <2>3. CASE m = note /\ n \in notes
    <3>1. n.at <= now
      BY <1>2, <1>3, <2>3 DEF Silenced, NotesRecorded, PairOf
    <3>2. n.at \in Nat
      BY <2>3 DEF TypeInv, TypeOK
    <3> QED BY <1>2, <2>3, <3>1, <3>2
  <2>4. CASE m = note /\ n = note
    BY <1>2, <2>4
  <2> QED BY <2>1, <2>2, <2>3, <2>4
<1> QED BY <1>1, <1>4, <1>5 DEF Silenced, InTurn, ViewCurrent, Deciding, Announcing

LEMMA CheckingSilenced ==
    ASSUME NEW w \in Workers, TypeInv, Silenced(w), Checking(w)
    PROVE  Silenced(w)'
<1>1. CASE StartPeriodic(w) \/ \E s \in Sensors : StartBackup(w, s)
  <2>1. /\ pc[w] = "idle" /\ pc'[w] = "query" /\ task'[w].now = clock
        /\ UNCHANGED <<clock, status, notes>>
    BY <1>1 DEF StartPeriodic, StartBackup, Start, TypeInv, TypeOK, history
  <2> QED BY <2>1 DEF TypeInv, TypeOK, Silenced, NotesRecorded, InTurn, ViewCurrent, Deciding,
                      Announcing, OneDownPerSilence
<1>2. CASE Query(w)
  <2>1. /\ pc[w] = "query" /\ pc'[w] = "row" /\ view'[w].status = status
        /\ UNCHANGED <<clock, status, task, notes>>
    BY <1>2 DEF Query, TypeInv, TypeOK, history
  <2> QED BY <2>1 DEF Silenced, NotesRecorded, InTurn, ViewCurrent, Deciding, Announcing,
                      OneDownPerSilence
<1>3. CASE Finish(w) \/ CommitRaises(w) \/ Crash(w) \/ \E r \in rows[w] : CheckRaises(w, r)
  <2>1. pc[w] # "idle" /\ Leave(w) /\ UNCHANGED <<clock, status, notes>>
    BY <1>3 DEF Finish, CommitRaises, Crash, CheckRaises, AtRow, history
  <2> QED BY <2>1, LeaveSilenced
<1>4. CASE Commit(w)
  BY <1>4, CommitSilenced
<1>5. CASE Send(w)
  BY <1>5, SendSilenced
<1>6. CASE SendFails(w)
  <2>1. /\ pc[w] = "send" /\ pc'[w] = "row"
        /\ UNCHANGED <<clock, status, task, view, expired, notes>>
    BY <1>6 DEF SendFails, TypeInv, TypeOK, history
  <2> QED BY <2>1 DEF Silenced, NotesRecorded, InTurn, ViewCurrent, Deciding, Announcing,
                      OneDownPerSilence
<1>7. ASSUME NEW r \in rows[w], PassOver(w, r) PROVE Silenced(w)'
  BY <1>7, FrameSilenced DEF PassOver, history
<1>8. ASSUME NEW r \in rows[w], Decide(w, r) PROVE Silenced(w)'
  BY <1>8, DecideSilenced
<1> QED BY <1>1, <1>2, <1>3, <1>4, <1>5, <1>6, <1>7, <1>8 DEF Checking

(* With one check at a time, killed or not, and any number of posters: an  *)
(* alert is sent for a sensor once in each of its silences, however stale  *)
(* the rows are that the check has read.                                   *)
THEOREM OneDownPerSilenceHolds ==
    ASSUME NEW w, Workers = {w}
    PROVE  Spec => []OneDownPerSilence
<1>1. Init => Silenced(w)
  BY InitSilenced
<1>2. TypeInv /\ Silenced(w) /\ [Next]_vars => Silenced(w)'
  <2> SUFFICES ASSUME TypeInv, Silenced(w), [Next]_vars PROVE Silenced(w)'
    OBVIOUS
  <2>1. CASE Tick
    BY <2>1, FrameSilenced DEF Tick, taskVars, history
  <2>2. ASSUME NEW q \in Posters, Posting(q) \/ \E s \in Sensors : PostLoad(q, s)
        PROVE  Silenced(w)'
    BY <2>2, FrameSilenced DEF Posting, PostStamp, PostRaises, PostCommit, PostFails, PostLoad,
                               taskVars, history
  <2>3. ASSUME NEW d \in StatusWorkers, StatusRead(d) \/ StatusCommit(d) PROVE Silenced(w)'
    BY <2>3, FrameSilenced DEF StatusRead, StatusCommit, taskVars, history
  <2>4. CASE Checking(w)
    BY <2>4, CheckingSilenced
  <2>5. CASE UNCHANGED vars
    BY <2>5, FrameSilenced DEF vars, taskVars, history
  <2> QED BY <2>1, <2>2, <2>3, <2>4, <2>5 DEF Next
<1>3. Silenced(w) => OneDownPerSilence
  BY DEF Silenced
<1> QED BY <1>1, <1>2, <1>3, InitType, NextType, PTL DEF Spec
=============================================================================
