------------------------ MODULE AlertProcessingProofs ------------------------
(***************************************************************************)
(* Proofs about process_alert for any alerts, networks and posted values:  *)
(* what holds of any number of workers first, then what one worker alone   *)
(* can promise (no duplicate INSERT, the refinement of AlertEpisode, the   *)
(* stamps, the durations).                                                 *)
(***************************************************************************)
EXTENDS AlertProcessing, TLAPS

----------------------------------------------------------------------------
(* Lemmas about the operators the task is built from *)

(* The comparison of a posted value is a truth value whatever the reading. *)
LEMMA TriggeredBoolean ==
  ASSUME NEW a, NEW v PROVE IsAlertTriggered(a, v) \in BOOLEAN
  BY DEF IsAlertTriggered

LEMMA NoTaskType == NoTask \in Task
  BY ReadingsAssumption DEF NoTask, Task

LEMMA NoViewType == NoView \in [Alerts -> Row]
  BY DEF NoView, NoRow, Row, Flags, NULL

(* A row object is a well-formed row, from the query or read again.        *)
LEMMA LoadedType ==
  ASSUME TypeOK, NEW w \in Workers, NEW a \in Alerts
  PROVE  Loaded(w, a) \in Row
  BY DEF TypeOK, Loaded

(* The start of an episode is a point in time, never NULL.                 *)
LEMMA SinceType ==
  ASSUME NEW row \in Row, NEW now \in Nat
  PROVE  Since(row, now) \in Nat
  BY DEF Since, Row, NULL

LEMMA NoteType ==
  ASSUME NEW kind \in {"triggered", "actuate", "reset"}, NEW a \in Alerts,
         NEW row \in Row, NEW now \in Nat
  PROVE  Note(kind, a, row, now) \in NoteRecord
  BY SinceType DEF Note, NoteRecord, Row

(* What a commit writes is a well-formed row.                              *)
LEMMA WrittenType ==
  ASSUME NEW s \in Step, NEW old \in Row, NEW now \in Nat
  PROVE  Updated(old, s, now) \in Row /\ Inserted(s, now) \in Row
  <1>1. Inserted(s, now) \in Row
    BY DEF Inserted, Row, Flags
  <1>2. CASE s.kind = "reset"
    BY <1>1, <1>2 DEF Updated, Row, Flags, NULL
  <1>3. CASE s.kind = "hold"
    BY <1>1, <1>3 DEF Updated, Row, Flags, NULL
  <1>4. CASE s.kind = "fire"
    BY <1>1, <1>4 DEF Updated, Row, Flags, NULL
  <1> QED BY <1>2, <1>3, <1>4 DEF Step

(* A row of the query names an alert and, perhaps, an association.         *)
LEMMA RowParts ==
  ASSUME NEW r \in JoinRow
  PROVE  r[1] \in Alerts /\ r[3] \in Associations \cup {None}
  BY DEF JoinRow

LEMMA ReportType ==
  ASSUME TypeOK, NEW w \in Workers
  PROVE  Report(task[w].value, task[w].now) \subseteq ReportRecord
  <1>1. \A r \in QueryRows : r[1] \in Alerts
    BY RowParts DEF QueryRows
  <1>2. task[w].now \in Nat
    BY DEF TypeOK, Task
  <1> QED BY <1>1, <1>2, TriggeredBoolean DEF Report, ReportRecord

----------------------------------------------------------------------------
(* Type correctness *)

LEMMA InitTypeOK == Init => TypeOK
  BY NoTaskType, NoViewType, AttachmentsAssumption
     DEF Init, TypeOK, Row, NoRow, Flags, NULL, Idle

LEMMA ReleaseTypeOK ==
  ASSUME TypeOK, NEW w \in Workers, NEW undone \in SUBSET Alerts, Leave(w, undone)
  PROVE  /\ pc' \in [Workers -> {"idle", "query", "row", "commit", "announce"}]
         /\ task' \in [Workers -> Task]
         /\ rows' \in [Workers -> SUBSET JoinRow]
         /\ processed' \in [Workers -> SUBSET Alerts]
         /\ view' \in [Workers -> [Alerts -> Row]]
         /\ expired' \in [Workers -> BOOLEAN]
         /\ step' \in [Workers -> Step \cup {Idle}]
         /\ \A x \in Workers : pc'[x] \in {"commit", "announce"} => step'[x] \in Step
         /\ skipped' \subseteq [alert: Alerts, at: Nat]
  <1>1. skipped' \subseteq [alert: Alerts, at: Nat]
    <2>1. \A r \in rows[w] : r[1] \in Alerts
      BY RowParts DEF TypeOK
    <2> QED BY <2>1 DEF TypeOK, Leave, Task
  <1> QED
    BY <1>1, NoTaskType, NoViewType DEF TypeOK, Leave, Release

LEMMA EnvironmentTypeOK == TypeOK /\ Environment => TypeOK'
  <1> SUFFICES ASSUME TypeOK, Environment PROVE TypeOK'
    OBVIOUS
  <1> USE DEF TypeOK, taskVars, history
  <1>1. CASE Tick
    BY <1>1 DEF Tick
  <1>2. ASSUME NEW v \in Readings, Post(v) PROVE TypeOK'
    BY <1>2 DEF Post
  <1>3. ASSUME NEW a \in Alerts, SetActive(a) \/ DeleteAlert(a) PROVE TypeOK'
    <2>1. enabled' \in [Alerts -> {"active", "paused", "deleted"}]
      BY <1>3 DEF SetActive, DeleteAlert
    <2>2. edits' \in Nat
      BY <1>3 DEF SetActive, DeleteAlert, Edited
    <2> QED BY <1>3, <2>1, <2>2 DEF SetActive, DeleteAlert, Edited
  <1>4. ASSUME NEW a \in Alerts, NEW p \in Paths, Attach(a, p) \/ Detach(a, p) PROVE TypeOK'
    <2>1. attached' \in [Alerts -> SUBSET Paths] /\ enabled' = enabled
      BY <1>4 DEF Attach, Detach
    <2>2. Edited /\ edits' \in Nat
      BY <1>4 DEF Attach, Detach, Edited
    <2> QED BY <2>1, <2>2 DEF Edited
  <1> QED BY <1>1, <1>2, <1>3, <1>4 DEF Environment

LEMMA CrashTypeOK == ASSUME TypeOK, NEW w \in Workers, Crash(w) PROVE TypeOK'
  <1>1. (IF pc[w] = "commit" THEN {step[w].alert} ELSE {}) \in SUBSET Alerts
    BY DEF TypeOK, Step
  <1> QED BY <1>1, ReleaseTypeOK DEF Crash, TypeOK

(* What a worker does to its own program counter and to its session.       *)
LEMMA WorkTypeOK == ASSUME TypeOK, NEW w \in Workers, Work(w) PROVE TypeOK'
  <1> USE DEF TypeOK, envVars, taskVars, history
  <1>1. ASSUME NEW v \in Readings, Begin(w, v) PROVE TypeOK'
    BY <1>1 DEF Begin, Task
  <1>2. CASE Query(w)
    <2>1. QueryRows \subseteq JoinRow
      BY DEF QueryRows
    <2>2. reports' \subseteq ReportRecord
      BY <1>2, ReportType DEF Query
    <2> QED BY <1>2, <2>1, <2>2 DEF Query
  <1>3. ASSUME NEW r \in rows[w], SkipProcessed(w, r) \/ PassOver(w, r) PROVE TypeOK'
    <2>1. r[1] \in Alerts
      BY DEF JoinRow
    <2>2. /\ NextRow(w, r)
          /\ UNCHANGED <<envVars, status, pc, task, view, expired, step, history>>
      BY <1>3 DEF SkipProcessed, PassOver
    <2> QED BY <2>1, <2>2 DEF NextRow
  <1>4. ASSUME NEW r \in rows[w], Fail(w, r) PROVE TypeOK'
    BY <1>4, ReleaseTypeOK DEF Fail
  <1>5. ASSUME NEW r \in rows[w], NEW kind \in {"reset", "hold", "fire"}, Prepare(w, r, kind),
               notes' \subseteq NoteRecord
        PROVE  TypeOK'
    <2>1. r[1] \in Alerts /\ r[3] \in Associations \cup {None}
      BY DEF JoinRow
    <2>2. [kind |-> kind, alert |-> r[1], row |-> Loaded(w, r[1]), via |-> r[3]] \in Step
      BY <2>1, LoadedType DEF Step
    <2> QED BY <1>5, <2>1, <2>2 DEF Prepare, NextRow
  <1>6. ASSUME NEW r \in rows[w], Reset(w, r) PROVE TypeOK'
    <2>1. Note("reset", r[1], Loaded(w, r[1]), task[w].now) \in NoteRecord
      BY LoadedType, NoteType DEF Task, JoinRow
    <2> QED BY <1>5, <1>6, <2>1 DEF Reset
  <1>7. ASSUME NEW r \in rows[w], Hold(w, r) \/ Fire(w, r) PROVE TypeOK'
    BY <1>5, <1>7 DEF Hold, Fire
  <1>8. ASSUME CommitRow(w) PROVE status' \in [Alerts -> Row]
    <2>1. step[w] \in Step /\ task[w].now \in Nat
      BY <1>8 DEF CommitRow, Task
    <2>2. step[w].alert \in Alerts
      BY <2>1 DEF Step
    <2>3. /\ Updated(status[step[w].alert], step[w], task[w].now) \in Row
          /\ Inserted(step[w], task[w].now) \in Row
      BY <2>1, <2>2, WrittenType
    <2> QED BY <1>8, <2>2, <2>3 DEF CommitRow
  <1>9. CASE CommitReset(w)
    BY <1>8, <1>9, ReleaseTypeOK DEF CommitReset
  <1>10. CASE CommitHold(w) \/ CommitFire(w)
    <2>1. step[w] \in Step
      BY <1>10 DEF CommitHold, CommitFire, CommitRow
    <2> QED BY <1>8, <1>10, <2>1 DEF CommitHold, CommitFire
  <1>11. CASE CommitConflict(w)
    <2>1. {step[w].alert} \in SUBSET Alerts
      BY <1>11 DEF CommitConflict, Step
    <2> QED BY <1>11, <2>1, ReleaseTypeOK DEF CommitConflict
  <1>12. CASE Announce(w) \/ Actuate(w)
    <2>1. step[w].alert \in Alerts /\ step[w].row \in Row /\ task[w].now \in Nat
      BY <1>12 DEF Announce, Actuate, Step, Task
    <2>2. notes' \subseteq NoteRecord
      BY <1>12, <2>1, NoteType DEF Announce, Actuate
    <2> QED BY <1>12, <2>2 DEF Announce, Actuate
  <1>13. CASE ActuateFails(w)
    BY <1>13, ReleaseTypeOK DEF ActuateFails
  <1>14. CASE Finish(w)
    BY <1>14, NoTaskType, NoViewType DEF Finish, Release
  <1> QED
    BY <1>1, <1>2, <1>3, <1>4, <1>6, <1>7, <1>9, <1>10, <1>11, <1>12, <1>13, <1>14
       DEF Work, Walk

(* The types of the task's variables and of the status rows hold in every  *)
(* state: a row is only ever written in a shape the next task can read.    *)
THEOREM TypeCorrect == Spec => []TypeOK
  <1>1. Init => TypeOK
    BY InitTypeOK
  <1>2. TypeOK /\ [Next]_vars => TypeOK'
    <2> SUFFICES ASSUME TypeOK, [Next]_vars PROVE TypeOK'
      OBVIOUS
    <2>1. CASE UNCHANGED vars
      BY <2>1 DEF vars, envVars, taskVars, history, TypeOK
    <2> QED BY <2>1, EnvironmentTypeOK, WorkTypeOK, CrashTypeOK DEF Next
  <1> QED BY <1>1, <1>2, PTL DEF Spec

----------------------------------------------------------------------------
(* Notifications rest on evidence.  NotificationBacked is not inductive:   *)
(* an announcement uses what the worker decided, the decision what the     *)
(* worker loaded, and that what some task committed.  Evidence follows the *)
(* stamp along this path.                                                  *)

Seen(a, n) == [alert |-> a, at |-> n, hot |-> TRUE] \in reports

RowBacked(a, row) == row.last # NULL => Seen(a, row.last)

StatusBacked == \A a \in Alerts : RowBacked(a, status[a])

ViewBacked == \A w \in Workers : \A a \in Alerts : RowBacked(a, view[w][a])

(* the values of a running task have been recorded for the rows it will walk *)
RowReported(w, r) ==
    Applies(r[1], task[w].now) /\ HasField(r[1], task[w].value) =>
        [alert |-> r[1], at |-> task[w].now,
         hot |-> IsAlertTriggered(r[1], task[w].value)] \in reports

RowsReported ==
    \A w \in Workers : pc[w] \in {"row", "commit", "announce"} =>
        \A r \in rows[w] : RowReported(w, r)

StepBacked ==
    \A w \in Workers : pc[w] \in {"commit", "announce"} =>
        /\ RowBacked(step[w].alert, step[w].row)
        /\ step[w].kind # "reset" => Seen(step[w].alert, task[w].now)
        /\ step[w].kind = "fire" => Due(step[w].alert, step[w].row, task[w].now)
        /\ pc[w] = "announce" => step[w].kind = "fire"

Evidence ==
    StatusBacked /\ ViewBacked /\ RowsReported /\ StepBacked /\ NotificationBacked

LEMMA InitEvidence == Init => Evidence
  BY DEF Init, Evidence, StatusBacked, ViewBacked, RowsReported, StepBacked,
         NotificationBacked, RowBacked, NoRow, NoView, NULL

(* Evidence speaks of no variable that only the environment changes.       *)
LEMMA FrameEvidence ==
  ASSUME Evidence, UNCHANGED <<status, pc, taskVars, notes, reports>>
  PROVE  Evidence'
  BY DEF Evidence, StatusBacked, ViewBacked, RowsReported, StepBacked, RowReported,
         NotificationBacked, RowBacked, Seen, taskVars

LEMMA EnvironmentEvidence == Evidence /\ Environment => Evidence'
  <1> SUFFICES ASSUME Evidence, Environment
               PROVE  UNCHANGED <<status, pc, taskVars, notes, reports>>
    BY FrameEvidence
  <1> USE DEF history
  <1>1. CASE Tick
    BY <1>1 DEF Tick
  <1>2. ASSUME NEW v \in Readings, Post(v)
        PROVE  UNCHANGED <<status, pc, taskVars, notes, reports>>
    BY <1>2 DEF Post
  <1>3. ASSUME Edited PROVE UNCHANGED <<status, pc, taskVars, notes, reports>>
    BY <1>3 DEF Edited
  <1> QED BY <1>1, <1>2, <1>3 DEF Environment, SetActive, DeleteAlert, Attach, Detach

(* The end of a task, however it comes, forgets what it had loaded.        *)
LEMMA ReleaseEvidence ==
  ASSUME TypeOK, Evidence, NEW w \in Workers, Release(w),
         StatusBacked', notes' = notes, reports' = reports
  PROVE  Evidence'
  <1> USE DEF Evidence, TypeOK
  <1>1. ViewBacked'
    BY DEF ViewBacked, RowBacked, Seen, Release, NoView, NoRow
  <1>2. RowsReported'
    BY DEF RowsReported, RowReported, Release
  <1>3. StepBacked'
    BY DEF StepBacked, RowBacked, Seen, Release
  <1>4. NotificationBacked'
    BY DEF NotificationBacked
  <1> QED BY <1>1, <1>2, <1>3, <1>4

(* A row object a worker uses rests on evidence, loaded or read again.     *)
LEMMA LoadedBacked ==
  ASSUME TypeOK, Evidence, NEW w \in Workers, NEW a \in Alerts
  PROVE  RowBacked(a, Loaded(w, a))
  BY DEF Evidence, StatusBacked, ViewBacked, Loaded

LEMMA QueryEvidence ==
  ASSUME TypeOK, Evidence, NEW w \in Workers, Query(w) PROVE Evidence'
  <1> USE DEF Evidence, TypeOK, Query, envVars
  <1>1. StatusBacked'
    BY DEF StatusBacked, RowBacked, Seen
  <1>2. ViewBacked'
    BY DEF ViewBacked, StatusBacked, RowBacked, Seen
  <1>3. RowsReported'
    <2> SUFFICES ASSUME NEW x \in Workers, pc'[x] \in {"row", "commit", "announce"},
                        NEW r \in rows'[x]
                 PROVE  RowReported(x, r)'
      BY DEF RowsReported
    <2>1. CASE x = w
      BY <2>1 DEF RowReported, Report, QueryRows
    <2>2. CASE x # w
      BY <2>2 DEF RowsReported, RowReported
    <2> QED BY <2>1, <2>2
  <1>4. StepBacked'
    BY DEF StepBacked, RowBacked, Seen
  <1>5. NotificationBacked'
    BY DEF NotificationBacked
  <1> QED BY <1>1, <1>2, <1>3, <1>4, <1>5

(* Passing to the next row, or back to it after a commit, needs no new     *)
(* evidence.                                                               *)
LEMMA WalkOnEvidence ==
  ASSUME TypeOK, Evidence, NEW w \in Workers, pc[w] \in {"row", "commit", "announce"},
         rows' = rows \/ (\E r \in rows[w] : NextRow(w, r)),
         pc' = [pc EXCEPT ![w] = "row"], StatusBacked', NotificationBacked',
         UNCHANGED <<task, view, step, reports>>
  PROVE  Evidence'
  <1> USE DEF Evidence, TypeOK
  <1>1. ViewBacked'
    BY DEF ViewBacked, RowBacked, Seen
  <1>2. \A x \in Workers : rows'[x] \subseteq rows[x]
    BY DEF NextRow
  <1>3. RowsReported'
    BY <1>2 DEF RowsReported, RowReported
  <1>4. StepBacked'
    BY DEF StepBacked, RowBacked, Seen
  <1> QED BY <1>1, <1>3, <1>4

LEMMA PrepareEvidence ==
  ASSUME TypeOK, Evidence, NEW w \in Workers, NEW r \in rows[w], NotificationBacked',
         NEW kind \in {"reset", "hold", "fire"}, Prepare(w, r, kind), Reaches(w, r),
         kind # "reset" => Hot(w, r[1]),
         kind = "fire" => Due(r[1], Loaded(w, r[1]), task[w].now)
  PROVE  Evidence'
  <1> USE DEF Evidence, TypeOK, Prepare, envVars
  <1>1. StatusBacked'
    BY DEF StatusBacked, RowBacked, Seen
  <1>2. ViewBacked'
    BY DEF ViewBacked, RowBacked, Seen
  <1>3. RowsReported'
    <2>1. \A x \in Workers : rows'[x] \subseteq rows[x]
      BY DEF NextRow
    <2>2. pc[w] = "row"
      BY DEF Reaches, AtRow
    <2> QED BY <2>1, <2>2 DEF RowsReported, RowReported
  <1>4. r[1] \in Alerts /\ pc[w] = "row"
    BY RowParts DEF Reaches, AtRow
  <1>5. RowBacked(r[1], Loaded(w, r[1]))
    BY <1>4, LoadedBacked
  <1>6. kind # "reset" => Seen(r[1], task[w].now)
    <2>1. RowReported(w, r)
      BY <1>4 DEF RowsReported
    <2>2. kind # "reset" => IsAlertTriggered(r[1], task[w].value) = TRUE
      BY TriggeredBoolean DEF Hot
    <2> QED BY <2>1, <2>2 DEF RowReported, Reaches, Seen
  <1>7. StepBacked'
    <2> SUFFICES ASSUME NEW x \in Workers, pc'[x] \in {"commit", "announce"}
                 PROVE  /\ RowBacked(step[x].alert, step[x].row)'
                        /\ (step[x].kind # "reset" => Seen(step[x].alert, task[x].now))'
                        /\ (step[x].kind = "fire" => Due(step[x].alert, step[x].row, task[x].now))'
                        /\ (pc[x] = "announce" => step[x].kind = "fire")'
      BY DEF StepBacked
    <2>1. CASE x = w
      BY <2>1, <1>4, <1>5, <1>6 DEF RowBacked, Seen, Due, Since
    <2>2. CASE x # w
      BY <2>2 DEF StepBacked, RowBacked, Seen, Due, Since
    <2> QED BY <2>1, <2>2
  <1> QED BY <1>1, <1>2, <1>3, <1>7

(* What a commit writes rests on the value of the task that writes it.     *)
LEMMA CommitBacked ==
  ASSUME TypeOK, Evidence, NEW w \in Workers, CommitRow(w), reports' = reports
  PROVE  StatusBacked'
  <1> DEFINE s == step[w]
             now == task[w].now
  <1>1. s \in Step /\ s.alert \in Alerts
    BY DEF TypeOK, CommitRow, Step
  <1>2. s.kind # "reset" => Seen(s.alert, now)
    BY DEF CommitRow, Evidence, StepBacked
  <1>3. Inserts(s) => RowBacked(s.alert, Inserted(s, now))
    BY <1>2 DEF Inserts, Inserted, RowBacked
  <1>4. RowBacked(s.alert, Updated(status[s.alert], s, now))
    <2>1. RowBacked(s.alert, status[s.alert])
      BY <1>1 DEF Evidence, StatusBacked
    <2>2. CASE s.kind = "reset"
      BY <2>2 DEF Updated, RowBacked
    <2>3. CASE s.kind = "hold"
      BY <1>1, <1>2, <2>1, <2>3 DEF Updated, RowBacked, TypeOK, Row
    <2>4. CASE s.kind = "fire"
      BY <1>1, <1>2, <2>1, <2>4 DEF Updated, RowBacked, TypeOK, Row
    <2> QED BY <1>1, <2>2, <2>3, <2>4 DEF Step
  <1> SUFFICES ASSUME NEW a \in Alerts PROVE RowBacked(a, status[a])'
    BY DEF StatusBacked
  <1>5. CASE a = s.alert
    <2>1. status'[a] = IF Inserts(s) THEN Inserted(s, now) ELSE Updated(status[a], s, now)
      BY <1>1, <1>5 DEF CommitRow, TypeOK
    <2> QED BY <1>3, <1>4, <1>5, <2>1 DEF RowBacked, Seen
  <1>6. CASE a # s.alert
    <2>1. status'[a] = status[a]
      BY <1>1, <1>6 DEF CommitRow, TypeOK
    <2> QED BY <2>1 DEF Evidence, StatusBacked, RowBacked, Seen
  <1> QED BY <1>5, <1>6

(* An announcement quotes the decision of the worker that makes it.        *)
LEMMA AnnounceBacked ==
  ASSUME TypeOK, Evidence, NEW w \in Workers, pc[w] = "announce",
         NEW kind \in {"triggered", "actuate"}, reports' = reports,
         notes' \subseteq notes \cup {Note(kind, step[w].alert, step[w].row, task[w].now)}
  PROVE  NotificationBacked'
  <1> DEFINE s == step[w]
             now == task[w].now
             c == Conf[s.alert]
  <1>1. s \in Step /\ s.alert \in Alerts /\ s.row \in Row /\ now \in Nat
    BY DEF TypeOK, Step, Task
  <1>2. Seen(s.alert, now) /\ Due(s.alert, s.row, now) /\ RowBacked(s.alert, s.row)
    BY DEF Evidence, StepBacked
  <1>3. Seen(s.alert, Since(s.row, now))
    BY <1>2 DEF RowBacked, Since
  <1>4. c.threshold \in Nat /\ c.snooze \in Nat \cup {NULL}
    BY <1>1, ConfAssumption DEF AlertConf
  <1>5. IF s.row.flag = "yes" THEN now - Since(s.row, now) > c.snooze
        ELSE c.threshold > 0 => now - Since(s.row, now) >= c.threshold
    BY <1>2, <1>4 DEF Due
  <1> SUFFICES ASSUME NEW n \in notes', n.kind # "reset"
               PROVE  /\ Seen(n.alert, n.at)
                      /\ Seen(n.alert, n.since)
                      /\ IF n.was = "yes" THEN n.at - n.since > Conf[n.alert].snooze
                         ELSE Conf[n.alert].threshold > 0 =>
                                n.at - n.since >= Conf[n.alert].threshold
    BY DEF NotificationBacked, Seen
  <1>6. CASE n \in notes
    BY <1>6 DEF Evidence, NotificationBacked, Seen
  <1>7. CASE n = Note(kind, s.alert, s.row, now)
    BY <1>2, <1>3, <1>5, <1>7 DEF Note
  <1> QED BY <1>6, <1>7

LEMMA WorkEvidence ==
  ASSUME TypeOK, Evidence, NEW w \in Workers, Work(w) PROVE Evidence'
  <1> USE DEF envVars, taskVars, history
  <1>1. ASSUME NEW v \in Readings, Begin(w, v) PROVE Evidence'
    <2> USE DEF Evidence, TypeOK, Begin
    <2>1. StatusBacked' /\ ViewBacked'
      BY <1>1 DEF StatusBacked, ViewBacked, RowBacked, Seen
    <2>2. RowsReported'
      BY <1>1 DEF RowsReported, RowReported
    <2>3. StepBacked'
      BY <1>1 DEF StepBacked, RowBacked, Seen
    <2>4. NotificationBacked'
      BY <1>1 DEF NotificationBacked
    <2> QED BY <2>1, <2>2, <2>3, <2>4
  <1>2. (status' = status /\ reports' = reports) => StatusBacked'
    BY DEF Evidence, StatusBacked, RowBacked, Seen
  <1>3. (notes' = notes /\ reports' = reports) => NotificationBacked'
    BY DEF Evidence, NotificationBacked
  <1>4. CASE Query(w)
    BY <1>4, QueryEvidence
  <1>5. ASSUME NEW r \in rows[w], SkipProcessed(w, r) \/ PassOver(w, r)
        PROVE  Evidence'
    <2>1. /\ pc[w] = "row" /\ NextRow(w, r)
          /\ UNCHANGED <<status, pc, task, view, step, notes, reports>>
      BY <1>5 DEF SkipProcessed, PassOver, AtRow, Reaches
    <2>2. pc' = [pc EXCEPT ![w] = "row"]
      BY <2>1 DEF TypeOK
    <2> QED BY <1>2, <1>3, <2>1, <2>2, WalkOnEvidence
  <1>6. ASSUME NEW u, Leave(w, u), UNCHANGED <<status, notes, reports>>
        PROVE  Evidence'
    BY <1>2, <1>6, ReleaseEvidence DEF Leave
  <1>7. ASSUME NEW r \in rows[w], Fail(w, r) PROVE Evidence'
    BY <1>6, <1>7 DEF Fail
  <1>8. ASSUME NEW r \in rows[w], Reset(w, r) PROVE Evidence'
    <2>1. Prepare(w, r, "reset") /\ Reaches(w, r) /\ reports' = reports
      BY <1>8 DEF Reset, Prepare
    <2>2. \A n \in notes' : n \in notes \/ n.kind = "reset"
      BY <1>8 DEF Reset, Note
    <2>3. NotificationBacked'
      BY <2>1, <2>2 DEF Evidence, NotificationBacked
    <2> QED BY <2>1, <2>3, PrepareEvidence
  <1>9. ASSUME NEW r \in rows[w], Hold(w, r) PROVE Evidence'
    <2>1. Prepare(w, r, "hold") /\ Reaches(w, r) /\ Hot(w, r[1])
          /\ notes' = notes /\ reports' = reports
      BY <1>9 DEF Hold, CanFire, Prepare
    <2> QED BY <1>3, <2>1, PrepareEvidence
  <1>10. ASSUME NEW r \in rows[w], Fire(w, r) PROVE Evidence'
    <2>1. Prepare(w, r, "fire") /\ Reaches(w, r) /\ Hot(w, r[1])
          /\ Due(r[1], Loaded(w, r[1]), task[w].now)
          /\ notes' = notes /\ reports' = reports
      BY <1>10 DEF Fire, CanFire, Prepare
    <2> QED BY <1>3, <2>1, PrepareEvidence
  <1>11. CASE Finish(w)
    BY <1>2, <1>11, ReleaseEvidence DEF Finish
  <1>12. CASE CommitReset(w)
    <2>1. StatusBacked'
      BY <1>12, CommitBacked DEF CommitReset
    <2> QED BY <1>12, <2>1, ReleaseEvidence DEF CommitReset, Leave
  <1>13. CASE CommitHold(w)
    <2>1. StatusBacked' /\ NotificationBacked'
      BY <1>3, <1>13, CommitBacked DEF CommitHold
    <2>2. pc[w] = "commit"
      BY <1>13 DEF CommitHold, CommitRow
    <2> QED BY <1>13, <2>1, <2>2, WalkOnEvidence DEF CommitHold
  <1>14. CASE CommitFire(w)
    <2>1. StatusBacked' /\ NotificationBacked'
      BY <1>3, <1>14, CommitBacked DEF CommitFire
    <2>2. pc[w] = "commit" /\ step[w].kind = "fire"
      BY <1>14 DEF CommitFire, CommitRow
    <2> USE DEF Evidence, CommitFire
    <2>3. ViewBacked'
      BY <1>14 DEF ViewBacked, RowBacked, Seen
    <2>4. RowsReported'
      BY <1>14, <2>2 DEF RowsReported, RowReported, TypeOK
    <2>5. StepBacked'
      BY <1>14, <2>2 DEF StepBacked, RowBacked, Seen, TypeOK
    <2> QED BY <2>1, <2>3, <2>4, <2>5
  <1>15. CASE CommitConflict(w)
    BY <1>6, <1>15 DEF CommitConflict
  <1>16. CASE Announce(w)
    <2>1. NotificationBacked'
      BY <1>16, AnnounceBacked DEF Announce
    <2> QED BY <1>2, <1>16, <2>1, WalkOnEvidence DEF Announce
  <1>17. CASE Actuate(w)
    <2>1. NotificationBacked'
      BY <1>17, AnnounceBacked DEF Actuate
    <2> QED BY <1>2, <1>17, <2>1, WalkOnEvidence DEF Actuate
  <1>18. CASE ActuateFails(w)
    BY <1>6, <1>18 DEF ActuateFails
  <1> QED
    BY <1>1, <1>4, <1>5, <1>7, <1>8, <1>9, <1>10, <1>11, <1>12, <1>13, <1>14,
       <1>15, <1>16, <1>17, <1>18 DEF Work, Walk

LEMMA CrashEvidence ==
  ASSUME TypeOK, Evidence, NEW w \in Workers, Crash(w) PROVE Evidence'
  <1>1. StatusBacked'
    BY DEF Crash, Evidence, StatusBacked, RowBacked, Seen
  <1> QED BY <1>1, ReleaseEvidence DEF Crash, Leave

LEMMA StepEvidence ==
  ASSUME TypeOK, Evidence, [Next]_vars PROVE Evidence'
  <1>1. CASE UNCHANGED vars
    BY <1>1, FrameEvidence DEF vars, history
  <1> QED BY <1>1, EnvironmentEvidence, WorkEvidence, CrashEvidence DEF Next

(* Whatever the number of workers and the order of their reads, commits    *)
(* and sends, an alert is announced only on values of the sensor that      *)
(* triggered it, its duration or its snooze apart.                         *)
THEOREM NotificationsBacked == Spec => []NotificationBacked
  <1>1. Init => Evidence
    BY InitEvidence
  <1>2. TypeOK /\ Evidence /\ [Next]_vars => Evidence'
    BY StepEvidence
  <1>3. Evidence => NotificationBacked
    BY DEF Evidence
  <1> QED BY <1>1, <1>2, <1>3, TypeCorrect, PTL DEF Spec

----------------------------------------------------------------------------
(* No first notification is lost.  Who once was told, or is about to be,    *)
(* stays so; and a flag that says "yes" comes from a worker that is about  *)
(* to tell, by whatever rows, views and resets it travels.                 *)

Notifies(a) == Conf[a].action = "notification"
Telling(a) == \E w \in Workers : pc[w] = "announce" /\ step[w].alert = a
Told(a) == (\E n \in notes : n.kind = "triggered" /\ n.alert = a) \/ Telling(a)

RowTold(a, row) == row.flag = "yes" /\ Notifies(a) => Told(a)
StatusTold == \A a \in Alerts : RowTold(a, status[a])
ViewTold == \A w \in Workers, a \in Alerts : RowTold(a, view[w][a])
ResetsTold == \A n \in notes : n.kind = "reset" /\ Notifies(n.alert) => Told(n.alert)

AllTold == crashes = 0 => StatusTold /\ ViewTold /\ ResetsTold

LEMMA InitAllTold == Init => AllTold
  BY DEF Init, AllTold, StatusTold, ViewTold, ResetsTold, RowTold, NoRow, NoView

(* A worker leaves the others where they are, and one that has to tell      *)
(* somebody does nothing else.                                             *)
LEMMA OwnSteps ==
  ASSUME TypeOK, NEW w \in Workers, Work(w)
  PROVE  /\ notes \subseteq notes'
         /\ crashes' = crashes
         /\ \A x \in Workers \ {w} : pc'[x] = pc[x] /\ step'[x] = step[x] /\ view'[x] = view[x]
         /\ pc[w] = "announce" /\ Notifies(step[w].alert) => Announce(w)
  <1> USE DEF TypeOK, envVars, taskVars, history, Notifies
  <1> DEFINE Goal == /\ notes \subseteq notes'
                     /\ crashes' = crashes
                     /\ \A x \in Workers \ {w} :
                          pc'[x] = pc[x] /\ step'[x] = step[x] /\ view'[x] = view[x]
                     /\ pc[w] = "announce" /\ Notifies(step[w].alert) => Announce(w)
  <1>1. ASSUME NEW v \in Readings, Begin(w, v) PROVE Goal
    BY <1>1 DEF Begin
  <1>2. CASE Query(w) \/ Finish(w)
    BY <1>2 DEF Query, Finish, Release
  <1>3. ASSUME NEW r \in rows[w], SkipProcessed(w, r) \/ PassOver(w, r) \/ Fail(w, r)
        PROVE  Goal
    BY <1>3 DEF SkipProcessed, PassOver, Fail, Leave, Release, AtRow, Reaches
  <1>4. ASSUME NEW r \in rows[w], Reset(w, r) \/ Hold(w, r) \/ Fire(w, r)
        PROVE  Goal
    BY <1>4 DEF Reset, Hold, Fire, CanFire, Prepare, AtRow, Reaches
  <1>5. CASE CommitReset(w) \/ CommitHold(w) \/ CommitFire(w) \/ CommitConflict(w)
    BY <1>5 DEF CommitReset, CommitHold, CommitFire, CommitConflict, CommitRow, Leave, Release
  <1>6. CASE Announce(w) \/ Actuate(w) \/ ActuateFails(w)
    BY <1>6 DEF Announce, Actuate, ActuateFails, Leave, Release
  <1> QED BY <1>1, <1>2, <1>3, <1>4, <1>5, <1>6 DEF Work, Walk

LEMMA ToldStays ==
  ASSUME TypeOK, NEW w \in Workers, Work(w), NEW a \in Alerts, Notifies(a), Told(a)
  PROVE  Told(a)'
  <1>1. notes \subseteq notes'
    BY OwnSteps
  <1>2. CASE \E n \in notes : n.kind = "triggered" /\ n.alert = a
    BY <1>1, <1>2 DEF Told
  <1>3. ASSUME NEW x \in Workers, pc[x] = "announce", step[x].alert = a PROVE Told(a)'
    <2>1. CASE x # w
      BY <1>3, <2>1, OwnSteps DEF Told, Telling
    <2>2. CASE x = w
      <3>1. Announce(w)
        BY <1>3, <2>2, OwnSteps
      <3>2. Note("triggered", a, step[w].row, task[w].now) \in notes'
        BY <1>3, <2>2, <3>1 DEF Announce
      <3> QED BY <3>2 DEF Note, Told
    <2> QED BY <2>1, <2>2
  <1> QED BY <1>2, <1>3 DEF Told, Telling

(* A commit makes a row say "yes" only on the way to telling it.            *)
LEMMA CommitTold ==
  ASSUME TypeOK, StatusTold, NEW w \in Workers, Work(w), CommitRow(w),
         step[w].kind = "fire" => CommitFire(w)
  PROVE  StatusTold'
  <1> DEFINE s == step[w]
  <1>1. s \in Step /\ s.alert \in Alerts
    BY DEF TypeOK, CommitRow, Step
  <1> SUFFICES ASSUME NEW a \in Alerts, status'[a].flag = "yes", Notifies(a) PROVE Told(a)'
    BY DEF StatusTold, RowTold
  <1>2. CASE status[a].flag = "yes"
    BY <1>2, ToldStays DEF StatusTold, RowTold
  <1>3. CASE status[a].flag # "yes"
    <2>1. a = s.alert
      BY <1>1, <1>3 DEF CommitRow, TypeOK
    <2>2. status'[a] = IF Inserts(s) THEN Inserted(s, task[w].now)
                       ELSE Updated(status[a], s, task[w].now)
      BY <1>1, <2>1 DEF CommitRow, TypeOK
    <2>3. s.kind = "fire"
      BY <1>1, <1>3, <2>2 DEF Inserted, Updated, Step
    <2>4. pc'[w] = "announce" /\ step'[w] = s
      BY <2>3 DEF CommitFire, TypeOK
    <2> QED BY <2>1, <2>4 DEF Told, Telling
  <1> QED BY <1>2, <1>3

LEMMA WorkAllTold ==
  ASSUME TypeOK, AllTold, NEW w \in Workers, Work(w)
  PROVE  AllTold'
  <1> SUFFICES ASSUME crashes = 0 PROVE StatusTold' /\ ViewTold' /\ ResetsTold'
    BY OwnSteps DEF AllTold
  <1> USE DEF envVars, taskVars, history
  <1>1. StatusTold /\ ViewTold /\ ResetsTold
    BY DEF AllTold
  <1>2. StatusTold'
    <2>1. CASE status' = status
      BY <1>1, <2>1, ToldStays DEF StatusTold, RowTold
    <2>2. CASE CommitReset(w) \/ CommitHold(w) \/ CommitFire(w)
      BY <1>1, <2>2, CommitTold DEF CommitReset, CommitHold, CommitFire
    <2>3. status' = status \/ CommitReset(w) \/ CommitHold(w) \/ CommitFire(w)
      BY DEF Work, Walk, Begin, Query, SkipProcessed, PassOver, Fail, Reset, Hold, Fire, Prepare,
             Finish, CommitConflict, Announce, Actuate, ActuateFails
    <2> QED BY <2>1, <2>2, <2>3
  <1>3. ViewTold'
    <2> SUFFICES ASSUME NEW x \in Workers, NEW a \in Alerts, view'[x][a].flag = "yes", Notifies(a)
                 PROVE  Told(a)
      BY ToldStays DEF ViewTold, RowTold
    <2>1. CASE x # w
      BY <1>1, <2>1, OwnSteps DEF ViewTold, RowTold
    <2>2. CASE x = w
      <3>1. view'[w] = view[w] \/ view'[w] = status \/ view'[w] = NoView
        BY DEF TypeOK, Work, Walk, Begin, Query, SkipProcessed, PassOver, Fail, Reset, Hold, Fire,
               Prepare, Finish, CommitReset, CommitHold, CommitFire, CommitConflict, Announce,
               Actuate, ActuateFails, Leave, Release
      <3> QED BY <1>1, <2>2, <3>1 DEF ViewTold, StatusTold, RowTold, NoView, NoRow
    <2> QED BY <2>1, <2>2
  <1>4. ResetsTold'
    <2> SUFFICES ASSUME NEW n \in notes', n.kind = "reset", Notifies(n.alert), n \notin notes
                 PROVE  n.alert \in Alerts /\ Told(n.alert)
      <3>1. \A n \in notes : n.alert \in Alerts
        BY DEF TypeOK, NoteRecord
      <3> QED BY <1>1, <3>1, ToldStays DEF ResetsTold
    <2>1. PICK r \in rows[w] : Reset(w, r)
      BY DEF Work, Walk, Begin, Query, SkipProcessed, PassOver, Fail, Hold, Fire, Finish,
             CommitReset, CommitHold, CommitFire, CommitConflict, Announce, Actuate, ActuateFails,
             Note
    <2>2. Loaded(w, r[1]).flag = "yes" /\ n.alert = r[1]
      BY <2>1 DEF Reset, Note
    <2>3. r[1] \in Alerts
      BY RowParts DEF TypeOK
    <2> QED BY <1>1, <2>2, <2>3 DEF Loaded, StatusTold, ViewTold, RowTold
  <1> QED BY <1>2, <1>3, <1>4

(* The environment changes none of it, and a killed worker ends the claim.  *)
LEMMA FrameAllTold ==
  ASSUME AllTold, UNCHANGED <<status, pc, step, view, notes>>, crashes' = crashes
  PROVE  AllTold'
  BY DEF AllTold, StatusTold, ViewTold, ResetsTold, RowTold, Told, Telling

LEMMA StepAllTold ==
  ASSUME TypeOK, AllTold, [Next]_vars
  PROVE  AllTold'
  <1> USE DEF envVars, taskVars, history
  <1>1. CASE UNCHANGED vars
    BY <1>1, FrameAllTold DEF vars
  <1>2. CASE Environment
    BY <1>2, FrameAllTold
       DEF Environment, Tick, Post, SetActive, DeleteAlert, Attach, Detach, Edited
  <1>3. ASSUME NEW w \in Workers, Crash(w) PROVE AllTold'
    BY <1>3 DEF Crash, TypeOK, AllTold
  <1> QED BY <1>1, <1>2, <1>3, WorkAllTold DEF Next

(* With any number of workers, none of them killed: whatever order their    *)
(* reads, commits and sends take, a row that says an alert is triggered    *)
(* means that its users were told so, or that a worker is about to.        *)
THEOREM TriggeredAnnounced == Spec => []TriggeredIsAnnounced
  <1>1. Init => AllTold
    BY InitAllTold
  <1>2. TypeOK /\ AllTold /\ [Next]_vars => AllTold'
    BY StepAllTold
  <1>3. AllTold => TriggeredIsAnnounced
    BY DEF AllTold, StatusTold, RowTold, Notifies, Told, Telling, TriggeredIsAnnounced
  <1> QED BY <1>1, <1>2, <1>3, TypeCorrect, PTL DEF Spec

(* ... and a reset is sent only of an alert that was announced, or that a   *)
(* worker is about to announce.                                            *)
THEOREM ResetsAnnounced == Spec => []ResetFollowsAnnouncement
  <1>1. Init => AllTold
    BY InitAllTold
  <1>2. TypeOK /\ AllTold /\ [Next]_vars => AllTold'
    BY StepAllTold
  <1>3. AllTold => ResetFollowsAnnouncement
    BY DEF AllTold, ResetsTold, Notifies, Told, Telling, ResetFollowsAnnouncement
  <1> QED BY <1>1, <1>2, <1>3, TypeCorrect, PTL DEF Spec

----------------------------------------------------------------------------
(* One worker.  What its query did not find, and it has not walked since,   *)
(* is not there: nobody else writes a row.                                 *)

Missing(w, a) == view[w][a].flag = "absent" => status[a].flag = "absent"

Unwritten(w) ==
  /\ pc[w] \in {"row", "commit", "announce"} =>
       \A a \in Alerts : a \notin processed[w] => Missing(w, a)
  /\ pc[w] \in {"commit", "announce"} => step[w].alert \in processed[w]
  /\ pc[w] = "commit" => ~Conflict(w)

LEMMA InitUnwritten == ASSUME NEW w \in Workers, Init PROVE Unwritten(w)
  BY DEF Init, Unwritten

LEMMA WorkUnwritten ==
  ASSUME TypeOK, NEW w \in Workers, Unwritten(w), Work(w)
  PROVE  Unwritten(w)'
  <1> USE DEF envVars, taskVars, history, TypeOK
  <1>1. ASSUME pc'[w] \in {"idle", "query"} PROVE Unwritten(w)'
    BY <1>1 DEF Unwritten
  <1>2. ASSUME NEW u, Leave(w, u) \/ Release(w) PROVE Unwritten(w)'
    BY <1>1, <1>2 DEF Leave, Release
  <1>3. ASSUME NEW v \in Readings, Begin(w, v) PROVE Unwritten(w)'
    BY <1>1, <1>3 DEF Begin
  <1>4. CASE Query(w)
    BY <1>4 DEF Query, Unwritten, Missing
  <1>5. ASSUME NEW r \in rows[w], SkipProcessed(w, r) \/ PassOver(w, r) PROVE Unwritten(w)'
    <2>1. pc[w] = "row" /\ NextRow(w, r) /\ UNCHANGED <<status, pc, view>>
      BY <1>5 DEF SkipProcessed, PassOver, AtRow, Reaches
    <2> QED BY <2>1 DEF NextRow, Unwritten, Missing
  <1>6. ASSUME NEW r \in rows[w], Reset(w, r) \/ Hold(w, r) \/ Fire(w, r) PROVE Unwritten(w)'
    <2>1. PICK kind \in {"reset", "hold", "fire"} : Prepare(w, r, kind)
      BY <1>6 DEF Reset, Hold, Fire
    <2>2. pc[w] = "row" /\ r[1] \notin processed[w] /\ r[1] \in Alerts
      BY <1>6, RowParts DEF Reset, Hold, Fire, CanFire, Reaches, AtRow
    <2>3. /\ pc'[w] = "commit" /\ UNCHANGED <<status, view>>
          /\ processed'[w] = processed[w] \cup {r[1]}
          /\ step'[w] = [kind |-> kind, alert |-> r[1], row |-> Loaded(w, r[1]), via |-> r[3]]
      BY <2>1 DEF Prepare, NextRow
    <2>4. Loaded(w, r[1]).flag = "absent" => status[r[1]].flag = "absent"
      BY <2>2 DEF Loaded, Unwritten, Missing
    <2> QED BY <2>2, <2>3, <2>4 DEF Unwritten, Missing, Conflict, Inserts
  <1>7. CASE CommitHold(w) \/ CommitFire(w)
    <2>1. pc[w] = "commit" /\ pc'[w] \in {"row", "announce"} /\ UNCHANGED <<view, processed, step>>
      BY <1>7 DEF CommitHold, CommitFire, CommitRow
    <2>2. \A a \in Alerts : a # step[w].alert => status'[a] = status[a]
      BY <1>7 DEF CommitHold, CommitFire, CommitRow
    <2> QED BY <2>1, <2>2 DEF Unwritten, Missing
  <1>8. CASE Announce(w) \/ Actuate(w)
    BY <1>8 DEF Announce, Actuate, Unwritten, Missing
  <1> QED BY <1>2, <1>3, <1>4, <1>5, <1>6, <1>7, <1>8
          DEF Work, Walk, Fail, Finish, CommitReset, CommitConflict, ActuateFails

LEMMA StepUnwritten ==
  ASSUME NEW w, Workers = {w}, TypeOK, Unwritten(w), [Next]_vars
  PROVE  Unwritten(w)'
  <1> USE DEF envVars, taskVars, history
  <1>1. CASE UNCHANGED vars
    BY <1>1 DEF vars, Unwritten, Missing, Conflict
  <1>2. CASE Environment
    <2>1. UNCHANGED <<status, pc, taskVars>>
      BY <1>2 DEF Environment, Tick, Post, SetActive, DeleteAlert, Attach, Detach, Edited
    <2> QED BY <2>1 DEF Unwritten, Missing, Conflict
  <1>3. CASE Crash(w)
    BY <1>3 DEF Crash, Leave, Release, TypeOK, Unwritten
  <1> QED BY <1>1, <1>2, <1>3, WorkUnwritten DEF Next

(* With one worker, for any alerts, networks and readings, edits and        *)
(* crashes: no task meets a row of its own or of an earlier one where its  *)
(* query found none, however many rows of the query lead to an alert.      *)
THEOREM NoDuplicates ==
  ASSUME NEW w, Workers = {w}
  PROVE  Spec => []NoDuplicateInsert
  <1>1. Init => Unwritten(w)
    BY InitUnwritten
  <1>2. TypeOK /\ Unwritten(w) /\ [Next]_vars => Unwritten(w)'
    BY StepUnwritten
  <1>3. Unwritten(w) => NoDuplicateInsert
    BY DEF Unwritten, NoDuplicateInsert
  <1> QED BY <1>1, <1>2, <1>3, TypeCorrect, PTL DEF Spec

----------------------------------------------------------------------------
(* One worker implements the episodes.  It has what the table has, of all   *)
(* it has not walked yet; its clock is behind no stamp.                    *)

Sound(row, now) ==
  /\ row.flag = "absent" => row.last = NULL
  /\ row.flag = "yes" => row.last # NULL
  /\ row.last <= now

(* What was decided for a row that is still in the table.                   *)
Decided(w) ==
  LET s == step[w]
  IN  /\ s.alert \in processed[w] /\ s.row = status[s.alert]
      /\ s.kind = "reset" => s.row.last # NULL
      /\ s.kind = "hold" => ~Due(s.alert, s.row, task[w].now)
      /\ s.kind = "fire" => Due(s.alert, s.row, task[w].now)

Serial(w) ==
  /\ task[w].now <= clock
  /\ \A a \in Alerts : Sound(status[a], IF pc[w] = "idle" THEN clock ELSE task[w].now)
  /\ pc[w] \in {"row", "commit", "announce"} =>
       \A a \in Alerts : a \notin processed[w] => view[w][a] = status[a]
  /\ pc[w] = "commit" => Decided(w)
  /\ pc[w] = "announce" => step[w].alert \in processed[w]

LEMMA InitSerial == ASSUME NEW w \in Workers, Init PROVE Serial(w)
  BY DEF Init, Serial, Sound, NoRow, NoTask, NULL

(* The session ends: what the table holds is left.                          *)
LEMMA IdleSerial ==
  ASSUME TypeOK, NEW w \in Workers, Release(w), clock' = clock,
         \A a \in Alerts : Sound(status'[a], clock)
  PROVE  Serial(w)'
  <1>1. clock \in Nat /\ task'[w] = NoTask /\ pc'[w] = "idle"
    BY DEF TypeOK, Release
  <1> QED BY <1>1 DEF Serial, NoTask

LEMMA SoundLater ==
  ASSUME TypeOK, NEW w \in Workers, Serial(w)
  PROVE  \A a \in Alerts : Sound(status[a], clock)
  <1> SUFFICES ASSUME NEW a \in Alerts PROVE Sound(status[a], clock)
    OBVIOUS
  <1>1. clock \in Int /\ task[w].now \in Int /\ status[a].last \in Int
    BY DEF TypeOK, Task, Row, NULL
  <1> QED BY <1>1 DEF Serial, Sound

(* The row that a commit leaves.                                            *)
LEMMA CommitShape ==
  ASSUME TypeOK, NEW w \in Workers, Serial(w), CommitRow(w)
  PROVE  LET s == step[w]
             a == s.alert
             now == task[w].now
             row == status'[a]
         IN  /\ s \in Step /\ a \in Alerts /\ now \in Nat /\ row \in Row
             /\ status' = [status EXCEPT ![a] = row]
             /\ s.kind = "fire" => Due(a, status[a], now)
             /\ \/ row = status[a]
                \/ /\ s.kind = "reset" /\ row = [flag |-> "no", last |-> NULL]
                   /\ PhaseOf(status[a]) # "quiet"
                \/ /\ s.kind = "hold" /\ row.last = now /\ row.flag \in {"null", "no"}
                   /\ PhaseOf(status[a]) = "quiet" /\ Conf[a].threshold > 0
                \/ s.kind = "fire" /\ row = [flag |-> "yes", last |-> now]
             /\ s.kind = "fire" => row = [flag |-> "yes", last |-> now]
             /\ s.kind = "reset" => row = [flag |-> "no", last |-> NULL]
             /\ s.kind = "hold" /\ status[a].last # NULL => row = status[a]
  <1> DEFINE s == step[w]
             a == s.alert
             now == task[w].now
             row == status'[a]
  <1>1. /\ s \in Step /\ a \in Alerts /\ status \in [Alerts -> Row] /\ now \in Nat
        /\ status[a] \in Row /\ clock \in Nat /\ s.row = status[a]
    BY DEF TypeOK, CommitRow, Step, Task, Serial, Decided
  <1>2. /\ status' = [status EXCEPT ![a] = row]
        /\ row = IF Inserts(s) THEN Inserted(s, now) ELSE Updated(status[a], s, now)
    BY <1>1 DEF CommitRow
  <1>3. /\ Sound(status[a], now) /\ now <= clock /\ now \in 0..clock
        /\ s.kind = "reset" => status[a].last # NULL
        /\ s.kind = "hold" => ~Due(a, status[a], now)
        /\ s.kind = "fire" => Due(a, status[a], now)
    BY <1>1 DEF Serial, CommitRow, Decided
  <1>4. /\ Conf[a].threshold \in Nat /\ Conf[a].snooze \in Nat \cup {NULL}
        /\ status[a].last \in Nat \cup {NULL} /\ status[a].flag \in Flags
    BY <1>1, ConfAssumption DEF AlertConf, Row
  <1>5. \/ row = status[a]
        \/ /\ s.kind = "reset" /\ row = [flag |-> "no", last |-> NULL]
           /\ PhaseOf(status[a]) # "quiet"
        \/ /\ s.kind = "hold" /\ row.last = now /\ row.flag \in {"null", "no"}
           /\ PhaseOf(status[a]) = "quiet" /\ Conf[a].threshold > 0
        \/ /\ s.kind = "fire" /\ row = [flag |-> "yes", last |-> now]
    <2>1. CASE s.kind = "reset"
      BY <1>1, <1>2, <1>3, <1>4, <2>1 DEF Inserts, Updated, PhaseOf, Row, Flags, Sound
    <2>2. CASE s.kind = "hold"
      <3>1. CASE Inserts(s)
        BY <1>1, <1>2, <1>3, <1>4, <2>2, <3>1 DEF Inserts, Inserted, PhaseOf, Sound, Due
      <3>2. CASE ~Inserts(s)
        BY <1>1, <1>2, <1>3, <1>4, <2>2, <3>2 DEF Inserts, Updated, PhaseOf, Sound, Due, Row, Flags
      <3> QED BY <3>1, <3>2
    <2>3. CASE s.kind = "fire"
      BY <1>1, <1>2, <1>3, <1>4, <2>3 DEF Inserts, Inserted, Updated, Row, Flags
    <2> QED BY <1>1, <2>1, <2>2, <2>3 DEF Step
  <1>6. s.kind = "fire" => row = [flag |-> "yes", last |-> now]
    BY <1>1, <1>2, <1>4 DEF Inserts, Inserted, Updated, Row, Flags
  <1>7. s.kind = "reset" => row = [flag |-> "no", last |-> NULL]
    BY <1>1, <1>2, <1>4 DEF Inserts, Updated, Row, Flags
  <1>8. s.kind = "hold" /\ status[a].last # NULL => row = status[a]
    BY <1>1, <1>2, <1>3, <1>4 DEF Inserts, Updated, Row, Flags, Sound
  <1>9. row \in Row
    BY <1>1, <1>2, WrittenType
  <1> QED BY <1>1, <1>2, <1>3, <1>5, <1>6, <1>7, <1>8, <1>9

(* ... and what it is to the user.                                          *)
LEMMA CommitMoves ==
  ASSUME TypeOK, NEW w \in Workers, Serial(w), CommitRow(w), clock' = clock
  PROVE  /\ Episode!Next \/ UNCHANGED <<clock, Phase, Stamp>>
         /\ \A a \in Alerts : Sound(status'[a], task[w].now)
  <1> DEFINE s == step[w]
             a == s.alert
             now == task[w].now
             row == status'[a]
  <1>1. /\ s \in Step /\ a \in Alerts /\ status \in [Alerts -> Row] /\ now \in Nat
        /\ status[a] \in Row /\ clock \in Nat
    BY CommitShape DEF TypeOK
  <1>2. status' = [status EXCEPT ![a] = row]
    BY CommitShape
  <1>3. /\ Sound(status[a], now) /\ now \in 0..clock
        /\ s.kind = "fire" => Due(a, status[a], now)
    <2>1. Sound(status[a], now) /\ now \in 0..clock
      BY <1>1 DEF Serial, CommitRow
    <2>2. s.kind = "fire" => Due(a, status[a], now)
      BY CommitShape
    <2> QED BY <2>1, <2>2
  <1>4. /\ Conf[a].threshold \in Nat /\ Conf[a].snooze \in Nat \cup {NULL}
        /\ status[a].last \in Nat \cup {NULL} /\ status[a].flag \in Flags
    BY <1>1, ConfAssumption DEF AlertConf, Row
  <1>5. \/ row = status[a]
        \/ /\ s.kind = "reset" /\ row = [flag |-> "no", last |-> NULL]
           /\ PhaseOf(status[a]) # "quiet"
        \/ /\ s.kind = "hold" /\ row.last = now /\ row.flag \in {"null", "no"}
           /\ PhaseOf(status[a]) = "quiet" /\ Conf[a].threshold > 0
        \/ s.kind = "fire" /\ row = [flag |-> "yes", last |-> now]
    BY CommitShape
  <1>6. Sound(row, now)
    BY <1>1, <1>3, <1>5 DEF Sound, NULL
  <1>7. Phase' = [Phase EXCEPT ![a] = PhaseOf(row)] /\ Stamp' = [Stamp EXCEPT ![a] = row.last]
    BY <1>1, <1>2 DEF Phase, Stamp
  <1>8. Phase[a] = PhaseOf(status[a]) /\ Stamp[a] = status[a].last
    BY <1>1 DEF Phase, Stamp
  <1>9. Episode!Move(a, PhaseOf(row), row.last)
    BY <1>7 DEF Episode!Move
  <1>10. Episode!Next \/ UNCHANGED <<clock, Phase, Stamp>>
    <2>1. CASE row = status[a]
      <3>1. status' = status
        BY <1>1, <1>2, <2>1
      <3> QED BY <3>1 DEF Phase, Stamp, PhaseOf
    <2>2. CASE /\ s.kind = "reset" /\ row = [flag |-> "no", last |-> NULL]
               /\ PhaseOf(status[a]) # "quiet"
      <3>1. PhaseOf(row) = "quiet" /\ row.last = Episode!Never
        BY <2>2 DEF PhaseOf, NULL, Episode!Never
      <3>2. Episode!Clear(a)
        BY <1>8, <1>9, <2>2, <3>1 DEF Episode!Clear
      <3> QED BY <1>1, <3>2 DEF Episode!Next
    <2>3. CASE /\ s.kind = "hold" /\ row.last = now /\ row.flag \in {"null", "no"}
               /\ PhaseOf(status[a]) = "quiet" /\ Conf[a].threshold > 0
      <3>1. PhaseOf(row) = "pending"
        BY <1>1, <2>3 DEF PhaseOf, NULL
      <3>2. Episode!Start(a, now)
        BY <1>1, <1>8, <1>9, <2>3, <3>1 DEF Episode!Start
      <3> QED BY <1>1, <1>3, <3>2 DEF Episode!Next
    <2>4. CASE s.kind = "fire" /\ row = [flag |-> "yes", last |-> now]
      <3>1. PhaseOf(row) = "firing" /\ row.last = now
        BY <1>1, <2>4 DEF PhaseOf, NULL
      <3>2. Due(a, status[a], now)
        BY <1>3, <2>4
      <3>3. Episode!FireAtOnce(a, now) \/ Episode!FireLate(a, now) \/ Episode!Remind(a, now)
        <4>1. CASE PhaseOf(status[a]) = "quiet"
          <5>1. status[a].last = NULL /\ status[a].flag # "yes"
            BY <1>1, <1>3, <4>1 DEF PhaseOf, Sound
          <5>2. Conf[a].threshold = 0
            BY <1>1, <1>4, <3>2, <5>1 DEF Due, Since
          <5> QED BY <1>1, <1>8, <1>9, <3>1, <4>1, <5>2 DEF Episode!FireAtOnce
        <4>2. CASE PhaseOf(status[a]) = "pending"
          <5>1. status[a].last \in Nat /\ status[a].flag # "yes" /\ status[a].last <= now
            BY <1>3, <1>4, <4>2 DEF PhaseOf, Sound
          <5>2. now - status[a].last >= Conf[a].threshold
            BY <1>1, <1>4, <3>2, <5>1 DEF Due, Since, NULL
          <5> QED BY <1>1, <1>8, <1>9, <3>1, <4>2, <5>2 DEF Episode!FireLate
        <4>3. CASE PhaseOf(status[a]) = "firing"
          <5>1. status[a].last \in Nat /\ status[a].flag = "yes"
            BY <1>4, <4>3 DEF PhaseOf
          <5>2. Conf[a].snooze >= 0 /\ now - status[a].last > Conf[a].snooze
            BY <1>1, <1>4, <3>2, <5>1 DEF Due, Since, NULL
          <5> QED BY <1>1, <1>8, <1>9, <3>1, <4>3, <5>2 DEF Episode!Remind
        <4> QED BY <4>1, <4>2, <4>3 DEF PhaseOf
      <3> QED BY <1>1, <1>3, <3>3 DEF Episode!Next
    <2> QED BY <1>5, <2>1, <2>2, <2>3, <2>4
  <1>11. \A b \in Alerts : Sound(status'[b], now)
    <2> SUFFICES ASSUME NEW b \in Alerts PROVE Sound(status'[b], now)
      OBVIOUS
    <2>1. CASE b = a
      BY <1>6, <2>1
    <2>2. CASE b # a
      <3>1. status'[b] = status[b]
        BY <1>1, <1>2, <2>2
      <3>2. Sound(status[b], now)
        BY DEF Serial, CommitRow
      <3> QED BY <3>1, <3>2
    <2> QED BY <2>1, <2>2
  <1> QED BY <1>10, <1>11

(* A step of the worker that commits nothing.                               *)
LEMMA WalkSerial ==
  ASSUME TypeOK, NEW w \in Workers, Serial(w), UNCHANGED <<status, clock, task>>,
         pc'[w] \in {"row", "announce"}, pc[w] \in {"row", "announce"},
         view' = view, processed[w] \subseteq processed'[w],
         pc'[w] = "announce" => step'[w].alert \in processed'[w]
  PROVE  Serial(w)'
  BY DEF Serial

LEMMA WorkSerial ==
  ASSUME TypeOK, NEW w \in Workers, Serial(w), Work(w)
  PROVE  /\ Serial(w)'
         /\ Episode!Next \/ UNCHANGED <<clock, Phase, Stamp>>
  <1> USE DEF envVars, taskVars, history
  <1>1. status' = status /\ clock' = clock => UNCHANGED <<clock, Phase, Stamp>>
    BY DEF Phase, Stamp, PhaseOf
  <1>2. status' = status => \A a \in Alerts : Sound(status'[a], clock)
    BY SoundLater
  <1>3. ASSUME NEW v \in Readings, Begin(w, v)
        PROVE  Serial(w)' /\ UNCHANGED <<status, clock>>
    BY <1>3, SoundLater DEF Begin, Serial, TypeOK
  <1>4. ASSUME Query(w) PROVE Serial(w)'
    BY <1>4 DEF Query, Serial, TypeOK
  <1>5. ASSUME NEW r \in rows[w], SkipProcessed(w, r) \/ PassOver(w, r)
        PROVE  Serial(w)' /\ UNCHANGED <<status, clock>>
    <2>1. pc[w] = "row" /\ NextRow(w, r) /\ UNCHANGED <<status, clock, task, pc, view>>
      BY <1>5 DEF SkipProcessed, PassOver, AtRow, Reaches
    <2> QED BY <2>1, WalkSerial DEF NextRow, TypeOK
  <1>6. ASSUME NEW u, Leave(w, u), UNCHANGED <<status, clock>>
        PROVE  Serial(w)'
    BY <1>2, <1>6, IdleSerial DEF Leave
  <1>7. ASSUME NEW r \in rows[w], Fail(w, r)
        PROVE  Serial(w)' /\ UNCHANGED <<status, clock>>
    BY <1>6, <1>7 DEF Fail
  <1>8. ASSUME NEW r \in rows[w], Reset(w, r) \/ Hold(w, r) \/ Fire(w, r)
        PROVE  Serial(w)' /\ UNCHANGED <<status, clock>>
    <2> DEFINE row == Loaded(w, r[1])
    <2>1. pc[w] = "row" /\ r[1] \notin processed[w] /\ r[1] \in Alerts
      BY <1>8, RowParts DEF Reset, Hold, Fire, CanFire, Reaches, AtRow, TypeOK
    <2>2. row = status[r[1]]
      BY <2>1 DEF Loaded, Serial
    <2>3. PICK kind \in {"reset", "hold", "fire"} :
            /\ Prepare(w, r, kind)
            /\ kind = "reset" => row.last # NULL
            /\ kind = "hold" => ~Due(r[1], row, task[w].now)
            /\ kind = "fire" => Due(r[1], row, task[w].now)
      BY <1>8 DEF Reset, Hold, Fire
    <2>4. /\ pc'[w] = "commit" /\ UNCHANGED <<status, clock, task, view>>
          /\ processed'[w] = processed[w] \cup {r[1]}
          /\ step'[w] = [kind |-> kind, alert |-> r[1], row |-> row, via |-> r[3]]
      BY <2>3 DEF Prepare, NextRow, TypeOK
    <2>5. Decided(w)'
      BY <2>2, <2>3, <2>4 DEF Decided, Due, Since
    <2> QED BY <2>1, <2>4, <2>5 DEF Serial
  <1>9. CASE CommitReset(w)
    <2>1. CommitRow(w) /\ clock' = clock /\ Release(w)
      BY <1>9 DEF CommitReset, Leave
    <2>2. \A a \in Alerts : Sound(status'[a], task[w].now)
      BY <2>1, CommitMoves
    <2>3. \A a \in Alerts : Sound(status'[a], clock)
      <3> SUFFICES ASSUME NEW a \in Alerts PROVE Sound(status'[a], clock)
        OBVIOUS
      <3>1. status'[a].last \in Int
        BY <1>9, WorkTypeOK DEF TypeOK, Row, NULL, Work
      <3>2. task[w].now <= clock /\ task[w].now \in Int /\ clock \in Int
        BY DEF Serial, TypeOK, Task
      <3> QED BY <2>2, <3>1, <3>2 DEF Sound
    <2> QED BY <2>1, <2>3, CommitMoves, IdleSerial
  <1>10. CASE CommitHold(w) \/ CommitFire(w)
    <2>1. /\ CommitRow(w) /\ pc[w] = "commit" /\ pc'[w] \in {"row", "announce"}
          /\ UNCHANGED <<clock, task, view, processed, step>>
      BY <1>10 DEF CommitHold, CommitFire, CommitRow, TypeOK
    <2>2. \A a \in Alerts : a # step[w].alert => status'[a] = status[a]
      BY <2>1 DEF CommitRow, TypeOK
    <2>3. step[w].alert \in processed[w]
      BY <2>1 DEF Serial, Decided
    <2> QED BY <2>1, <2>2, <2>3, CommitMoves DEF Serial
  <1>11. CASE CommitConflict(w)
    BY <1>1, <1>6, <1>11 DEF CommitConflict
  <1>12. CASE Announce(w) \/ Actuate(w)
    BY <1>1, <1>12, WalkSerial DEF Announce, Actuate, TypeOK
  <1>13. CASE ActuateFails(w)
    BY <1>1, <1>6, <1>13 DEF ActuateFails
  <1>14. CASE Finish(w)
    BY <1>1, <1>2, <1>14, IdleSerial DEF Finish
  <1>15. CASE Query(w)
    BY <1>1, <1>4, <1>15 DEF Query
  <1> QED
    BY <1>1, <1>3, <1>5, <1>7, <1>8, <1>9, <1>10, <1>11, <1>12, <1>13, <1>14, <1>15
       DEF Work, Walk

LEMMA StepSerial ==
  ASSUME NEW w, Workers = {w}, TypeOK, Serial(w), [Next]_vars
  PROVE  /\ Serial(w)'
         /\ Episode!Next \/ UNCHANGED <<clock, Phase, Stamp>>
  <1> USE DEF envVars, taskVars, history
  <1>1. CASE UNCHANGED vars
    BY <1>1 DEF vars, Serial, Decided, Phase, Stamp, PhaseOf
  <1>2. CASE Tick
    <2>1. clock \in Int /\ clock' = clock + 1 /\ UNCHANGED <<status, pc, taskVars>>
      BY <1>2 DEF Tick, TypeOK
    <2>2. Episode!Pass
      BY <2>1 DEF Episode!Pass, Phase, Stamp, PhaseOf
    <2>3. \A a \in Alerts : status[a].last \in Int
      BY DEF TypeOK, Row, NULL
    <2>4. task[w].now \in Int
      BY DEF TypeOK, Task
    <2>5. Serial(w)'
      BY <2>1, <2>3, <2>4 DEF Serial, Sound, Decided
    <2> QED BY <2>2, <2>5 DEF Episode!Next
  <1>3. CASE Environment /\ ~Tick
    <2>1. UNCHANGED <<clock, status, pc, taskVars>>
      BY <1>3 DEF Environment, Post, SetActive, DeleteAlert, Attach, Detach, Edited
    <2> QED BY <2>1 DEF Serial, Decided, Phase, Stamp, PhaseOf
  <1>4. CASE Crash(w)
    <2>1. Release(w) /\ UNCHANGED <<clock, status>>
      BY <1>4 DEF Crash, Leave
    <2> QED BY <2>1, SoundLater, IdleSerial DEF Phase, Stamp, PhaseOf
  <1> QED BY <1>1, <1>2, <1>3, <1>4, WorkSerial DEF Next

(* With one worker, for any alerts, networks and readings, edits and        *)
(* crashes: process_alert implements AlertEpisode.                         *)
THEOREM EpisodesImplemented ==
  ASSUME NEW w, Workers = {w}
  PROVE  Spec => ImplementsEpisode
  <1>1. Init => Episode!Init
    BY DEF Init, Episode!Init, Phase, Stamp, PhaseOf, NoRow, NULL, Episode!Never
  <1>2. Init => Serial(w)
    BY InitSerial
  <1>3. TypeOK /\ Serial(w) /\ [Next]_vars =>
          Serial(w)' /\ [Episode!Next]_<<clock, Phase, Stamp>>
    BY StepSerial
  <1> QED BY <1>1, <1>2, <1>3, TypeCorrect, PTL DEF Spec, ImplementsEpisode, Episode!Spec

(* The announcements made so far, and the one that is due.                  *)
AtStamp(a) ==
  status[a].flag = "yes" /\ Notifies(a) =>
    \/ status[a].last \in Announced(a) /\ \A t \in Announced(a) : t <= status[a].last
    \/ Telling(a)

Stamped(w) ==
  /\ \A n \in notes : n.at <= clock /\ (pc[w] # "idle" => n.at <= task[w].now)
  /\ pc[w] = "announce" => step[w].kind = "fire"
                          /\ status[step[w].alert] = [flag |-> "yes", last |-> task[w].now]
  /\ crashes = 0 => \A a \in Alerts : AtStamp(a)

LEMMA InitStamped == ASSUME NEW w \in Workers, Init PROVE Stamped(w)
  BY DEF Init, Stamped, AtStamp, NoRow

(* No row and no announcement changes, and no alert that notifies is told.  *)
LEMMA FrameStamped ==
  ASSUME NEW w, Workers = {w}, TypeOK, Stamped(w), UNCHANGED <<status, clock, crashes>>,
         notes' = notes \/ \E n : n.kind # "triggered" /\ n.at = task[w].now /\ notes' = notes \cup {n},
         task[w].now <= clock,
         pc[w] = "announce" => ~Notifies(step[w].alert),
         pc'[w] # "announce",
         pc'[w] = "idle" \/ (pc[w] = "idle" /\ task'[w].now = clock /\ notes' = notes)
           \/ (pc[w] # "idle" /\ task'[w].now = task[w].now)
  PROVE  Stamped(w)'
  <1>1. \A n \in notes' : n.at <= clock /\ (pc'[w] # "idle" => n.at <= task'[w].now)
    <2>1. task[w].now \in Nat
      BY DEF TypeOK, Task
    <2> QED BY <2>1 DEF Stamped
  <1>2. \A a \in Alerts : Announced(a)' = Announced(a)
    BY DEF Announced
  <1>3. ASSUME NEW a \in Alerts, AtStamp(a) PROVE AtStamp(a)'
    <2>1. Telling(a) => ~Notifies(a)
      BY DEF Telling
    <2> QED BY <1>2, <1>3, <2>1 DEF AtStamp, Notifies
  <1> QED BY <1>1, <1>3 DEF Stamped

LEMMA CommitStamped ==
  ASSUME NEW w, Workers = {w}, TypeOK, Serial(w), Stamped(w), CommitRow(w),
         UNCHANGED <<clock, crashes, notes>>,
         \/ step[w].kind # "fire" /\ pc'[w] \in {"idle", "row"}
         \/ step[w].kind = "fire" /\ pc'[w] = "announce" /\ step' = step,
         pc'[w] = "idle" \/ task' = task
  PROVE  Stamped(w)'
  <1> DEFINE s == step[w]
  <1>1. /\ s.alert \in Alerts /\ pc[w] = "commit"
        /\ \A b \in Alerts : b # s.alert => status'[b] = status[b]
        /\ s.kind = "fire" => status'[s.alert] = [flag |-> "yes", last |-> task[w].now]
    BY CommitShape DEF CommitRow, TypeOK
  <1>2. \A a \in Alerts : Announced(a)' = Announced(a) /\ ~Telling(a)
    BY <1>1 DEF Announced, Telling
  <1>3. ASSUME NEW a \in Alerts, AtStamp(a) PROVE AtStamp(a)'
    <2>1. CASE status'[a] = status[a]
      BY <1>2, <1>3, <2>1 DEF AtStamp, Notifies
    <2>2. CASE s.kind = "fire" /\ a = s.alert
      <3>1. pc'[w] = "announce" /\ step'[w].alert = a
        BY <2>2
      <3>2. Telling(a)'
        BY <3>1 DEF Telling
      <3> QED BY <3>2 DEF AtStamp
    <2>3. CASE s.kind # "fire" /\ a = s.alert /\ status'[a] # status[a]
      <3>1. status'[a].flag # "yes"
        BY <2>3, CommitShape
      <3> QED BY <3>1 DEF AtStamp
    <2> QED BY <1>1, <2>1, <2>2, <2>3
  <1> QED BY <1>1, <1>3 DEF Stamped

LEMMA AnnounceStamped ==
  ASSUME NEW w, Workers = {w}, TypeOK, Serial(w), Stamped(w), Announce(w)
  PROVE  Stamped(w)'
  <1> DEFINE n == Note("triggered", step[w].alert, step[w].row, task[w].now)
             now == task[w].now
  <1> USE DEF envVars, taskVars
  <1>1. /\ pc[w] = "announce" /\ pc'[w] = "row" /\ notes' = notes \cup {n}
        /\ UNCHANGED <<clock, crashes, status, task, step>>
        /\ status[step[w].alert] = [flag |-> "yes", last |-> now]
    BY DEF Announce, Stamped, TypeOK
  <1>2. n.kind = "triggered" /\ n.alert = step[w].alert /\ n.at = now
    BY DEF Note
  <1>3. now \in Nat /\ now <= clock /\ \A m \in notes : m.at <= now
    BY <1>1 DEF TypeOK, Task, Serial, Stamped
  <1>4. \A a \in Alerts : Announced(a)' = IF a = step[w].alert THEN Announced(a) \cup {now}
                                          ELSE Announced(a)
    BY <1>1, <1>2 DEF Announced
  <1>5. ASSUME NEW a \in Alerts, AtStamp(a) PROVE AtStamp(a)'
    <2>1. CASE a = step[w].alert
      <3>1. \A t \in Announced(a) : t <= now
        BY <1>3 DEF Announced
      <3> QED BY <1>1, <1>3, <1>4, <2>1, <3>1 DEF AtStamp
    <2>2. CASE a # step[w].alert
      <3>1. ~Telling(a)
        BY <2>2 DEF Telling
      <3> QED BY <1>1, <1>4, <1>5, <2>2, <3>1 DEF AtStamp, Notifies
    <2> QED BY <2>1, <2>2
  <1>6. \A m \in notes' : m.at <= clock /\ m.at <= now
    BY <1>1, <1>2, <1>3 DEF Stamped
  <1> QED BY <1>1, <1>5, <1>6 DEF Stamped

LEMMA StepStamped ==
  ASSUME NEW w, Workers = {w}, TypeOK, Serial(w), Stamped(w), [Next]_vars
  PROVE  Stamped(w)'
  <1> USE DEF envVars, taskVars, history
  <1>1. task[w].now <= clock
    BY DEF Serial
  <1>2. CASE UNCHANGED vars
    BY <1>2 DEF vars, Stamped, AtStamp, Announced, Telling, Notifies
  <1>3. CASE Environment
    <2>1. UNCHANGED <<status, pc, taskVars, notes, crashes>> /\ (clock' = clock \/ clock' = clock + 1)
      BY <1>3 DEF Environment, Tick, Post, SetActive, DeleteAlert, Attach, Detach, Edited
    <2>2. clock \in Nat /\ \A n \in notes : n.at \in Nat
      BY DEF TypeOK, NoteRecord
    <2>3. \A n \in notes' : n.at <= clock'
      BY <2>1, <2>2 DEF Stamped
    <2>4. \A a \in Alerts : AtStamp(a) => AtStamp(a)'
      BY <2>1 DEF AtStamp, Announced, Telling, Notifies
    <2> QED BY <2>1, <2>3, <2>4 DEF Stamped
  <1>4. CASE Crash(w)
    <2>1. crashes' # 0 /\ notes' = notes /\ clock' = clock /\ pc'[w] = "idle"
      BY <1>4 DEF Crash, Leave, Release, TypeOK
    <2> QED BY <2>1 DEF Stamped
  <1>5. ASSUME NEW v \in Readings, Begin(w, v) PROVE Stamped(w)'
    BY <1>1, <1>5, FrameStamped DEF Begin, TypeOK
  <1>6. CASE Query(w) \/ Finish(w)
    BY <1>1, <1>6, FrameStamped DEF Query, Finish, Release, TypeOK
  <1>7. ASSUME NEW r \in rows[w], SkipProcessed(w, r) \/ PassOver(w, r) \/ Fail(w, r)
        PROVE  Stamped(w)'
    BY <1>1, <1>7, FrameStamped
       DEF SkipProcessed, PassOver, Fail, AtRow, Reaches, Leave, Release, TypeOK
  <1>8. ASSUME NEW r \in rows[w], Reset(w, r) \/ Hold(w, r) \/ Fire(w, r)
        PROVE  Stamped(w)'
    <2>1. /\ pc[w] = "row" /\ pc'[w] = "commit" /\ UNCHANGED <<status, clock, crashes, task>>
      BY <1>8 DEF Reset, Hold, Fire, CanFire, Prepare, AtRow, Reaches, TypeOK
    <2>2. notes' = notes \/ \E n : n.kind # "triggered" /\ n.at = task[w].now /\ notes' = notes \cup {n}
      <3> DEFINE n == Note("reset", r[1], Loaded(w, r[1]), task[w].now)
      <3>1. n.kind # "triggered" /\ n.at = task[w].now
        BY DEF Note
      <3>2. notes' = notes \/ notes' = notes \cup {n}
        BY <1>8 DEF Reset, Hold, Fire
      <3> QED BY <3>1, <3>2
    <2> QED BY <1>1, <2>1, <2>2, FrameStamped
  <1>9. CASE CommitReset(w)
    BY <1>9, CommitStamped DEF CommitReset, Leave, Release, TypeOK
  <1>10. CASE CommitHold(w) \/ CommitFire(w)
    BY <1>10, CommitStamped DEF CommitHold, CommitFire, CommitRow, TypeOK
  <1>11. CASE CommitConflict(w) \/ ActuateFails(w)
    BY <1>1, <1>11, FrameStamped DEF CommitConflict, ActuateFails, Leave, Release, TypeOK, Notifies
  <1>12. CASE Announce(w)
    BY <1>12, AnnounceStamped
  <1>13. CASE Actuate(w)
    <2> DEFINE n == Note("actuate", step[w].alert, step[w].row, task[w].now)
    <2>1. n.kind # "triggered" /\ n.at = task[w].now
      BY DEF Note
    <2>2. notes' = notes \/ notes' = notes \cup {n}
      BY <1>13 DEF Actuate
    <2> QED BY <1>1, <1>13, <2>1, <2>2, FrameStamped DEF Actuate, TypeOK, Notifies
  <1> QED BY <1>2, <1>3, <1>4, <1>5, <1>6, <1>7, <1>8, <1>9, <1>10, <1>11, <1>12, <1>13
          DEF Next, Work, Walk

(* With one worker, not killed: the stamp of a triggered row is the time of *)
(* the latest announcement, so reminders count their snooze from there.    *)
THEOREM StampsAnnounced ==
  ASSUME NEW w, Workers = {w}
  PROVE  Spec => []AnnouncedAtStamp
  <1>1. Init => Serial(w) /\ Stamped(w)
    BY InitSerial, InitStamped
  <1>2. TypeOK /\ Serial(w) /\ Stamped(w) /\ [Next]_vars => Serial(w)' /\ Stamped(w)'
    BY StepSerial, StepStamped
  <1>3. Stamped(w) => AnnouncedAtStamp
    BY DEF Stamped, AtStamp, Telling, Notifies, AnnouncedAtStamp
  <1> QED BY <1>1, <1>2, <1>3, TypeCorrect, PTL DEF Spec

(* What would clear a pending alert was skipped, or the worker is about to  *)
(* clear it.                                                               *)
Chilled(w, a) ==
  /\ pc[w] \in {"row", "commit", "announce"} /\ ~Hot(w, a)
  /\ \/ a \notin processed[w] /\ \E r \in rows[w] : r[1] = a
     \/ pc[w] = "commit" /\ step[w].alert = a

Skips(a, n) == [alert |-> a, at |-> n] \in skipped
Pends(a) == status[a].last # NULL /\ status[a].flag # "yes"

Heeded(w) ==
  \A r \in reports : ~r.hot /\ Pends(r.alert) /\ status[r.alert].last < r.at =>
    Skips(r.alert, r.at) \/ (r.at = task[w].now /\ Chilled(w, r.alert))

(* A decision to fire looks back over the values since the start.           *)
LooksBack(w) ==
  pc[w] \in {"commit", "announce"} /\ step[w].kind = "fire" /\ step[w].row.flag # "yes" =>
    \A r \in reports : /\ r.alert = step[w].alert /\ ~r.hot
                       /\ Since(step[w].row, task[w].now) < r.at /\ r.at < task[w].now
                     => Skips(r.alert, r.at)

ReportsPast(w) ==
  \A r \in reports : /\ Applies(r.alert, r.at) /\ r.at <= clock
                     /\ pc[w] # "idle" => r.at <= task[w].now

Heated(w) ==
  pc[w] \in {"commit", "announce"} => (Hot(w, step[w].alert) <=> step[w].kind # "reset")

Patient(w) == ReportsPast(w) /\ Heated(w) /\ Heeded(w) /\ LooksBack(w) /\ ThresholdHonoured

LEMMA InitPatient == ASSUME NEW w \in Workers, Init PROVE Patient(w)
  BY DEF Init, Patient, ReportsPast, Heated, Heeded, LooksBack, ThresholdHonoured

(* The task ends, whatever it leaves: it has skipped what it did not walk.  *)
LEMMA LeavePatient ==
  ASSUME TypeOK, NEW w \in Workers, Patient(w), NEW undone, Leave(w, undone),
         UNCHANGED <<clock, notes, reports>>,
         \A a \in Alerts : pc[w] = "commit" /\ a = step[w].alert => a \in undone \/ ~Pends(a)',
         \A a \in Alerts : status'[a] = status[a] \/ ~Pends(a)'
  PROVE  Patient(w)'
  <1>1. pc'[w] = "idle" /\ skipped \subseteq skipped'
    BY DEF Leave, Release, TypeOK
  <1>2. Heeded(w)'
    <2> SUFFICES ASSUME NEW r \in reports, ~r.hot, Pends(r.alert)', status'[r.alert].last < r.at
                 PROVE  Skips(r.alert, r.at)'
      BY DEF Heeded
    <2>1. r.alert \in Alerts /\ status'[r.alert] = status[r.alert]
      BY DEF TypeOK, ReportRecord
    <2>2. Skips(r.alert, r.at) \/ (r.at = task[w].now /\ Chilled(w, r.alert))
      BY <2>1 DEF Patient, Heeded, Pends
    <2>3. ASSUME r.at = task[w].now, Chilled(w, r.alert) PROVE Skips(r.alert, r.at)'
      <3>1. r.alert \in ({q[1] : q \in rows[w]} \ processed[w]) \cup undone
        BY <2>1, <2>3 DEF Chilled
      <3>2. [alert |-> r.alert, at |-> task[w].now] \in skipped'
        BY <3>1 DEF Leave
      <3> QED BY <2>3, <3>2 DEF Skips
    <2> QED BY <1>1, <2>2, <2>3 DEF Skips
  <1>3. ThresholdHonoured'
    BY <1>1 DEF Patient, ThresholdHonoured, Cold
  <1> QED BY <1>1, <1>2, <1>3 DEF Patient, ReportsPast, Heated, LooksBack

(* To the next row, passing over a cold alert only if it is not pending.    *)
LEMMA WalkPatient ==
  ASSUME TypeOK, NEW w \in Workers, Patient(w), NEW r \in rows[w], pc[w] = "row", pc' = pc,
         NextRow(w, r),
         r[1] \in processed[w] \/ ~Applies(r[1], task[w].now) \/ ~Pends(r[1]),
         UNCHANGED <<status, clock, task, step, history>>
  PROVE  Patient(w)'
  <1> USE DEF history
  <1>1. Heeded(w)'
    <2> SUFFICES ASSUME NEW q \in reports, ~q.hot, Pends(q.alert), status[q.alert].last < q.at,
                        q.at = task[w].now, Chilled(w, q.alert)
                 PROVE  Chilled(w, q.alert)'
      BY DEF Patient, Heeded, Pends, Skips
    <2>1. Applies(q.alert, task[w].now)
      BY DEF Patient, ReportsPast
    <2>2. q.alert \notin processed[w] /\ \E x \in rows[w] : x[1] = q.alert
      BY DEF Chilled
    <2>3. q.alert # r[1]
      BY <2>1, <2>2
    <2> QED BY <2>2, <2>3 DEF Chilled, NextRow, Hot, TypeOK
  <1> QED BY <1>1 DEF Patient, ReportsPast, Heated, LooksBack, ThresholdHonoured, Skips

LEMMA PreparePatient ==
  ASSUME TypeOK, NEW w \in Workers, Serial(w), Patient(w), NEW r \in rows[w],
         Reset(w, r) \/ Hold(w, r) \/ Fire(w, r)
  PROVE  Patient(w)'
  <1> DEFINE a == r[1]
             row == Loaded(w, a)
             now == task[w].now
  <1> USE DEF envVars, taskVars, history
  <1>1. pc[w] = "row" /\ a \notin processed[w] /\ a \in Alerts /\ row = status[a]
    BY RowParts DEF Reset, Hold, Fire, CanFire, Reaches, AtRow, Loaded, Serial, TypeOK
  <1>2. PICK kind \in {"reset", "hold", "fire"} :
          Prepare(w, r, kind) /\ (Hot(w, a) <=> kind # "reset")
    BY DEF Reset, Hold, Fire, CanFire
  <1>3. /\ pc'[w] = "commit" /\ UNCHANGED <<status, clock, task, reports, skipped>>
        /\ rows'[w] = rows[w] \ {r} /\ processed'[w] = processed[w] \cup {a}
        /\ step'[w] = [kind |-> kind, alert |-> a, row |-> row, via |-> r[3]]
    BY <1>2 DEF Prepare, NextRow, TypeOK
  <1>4. Heated(w)'
    BY <1>2, <1>3 DEF Heated, Hot
  <1>5. Heeded(w)'
    <2> SUFFICES ASSUME NEW q \in reports, ~q.hot, Pends(q.alert), status[q.alert].last < q.at,
                        q.at = now, Chilled(w, q.alert)
                 PROVE  Chilled(w, q.alert)'
      BY <1>3 DEF Patient, Heeded, Pends, Skips
    <2>1. CASE q.alert = a
      BY <1>3, <2>1 DEF Chilled, Hot
    <2>2. CASE q.alert # a
      BY <1>1, <1>3, <2>2 DEF Chilled, Hot
    <2> QED BY <2>1, <2>2
  <1>6. LooksBack(w)'
    <2> SUFFICES ASSUME NEW q \in reports, q.alert = a, ~q.hot, row.flag # "yes",
                        Since(row, now) < q.at, q.at < now
                 PROVE  Skips(a, q.at)
      BY <1>3 DEF LooksBack, Skips, Since
    <2>1. now \in Nat /\ q.at \in Nat /\ row \in Row
      BY <1>1 DEF TypeOK, Task, ReportRecord
    <2>2. row.last # NULL /\ row.last < q.at
      BY <2>1 DEF Since
    <2> QED BY <1>1, <2>1, <2>2 DEF Patient, Heeded, Pends
  <1>7. ThresholdHonoured'
    <2>1. \A n \in notes' : n \in notes \/ n.kind = "reset"
      BY DEF Reset, Hold, Fire, Note
    <2> QED BY <1>3, <2>1 DEF Patient, ThresholdHonoured, Cold
  <1> QED BY <1>1, <1>3, <1>4, <1>5, <1>6, <1>7 DEF Patient, ReportsPast

LEMMA QueryPatient ==
  ASSUME TypeOK, NEW w \in Workers, Serial(w), Stamped(w), Patient(w), Query(w)
  PROVE  Patient(w)'
  <1> DEFINE now == task[w].now
             new == Report(task[w].value, now)
  <1> USE DEF envVars
  <1>1. /\ pc[w] = "query" /\ pc'[w] = "row" /\ UNCHANGED <<status, clock, task, step, notes, skipped>>
        /\ reports' = reports \cup new /\ rows'[w] = QueryRows /\ processed'[w] = {}
    BY DEF Query, TypeOK
  <1>2. \A q \in new : /\ q.at = now /\ Applies(q.alert, now)
                       /\ q.hot = IsAlertTriggered(q.alert, task[w].value)
                       /\ \E r \in QueryRows : r[1] = q.alert
    BY DEF Report
  <1>3. now \in Nat /\ now <= clock
    BY DEF TypeOK, Task, Serial
  <1>4. ReportsPast(w)'
    BY <1>1, <1>2, <1>3 DEF Patient, ReportsPast
  <1>5. Heeded(w)'
    <2> SUFFICES ASSUME NEW q \in reports', ~q.hot, Pends(q.alert), status[q.alert].last < q.at
                 PROVE  Skips(q.alert, q.at) \/ (q.at = now /\ Chilled(w, q.alert)')
      BY <1>1 DEF Heeded, Pends, Skips
    <2>1. CASE q \in reports
      BY <1>1, <2>1 DEF Patient, Heeded, Chilled
    <2>2. CASE q \in new
      <3>1. q.at = now /\ ~Hot(w, q.alert) /\ \E r \in QueryRows : r[1] = q.alert
        BY <1>2, <2>2 DEF Hot
      <3> QED BY <1>1, <3>1 DEF Chilled, Hot
    <2> QED BY <1>1, <2>1, <2>2
  <1>6. ThresholdHonoured'
    <2>1. ASSUME NEW n \in notes, n.kind # "reset", n.was # "yes", NEW q \in new, Cold(n, q)
          PROVE  FALSE
      <3>1. n.at <= now /\ n.at \in Nat
        BY <1>1 DEF Stamped, TypeOK, NoteRecord
      <3> QED BY <1>2, <1>3, <2>1, <3>1 DEF Cold
    <2> QED BY <1>1, <2>1 DEF Patient, ThresholdHonoured, Cold
  <1> QED BY <1>1, <1>4, <1>5, <1>6 DEF Patient, Heated, LooksBack

LEMMA CommitPatient ==
  ASSUME TypeOK, NEW w \in Workers, Serial(w), Patient(w), CommitHold(w) \/ CommitFire(w)
  PROVE  Patient(w)'
  <1> DEFINE a == step[w].alert
             now == task[w].now
  <1> USE DEF envVars, history
  <1>1. /\ CommitRow(w) /\ pc[w] = "commit" /\ pc'[w] \in {"row", "announce"}
        /\ UNCHANGED <<clock, task, rows, processed, step, notes, reports, skipped>>
        /\ step[w].kind # "reset" /\ now \in Nat
    BY DEF CommitHold, CommitFire, CommitRow, TypeOK, Task
  <1>2. /\ a \in Alerts /\ \A b \in Alerts : b # a => status'[b] = status[b]
        /\ status'[a].flag = "yes" \/ status'[a] = status[a] \/ status'[a].last = now
    <2>1. a \in Alerts /\ status' = [status EXCEPT ![a] = status'[a]]
      BY <1>1, CommitShape
    <2>2. status'[a].flag = "yes" \/ status'[a] = status[a] \/ status'[a].last = now
      <3>1. \/ status'[a] = status[a]
            \/ status'[a].last = now
            \/ status'[a] = [flag |-> "yes", last |-> now]
        BY <1>1, CommitShape, Zenon
      <3> QED BY <3>1
    <2>3. \A b \in Alerts : b # a => status'[b] = status[b]
      BY <2>1 DEF TypeOK
    <2> QED BY <2>1, <2>2, <2>3
  <1>3. Heeded(w)'
    <2> SUFFICES ASSUME NEW r \in reports, ~r.hot, Pends(r.alert)', status'[r.alert].last < r.at
                 PROVE  Skips(r.alert, r.at) \/ (r.at = now /\ Chilled(w, r.alert)')
      BY <1>1 DEF Heeded, Skips
    <2>1. r.alert \in Alerts /\ r.at \in Nat /\ r.at <= now
      BY <1>1 DEF TypeOK, ReportRecord, Patient, ReportsPast
    <2>2. status'[r.alert] = status[r.alert]
      BY <1>1, <1>2, <2>1 DEF Pends
    <2>3. Skips(r.alert, r.at) \/ (r.at = now /\ Chilled(w, r.alert))
      BY <2>2 DEF Patient, Heeded, Pends
    <2>4. Chilled(w, r.alert) => Chilled(w, r.alert)'
      BY <1>1 DEF Patient, Heated, Chilled, Hot
    <2> QED BY <2>3, <2>4
  <1> QED BY <1>1, <1>3 DEF Patient, ReportsPast, Heated, Hot, LooksBack, Skips, Since,
                            ThresholdHonoured

LEMMA TellPatient ==
  ASSUME TypeOK, NEW w \in Workers, Patient(w), Stamped(w), Announce(w) \/ Actuate(w)
  PROVE  Patient(w)'
  <1> DEFINE s == step[w]
             now == task[w].now
  <1> USE DEF envVars, taskVars
  <1>1. /\ pc[w] = "announce" /\ pc'[w] = "row" /\ s.kind = "fire"
        /\ UNCHANGED <<status, clock, task, rows, processed, step, reports, skipped>>
    BY DEF Announce, Actuate, Stamped, TypeOK
  <1>2. PICK kind \in {"triggered", "actuate"} :
          notes' \subseteq notes \cup {Note(kind, s.alert, s.row, now)}
    BY DEF Announce, Actuate
  <1>3. Heeded(w)'
    BY <1>1 DEF Patient, Heeded, Chilled, Hot, Pends, Skips
  <1>4. ThresholdHonoured'
    <2> SUFFICES ASSUME NEW n \in notes', n.kind # "reset", n.was # "yes",
                        NEW r \in reports, Cold(n, r)
                 PROVE  Skips(r.alert, r.at)
      BY <1>1 DEF ThresholdHonoured, Skips
    <2>1. CASE n \in notes
      BY <2>1 DEF Patient, ThresholdHonoured, Skips
    <2>2. CASE n = Note(kind, s.alert, s.row, now)
      BY <1>1, <2>2 DEF Patient, LooksBack, Cold, Note
    <2> QED BY <1>2, <2>1, <2>2
  <1> QED BY <1>1, <1>3, <1>4 DEF Patient, ReportsPast, Heated, LooksBack

LEMMA StepPatient ==
  ASSUME NEW w, Workers = {w}, TypeOK, Serial(w), Stamped(w), Patient(w), [Next]_vars
  PROVE  Patient(w)'
  <1> USE DEF envVars, taskVars, history
  <1>1. CASE UNCHANGED vars
    BY <1>1 DEF vars, Patient, ReportsPast, Heated, Heeded, LooksBack, ThresholdHonoured, Hot,
                Chilled, Pends, Skips, Since
  <1>2. CASE Environment
    <2>1. UNCHANGED <<status, pc, taskVars, history>> /\ (clock' = clock \/ clock' = clock + 1)
      BY <1>2 DEF Environment, Tick, Post, SetActive, DeleteAlert, Attach, Detach, Edited
    <2>2. clock \in Nat /\ \A r \in reports : r.at \in Nat
      BY DEF TypeOK, ReportRecord
    <2>3. ReportsPast(w)'
      BY <2>1, <2>2 DEF Patient, ReportsPast
    <2> QED BY <2>1, <2>3 DEF Patient, Heated, Heeded, LooksBack, ThresholdHonoured, Hot, Chilled,
                              Pends, Skips, Since
  <1>3. ASSUME NEW v \in Readings, Begin(w, v) PROVE Patient(w)'
    <2>1. pc[w] = "idle" /\ pc'[w] = "query" /\ task'[w].now = clock
          /\ UNCHANGED <<status, clock, step, notes, reports, skipped>>
      BY <1>3 DEF Begin, TypeOK
    <2> QED BY <2>1 DEF Patient, ReportsPast, Heated, Heeded, LooksBack, ThresholdHonoured,
                        Chilled, Pends, Skips
  <1>4. CASE Query(w)
    BY <1>4, QueryPatient
  <1>5. ASSUME NEW r \in rows[w], SkipProcessed(w, r) \/ PassOver(w, r) PROVE Patient(w)'
    <2>1. /\ pc[w] = "row" /\ pc' = pc /\ NextRow(w, r)
          /\ UNCHANGED <<status, clock, task, step, history>>
      BY <1>5 DEF SkipProcessed, PassOver, AtRow, Reaches
    <2>2. r[1] \in processed[w] \/ ~Applies(r[1], task[w].now) \/ ~Pends(r[1])
      <3>1. r[1] \in Alerts
        BY RowParts DEF TypeOK
      <3>2. r[1] \notin processed[w] => Loaded(w, r[1]) = status[r[1]]
        BY <2>1, <3>1 DEF Loaded, Serial
      <3> QED BY <1>5, <3>2 DEF SkipProcessed, PassOver, Pends
    <2> QED BY <2>1, <2>2, WalkPatient
  <1>6. ASSUME NEW r \in rows[w], Fail(w, r) PROVE Patient(w)'
    <2>1. pc[w] = "row" /\ Leave(w, {}) /\ UNCHANGED <<clock, status, notes, reports>>
      BY <1>6 DEF Fail, AtRow, Reaches
    <2> QED BY <2>1, LeavePatient
  <1>7. ASSUME NEW r \in rows[w], Reset(w, r) \/ Hold(w, r) \/ Fire(w, r) PROVE Patient(w)'
    BY <1>7, PreparePatient
  <1>8. CASE CommitReset(w)
    <2>1. CommitRow(w) /\ Leave(w, {}) /\ UNCHANGED <<clock, notes, reports>> /\ step[w].kind = "reset"
      BY <1>8 DEF CommitReset
    <2>2. status' = [status EXCEPT ![step[w].alert] = [flag |-> "no", last |-> NULL]]
          /\ step[w].alert \in Alerts
      BY <2>1, CommitShape
    <2>3. \A a \in Alerts : (a # step[w].alert => status'[a] = status[a])
                           /\ (a = step[w].alert => status'[a].last = NULL)
      BY <2>2 DEF TypeOK
    <2> QED BY <2>1, <2>3, LeavePatient DEF Pends
  <1>9. CASE CommitHold(w) \/ CommitFire(w)
    BY <1>9, CommitPatient
  <1>10. CASE CommitConflict(w)
    <2>1. Leave(w, {step[w].alert}) /\ UNCHANGED <<clock, status, notes, reports>>
      BY <1>10 DEF CommitConflict
    <2> QED BY <2>1, LeavePatient
  <1>11. CASE ActuateFails(w)
    <2>1. pc[w] = "announce" /\ Leave(w, {}) /\ UNCHANGED <<clock, status, notes, reports>>
      BY <1>11 DEF ActuateFails
    <2> QED BY <2>1, LeavePatient
  <1>12. CASE Crash(w)
    <2> DEFINE undone == IF pc[w] = "commit" THEN {step[w].alert} ELSE {}
    <2>1. Leave(w, undone) /\ UNCHANGED <<clock, status, notes, reports>>
      BY <1>12 DEF Crash
    <2>2. \A a \in Alerts : pc[w] = "commit" /\ a = step[w].alert => a \in undone
      OBVIOUS
    <2> HIDE DEF undone
    <2> QED BY <2>1, <2>2, LeavePatient
  <1>13. CASE Announce(w) \/ Actuate(w)
    BY <1>13, TellPatient
  <1>14. CASE Finish(w)
    <2>1. pc[w] = "row" /\ rows[w] = {} /\ Release(w) /\ UNCHANGED <<clock, status, history>>
      BY <1>14 DEF Finish
    <2>2. Leave(w, {})
      BY <2>1 DEF Leave
    <2> QED BY <2>1, <2>2, LeavePatient
  <1> QED BY <1>1, <1>2, <1>3, <1>4, <1>5, <1>6, <1>7, <1>8, <1>9, <1>10, <1>11, <1>12, <1>13, <1>14
          DEF Next, Work, Walk

(* With one worker, killed or not: an alert that has to be active for its   *)
(* duration fires only if every value in between triggered it, but for     *)
(* those that no task looked at for this alert.                            *)
THEOREM ThresholdsHonoured ==
  ASSUME NEW w, Workers = {w}
  PROVE  Spec => []ThresholdHonoured
  <1>1. Init => Serial(w) /\ Stamped(w) /\ Patient(w)
    BY InitSerial, InitStamped, InitPatient
  <1>2. TypeOK /\ Serial(w) /\ Stamped(w) /\ Patient(w) /\ [Next]_vars =>
          Serial(w)' /\ Stamped(w)' /\ Patient(w)'
    BY StepSerial, StepStamped, StepPatient
  <1>3. Patient(w) => ThresholdHonoured
    BY DEF Patient
  <1> QED BY <1>1, <1>2, <1>3, TypeCorrect, PTL DEF Spec
=============================================================================
