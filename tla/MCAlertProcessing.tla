------------------------- MODULE MCAlertProcessing -------------------------
(* Instances of AlertProcessing for TLC.                                    *)
EXTENDS AlertProcessing, TLC

Always == 0..MaxClock

MCAlert(type, value, threshold, snooze, window, action) ==
    [type |-> type, field |-> "t", value |-> value, threshold |-> threshold,
     snooze |-> snooze, window |-> window, action |-> action, detailsFail |-> FALSE]

MCFields == {"t"}
High == [t |-> 2]
Low == [t |-> 0]
Partial == << >>

(* one alert that waits a minute, one that fires at once and opens late *)
SerialConf == [a1 |-> MCAlert("gt", 1, 1, 1, Always, "notification"),
               a2 |-> MCAlert("gte", 2, 0, 0, 1..MaxClock, "notification")]

(* a1 notifies after a minute; a2 configures an actuator and has no snooze *)
RacingConf == [a1 |-> MCAlert("gt", 1, 1, 1, Always, "notification"),
               a2 |-> MCAlert("gt", 1, 0, NULL, Always, "trigger")]
WorkerSymmetry == Permutations(Workers)

ThresholdConf == [a1 |-> MCAlert("gt", 1, 0, 1, Always, "notification"),
                  a2 |-> MCAlert("gt", 1, 2, 1, Always, "notification")]

TriggerConf == [a1 |-> MCAlert("gt", 1, 0, NULL, Always, "trigger"),
                a2 |-> MCAlert("eq", 2, 1, 1, Always, "notification")]

(* a1 has two rows, one by a network the sensor is no member of, so its    *)
(* rows meet the "processed" set                                           *)
TwoPaths == {[a1 |-> {Direct, "n1", "n2"}, a2 |-> {"n1"}]}
AllDirect == {[a1 |-> {Direct}, a2 |-> {Direct}]}
SomeDirect == AllDirect \cup {[a1 |-> {Direct}, a2 |-> {"n1", Other}]}

HotAndCold == {High, Low}
HotColdAndPartial == {High, Low, Partial}
OnlyHot == {High}
=============================================================================
