--------------------------- MODULE MCSensorActivity ---------------------------
(* Instances of SensorActivity for TLC. *)
EXTENDS SensorActivity

MCAlerts == {"a1", "a2"}
MCSensors == {"s1"}
Always == 0..MaxClock

(* a1 allows a minute of silence, a2 none; a2 reaches s1 by two rows *)
MCWatches == {[alert |-> "a1", sensor |-> "s1", copy |-> 1],
              [alert |-> "a2", sensor |-> "s1", copy |-> 1],
              [alert |-> "a2", sensor |-> "s1", copy |-> 2]}
OneWatch == {[alert |-> "a1", sensor |-> "s1", copy |-> 1]}
MCLimit == [a1 |-> 1, a2 |-> 0]
MCBetween == [a1 |-> Always, a2 |-> 1..MaxClock]
MCHours == [s1 |-> 0..(MaxClock - 1)]
MCTimeout == [s1 |-> 1]
UpdatedOrNot == {0, NULL}
NeverUpdated == {NULL}
=============================================================================
