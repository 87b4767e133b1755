---------------------------- MODULE MCSensorConfig ----------------------------
(* Instances of SensorConfig for TLC. *)
EXTENDS SensorConfig

\* Workers are asked for whatever an alert or a form can ask for, or for both
\* fields at once, while the event e2 asks for one of them.
AnyRequest == Change
OneRequest == {[f \in Fields |-> IF f = "f" THEN 1 ELSE 0]}

(* e1 and e2 set different fields and can fall due in the same minute *)
MCEvents == {"e1", "e2"}
MCShape == [e1 |-> [field |-> "f", value |-> 1, repeat |-> TRUE],
            e2 |-> [field |-> "g", value |-> 1, repeat |-> FALSE]]

OneEvent == {"e2"}
OneShape == [e2 |-> MCShape["e2"]]
=============================================================================
