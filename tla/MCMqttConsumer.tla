---------------------------- MODULE MCMqttConsumer ----------------------------
(* Instances of MqttConsumer for TLC. *)
EXTENDS MqttConsumer

(* v1 and v2 are values, m1 is not JSON, s1 is a bare number *)
MCMessages == {"v1", "m1", "s1"}
MCKind == [v1 |-> "value", m1 |-> "malformed", s1 |-> "scalar"]

TwoValues == {"v1", "v2"}
ValueKind == [v1 |-> "value", v2 |-> "value"]
=============================================================================
