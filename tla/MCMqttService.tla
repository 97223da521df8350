--------------------------- MODULE MCMqttService ---------------------------
(* MqttService on small instances for TLC. *)
EXTENDS MqttService
=============================================================================
