-------------------------- MODULE MCMqttPublisher --------------------------
(* Model checking of MqttPublisher; its bounds are constants. *)
EXTENDS MqttPublisher
=============================================================================
