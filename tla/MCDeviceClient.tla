--------------------------- MODULE MCDeviceClient ---------------------------
(* DeviceClient on a small instance. *)
EXTENDS DeviceClient
=============================================================================
