-------------------------- MODULE MCDeviceSessions --------------------------
(* DeviceSessions on small instances: links, and devices, are              *)
(* interchangeable; connection ids, being compared, are not.               *)
EXTENDS DeviceSessions, TLC

Symmetry == Permutations(Links) \cup Permutations(Devices)
=============================================================================
