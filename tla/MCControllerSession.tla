------------------------ MODULE MCControllerSession ------------------------
(* The session of a controller on a small instance, while admission, at    *)
(* the other end, does not move.  (No symmetry: liveness is checked.)      *)
EXTENDS ConnectToDevice, MCAdmission

MCSpec ==
  /\ Init /\ enabled = TRUE
  /\ C!Init
  /\ [][C!Next /\ UNCHANGED vars]_<<vars, C!vars>>
  /\ C!Fairness
=============================================================================
