----------------------------- MODULE MCAuditLog -----------------------------
(* Model checking of AuditLog; its bounds are constants. *)
EXTENDS AuditLog
=============================================================================
