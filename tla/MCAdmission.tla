---------------------------- MODULE MCAdmission ----------------------------
(***************************************************************************)
(* Admission with an operator c1 of project p1 and an admin c2; device d1  *)
(* belongs to p1, d2 to p2; one method of two is allowed.                  *)
(***************************************************************************)
EXTENDS Admission

Token(c, role, projects) ==
  [controller_id |-> c, role |-> role, allowed_project_ids |-> projects]
MCTokens == [t1 |-> Token("c1", "operator", {"p1"}), t2 |-> Token("c2", "admin", {})]
MCDevices == [d1 |-> "p1", d2 |-> "p2"]

Message(c, d, method, token, malformed) ==
  [controller |-> c, device |-> d, method |-> method, token |-> token,
   malformed |-> malformed]

(* Each way to be refused, and each way to be let through. *)
MCMessages ==
  {Message(c, d, method, token, None) :
     c \in {"c1", "c2"}, d \in {"d1", "d2"}, method \in {"m1"}, token \in {"t1", "t2"}}
  \cup {Message("c2", "d3", "m1", "t2", None), Message("c1", "d1", "m2", "t1", None),
        Message("c1", "d1", "m1", None, None)}
  \cup {Message("c1", "d1", "m1", "t1", field) :
          field \in {"controller_id", "target_device_id", "method_name"}}
=============================================================================
