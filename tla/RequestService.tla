--------------------------- MODULE RequestService ---------------------------
(***************************************************************************)
(* What the relay promises a controller about each message it accepts,     *)
(* without saying how: no in-flight table, no cache, no streams and no     *)
(* timers.  Module RequestRelay implements it (ImplementsService there).   *)
(*                                                                         *)
(* A message is sent to its device at most once.  A message that was sent  *)
(* is never dropped: it ends with an answer, which is the device's result  *)
(* for a message of the same device and sequence number, or DeviceOffline. *)
(* A message that was not sent may be refused with RateLimited, may be     *)
(* answered for a duplicate's sake, or may be given up.  An answer is      *)
(* final.                                                                  *)
(***************************************************************************)
CONSTANTS
  Requests,   \* messages, retransmissions included
  Keys,       \* pairs of a device and a sequence number
  None

VARIABLES
  status,     \* where a message is: unsent, pending or done
  key,        \* its device and sequence number
  sent,       \* messages sent to a device
  answer      \* what its controller was told

vars == <<status, key, sent, answer>>

Init ==
  /\ status = [r \in Requests |-> "unsent"]
  /\ key = [r \in Requests |-> None]
  /\ sent = {}
  /\ answer = [r \in Requests |-> None]

Accept(r, k) ==
  /\ status[r] = "unsent"
  /\ status' = [status EXCEPT ![r] = "pending"]
  /\ key' = [key EXCEPT ![r] = k]
  /\ UNCHANGED <<sent, answer>>

(* Open: the relay may still decide what becomes of r. *)
Open(r) == status[r] = "pending" /\ answer[r] = None

Send(r) ==
  /\ Open(r)
  /\ r \notin sent
  /\ sent' = sent \cup {r}
  /\ UNCHANGED <<status, key, answer>>

Refuse(r) ==
  /\ Open(r)
  /\ r \notin sent
  /\ answer' = [answer EXCEPT ![r] = "RateLimited"]
  /\ UNCHANGED <<status, key, sent>>

(* The results r may be answered with: those of its own key. *)
Results(r) == {s \in sent : key[s] = key[r]}

Answer(r) ==
  /\ Open(r)
  /\ \E response \in Results(r) \cup {"DeviceOffline"} :
       answer' = [answer EXCEPT ![r] = response]
  /\ status' = [status EXCEPT ![r] = "done"]
  /\ UNCHANGED <<key, sent>>

(* The relay is done with a message it never sent. *)
GiveUp(r) ==
  /\ status[r] = "pending"
  /\ r \notin sent
  /\ status' = [status EXCEPT ![r] = "done"]
  /\ UNCHANGED <<key, sent, answer>>

Next ==
  \/ \E r \in Requests, k \in Keys : Accept(r, k)
  \/ \E r \in Requests : Send(r) \/ Refuse(r) \/ Answer(r) \/ GiveUp(r)

Spec == Init /\ [][Next]_vars
=============================================================================
