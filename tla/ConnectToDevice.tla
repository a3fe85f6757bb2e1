--------------------------- MODULE ConnectToDevice ---------------------------
(***************************************************************************)
(* The two ends of a ConnectToDevice stream: the relay's admission of what *)
(* controllers send, and the SDK's session at a controller, with constants *)
(* and variables of its own.  The session knows of the relay only that it  *)
(* reads the stream and may answer, so nothing is shared.                  *)
(***************************************************************************)
EXTENDS Admission

CONSTANTS Calls, Seqs, ChannelCapacity

VARIABLES call_pc, seq, rx, result, pending, open, reading, outbound, unanswered

C == INSTANCE ControllerSession WITH pc <- call_pc

ASSUME SessionAssumption == C!SessionParameters

(* What ControllerSession promises of send_request (see there).            *)

(* A response is of the call's own sequence number. *)
OwnSequence == C!OwnSequence

(* No call that has returned is left in PendingRequests. *)
NoLeakedEntry == C!NoLeakedEntry

(* A call that waits can still be told. *)
WaiterIsKnown == C!WaiterIsKnown

(* StreamClosed is returned only for one of its three reasons. *)
ClosedMeansClosed == C!ClosedMeansClosed

(* Every call returns. *)
CallsReturn == C!CallsReturn
=============================================================================
