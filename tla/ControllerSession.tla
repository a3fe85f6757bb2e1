------------------------- MODULE ControllerSession -------------------------
(***************************************************************************)
(* The controller SDK's session (ControllerConnectSession): concurrent     *)
(* calls of send_request over one stream, matched with the responses by    *)
(* sequence number through PendingRequests, and the task that reads the    *)
(* stream.  The relay answers a message at most once, in any order, or     *)
(* never.  The application chooses the sequence numbers, so a retry uses   *)
(* one that an earlier call used, and may still be using.                  *)
(***************************************************************************)
EXTENDS Naturals, Sequences

CONSTANTS
  Calls,            \* calls of send_request
  Seqs,             \* sequence numbers
  ChannelCapacity,  \* of the outbound channel
  None

(* What a configuration of the session satisfies. *)
SessionParameters ==
  /\ ChannelCapacity \in Nat \ {0}
  /\ None \notin Calls \cup Seqs
  /\ None \notin {"Closed", "UnknownCode", "StreamClosed", "SequenceResponseNotFound"}
  /\ Calls \cap {"Closed", "UnknownCode", "StreamClosed", "SequenceResponseNotFound"} = {}

VARIABLES
  pc, seq, rx,     \* per call; rx is its oneshot channel: empty, a response
                   \* (UnknownCode: one whose error code is not of the enum),
                   \* or Closed when the sender was dropped
  result,          \* what the call returned
  pending,         \* PendingRequests: sequence number -> the call's sender
  open, reading,   \* is the stream up?; does the reader task run?
  outbound,        \* calls whose message is in the outbound channel
  unanswered       \* calls whose message the relay has read, and whose
                   \* response, if any, has not arrived

callVars == <<pc, seq, rx, result>>
streamVars == <<open, reading, outbound, unanswered>>
vars == <<callVars, pending, streamVars>>

(* Every variable has its type. *)
TypeOK ==
  /\ pc \in [Calls -> {"new", "send", "wait", "remove", "returned"}]
  /\ seq \in [Calls -> Seqs \cup {None}]
  /\ rx \in [Calls -> Calls \cup {None, "Closed", "UnknownCode"}]
  /\ result \in [Calls -> Calls \cup {None, "StreamClosed", "SequenceResponseNotFound"}]
  /\ pending \in [Seqs -> Calls \cup {None}]
  /\ open \in BOOLEAN /\ reading \in BOOLEAN
  /\ outbound \in Seq(Calls) /\ Len(outbound) <= ChannelCapacity
  /\ unanswered \subseteq Calls

Init ==
  /\ pc = [c \in Calls |-> "new"]
  /\ seq = [c \in Calls |-> None]
  /\ rx = [c \in Calls |-> None]
  /\ result = [c \in Calls |-> None]
  /\ pending = [s \in Seqs |-> None]
  /\ open = TRUE /\ reading = TRUE
  /\ outbound = <<>> /\ unanswered = {}

-----------------------------------------------------------------------------
Goto(c, p) == pc' = [pc EXCEPT ![c] = p]

(* Dropping a sender closes the channel of the call it belongs to. *)
DropSender(s) ==
  rx' = [c \in Calls |-> IF c = pending[s] /\ rx[c] = None THEN "Closed" ELSE rx[c]]

(* Mutant: the previous sender is kept somewhere. *)
InsertKeepsPrevious(c, s) ==
  /\ pc[c] = "new"
  /\ seq' = [seq EXCEPT ![c] = s]
  /\ pending' = [pending EXCEPT ![s] = c]
  /\ Goto(c, "send")
  /\ UNCHANGED <<rx, result, streamVars>>

(* PendingRequests::insert: a previous sender is dropped.  (A payload that *)
(* is too large is refused before this, and changes nothing.)              *)
Insert(c, s) ==
  /\ pc[c] = "new"
  /\ seq' = [seq EXCEPT ![c] = s]
  /\ pending' = [pending EXCEPT ![s] = c]
  /\ DropSender(s)
  /\ Goto(c, "send")
  /\ UNCHANGED <<result, streamVars>>

(* outbound_tx.send: waits for room, and fails once the stream is down.    *)
Send(c) ==
  /\ pc[c] = "send"
  /\ \/ /\ open
        /\ Len(outbound) < ChannelCapacity
        /\ outbound' = Append(outbound, c)
        /\ Goto(c, "wait")
        /\ UNCHANGED result
     \/ /\ ~open
        /\ result' = [result EXCEPT ![c] = "StreamClosed"]
        /\ Goto(c, "remove")
        /\ UNCHANGED outbound
  /\ UNCHANGED <<seq, rx, pending, open, reading, unanswered>>

(* The channel of the call has a response, or is closed.  A response with  *)
(* a code that map_device_response_to_sequence_result does not know is     *)
(* returned as StreamClosed too.                                           *)
Received(c) ==
  /\ pc[c] = "wait"
  /\ rx[c] # None
  /\ \/ /\ rx[c] \in Calls
        /\ result' = [result EXCEPT ![c] = rx[c]]
        /\ Goto(c, "returned")
     \/ /\ rx[c] = "UnknownCode"
        /\ result' = [result EXCEPT ![c] = "StreamClosed"]
        /\ Goto(c, "returned")
     \/ /\ rx[c] = "Closed"
        /\ result' = [result EXCEPT ![c] = "StreamClosed"]
        /\ Goto(c, "remove")
  /\ UNCHANGED <<seq, rx, pending, streamVars>>

(* Mutant: a call gives up only while the stream is up. *)
TimeoutWhileOpen(c) ==
  /\ pc[c] = "wait"
  /\ open
  /\ rx[c] = None
  /\ result' = [result EXCEPT ![c] = "SequenceResponseNotFound"]
  /\ Goto(c, "remove")
  /\ UNCHANGED <<seq, rx, pending, streamVars>>

(* Mutant: the call returns without removing its entry. *)
TimeoutNoRemove(c) ==
  /\ pc[c] = "wait"
  /\ rx[c] = None
  /\ result' = [result EXCEPT ![c] = "SequenceResponseNotFound"]
  /\ Goto(c, "returned")
  /\ UNCHANGED <<seq, rx, pending, streamVars>>

Timeout(c) ==
  /\ pc[c] = "wait"
  /\ rx[c] = None
  /\ result' = [result EXCEPT ![c] = "SequenceResponseNotFound"]
  /\ Goto(c, "remove")
  /\ UNCHANGED <<seq, rx, pending, streamVars>>

(* Mutant: all entries are removed. *)
RemoveAll(c) ==
  /\ pc[c] = "remove"
  /\ pending' = [s \in Seqs |-> None]
  /\ rx' = [d \in Calls |-> IF rx[d] = None /\ \E s \in Seqs : d = pending[s]
                            THEN "Closed" ELSE rx[d]]
  /\ Goto(c, "returned")
  /\ UNCHANGED <<seq, result, streamVars>>

(* PendingRequests::remove: whatever sender its sequence number has. *)
Remove(c) ==
  /\ pc[c] = "remove"
  /\ pending' = [pending EXCEPT ![seq[c]] = None]
  /\ DropSender(seq[c])
  /\ Goto(c, "returned")
  /\ UNCHANGED <<seq, result, streamVars>>

-----------------------------------------------------------------------------
(* Mutant: any waiting call gets the response. *)
CompleteAny(c) ==
  /\ reading
  /\ c \in unanswered
  /\ unanswered' = unanswered \ {c}
  /\ \E s \in Seqs :
       /\ pending[s] # None
       /\ rx' = [rx EXCEPT ![pending[s]] = c]
       /\ pending' = [pending EXCEPT ![s] = None]
  /\ UNCHANGED <<pc, seq, result, open, reading, outbound>>

(* The reader task: map_device_response_to_sequence_result, then           *)
(* PendingRequests::complete, for the response to c.                       *)
Complete(c) ==
  /\ reading
  /\ c \in unanswered
  /\ unanswered' = unanswered \ {c}
  /\ pending' = [pending EXCEPT ![seq[c]] = None]
  /\ \E response \in {c, "UnknownCode"} :
       rx' = [d \in Calls |-> IF d = pending[seq[c]] /\ rx[d] = None
                              THEN response ELSE rx[d]]
  /\ UNCHANGED <<pc, seq, result, open, reading, outbound>>

(* The reader ends with the stream; the calls that wait are not told. *)
ReaderEnds ==
  /\ reading
  /\ ~open
  /\ reading' = FALSE
  /\ UNCHANGED <<callVars, pending, open, outbound, unanswered>>

-----------------------------------------------------------------------------
(* The other side of the stream. *)
RelayReads ==
  /\ open
  /\ outbound # <<>>
  /\ unanswered' = unanswered \cup {Head(outbound)}
  /\ outbound' = Tail(outbound)
  /\ UNCHANGED <<callVars, pending, open, reading>>

StreamCloses ==
  /\ open
  /\ open' = FALSE
  /\ outbound' = <<>>
  /\ UNCHANGED <<callVars, pending, reading, unanswered>>

-----------------------------------------------------------------------------
CallStep(c) == Send(c) \/ Received(c) \/ Timeout(c) \/ Remove(c)

Next ==
  \/ \E c \in Calls :
       \/ \E s \in Seqs : Insert(c, s)
       \/ CallStep(c) \/ Complete(c)
  \/ ReaderEnds \/ RelayReads \/ StreamCloses

Spec == Init /\ [][Next]_vars

(* The runtime runs the calls and their timers (those that wait to send    *)
(* get their turn: the channel and its mutex are fair); the relay reads    *)
(* its stream, but need not answer.                                        *)
Fairness ==
  /\ \A c \in Calls : WF_vars(Received(c) \/ Timeout(c) \/ Remove(c)) /\ SF_vars(Send(c))
  /\ WF_vars(RelayReads)

-----------------------------------------------------------------------------
(* Properties. *)

(* A call that returns data got the response to a message that was sent    *)
(* with its own sequence number, whatever was retried, timed out or        *)
(* answered late (PendingRequests::complete).                              *)
OwnSequence ==
  \A c \in Calls : result[c] \in Calls => seq[result[c]] = seq[c]

(* Only calls that have not returned are in PendingRequests: no way to     *)
(* return leaves an entry behind.                                          *)
NoLeakedEntry ==
  \A s \in Seqs : pending[s] # None => pc[pending[s]] # "returned"

(* A call that waits can still be told: its sender is in PendingRequests,  *)
(* or its channel has been filled or closed.                               *)
WaiterIsKnown ==
  \A c \in Calls : pc[c] = "wait" /\ rx[c] = None => pending[seq[c]] = c

(* A call fails with StreamClosed only if the stream did close, if the     *)
(* application used its sequence number for another call, or if it was     *)
(* answered with an error code the SDK does not know; never because an     *)
(* unrelated call failed, timed out or was retried.                        *)
ClosedMeansClosed ==
  \A c \in Calls : result[c] = "StreamClosed" =>
    \/ ~open
    \/ \E d \in Calls \ {c} : seq[d] = seq[c]
    \/ rx[c] = "UnknownCode"

(* Every call returns: in the end no call is under way, although the relay *)
(* may not answer, and although the reader does not fail those that wait   *)
(* when the stream ends ("we rely on timeout in send_request",             *)
(* connect.rs).                                                            *)
CallsReturn == <>[](\A c \in Calls : pc[c] \in {"new", "returned"})
=============================================================================
