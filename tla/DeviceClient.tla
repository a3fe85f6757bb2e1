---------------------------- MODULE DeviceClient ----------------------------
(***************************************************************************)
(* The device SDK's client (DeviceConnectClient) and the relay's end of    *)
(* its stream: connecting, being admitted or refused by the connection     *)
(* limiter and the resource monitor, heartbeats and the heartbeat timeout, *)
(* data requests with their bounded handlers, and reconnecting with        *)
(* back-off when the stream ends.                                          *)
(*                                                                         *)
(* Time is kept as ages and remaining times.  A tick is far longer than a  *)
(* ready task waits for the processor, so time passes when no task of      *)
(* either side can run (Busy); only data handlers and the network take     *)
(* time of their own.  A relay handler that outlives its stream, and which *)
(* connection id a registration offers, are in DeviceSessions.             *)
(***************************************************************************)
EXTENDS Integers, Sequences

CONSTANTS
  Requests,             \* data requests of controllers
  initial_seconds, max_seconds,             \* RetryBackoff
  heartbeat_interval,                       \* of the device
  heartbeat_timeout,                        \* of the relay
  device_limit, device_window,              \* ConnectionRateLimiter
  global_limit, global_window,
  MAX_CONCURRENT_DATA_HANDLERS,
  DeviceCapacity,       \* tx, the device's outbound channel
  RelayCapacity,        \* out_tx, the relay's outbound channel
  MaxAttempts,          \* bound: attempts told apart
  MaxMissed,            \* bound: ticks a heartbeat is late
  None

(* What a configuration of the two ends satisfies. *)
ClientParameters ==
  /\ {initial_seconds, max_seconds, heartbeat_interval, heartbeat_timeout,
      device_limit, device_window, global_limit, global_window,
      MAX_CONCURRENT_DATA_HANDLERS, DeviceCapacity, RelayCapacity}
       \subseteq Nat \ {0}
  /\ {MaxAttempts, MaxMissed} \subseteq Nat
  /\ heartbeat_interval < heartbeat_timeout
  /\ Requests \cap {"Register", "Heartbeat", "RegisterResponse", "HeartbeatResponse"} = {}
  /\ None \notin Int /\ None \notin Requests
  /\ None \notin {"loop", "answer", "closed", "broken"}

ASSUME ClientAssumption == ClientParameters

VARIABLES
  recovery_enabled,     \* session_recovery_window_seconds # 0
  pc,                   \* where run and connect_once are
  attempt, sleep, last_connection_id,       \* locals of run
  heartbeat,            \* the heartbeat task's next tick; None when it is off
  reading,              \* the data request the reader holds
  handling, permits,    \* the stream's data handlers and data_handler_limit
  orphans,              \* data handlers of earlier streams that still run
  tx, out,              \* messages to the relay, and to the device
  relay, owed,          \* the relay's handler, and the message it is sending
  session,              \* is the device's session in sessions_by_device_id?
  silence,              \* how long it has waited for the next message
  device_windows, global_window_data,       \* ages of admitted connections
  registrations,        \* ages of registrations (history)
  sent, waiting,        \* requests sent, and those this stream has yet to answer
  network,              \* what the stream delivers
  calm                  \* no more faults

clientVars == <<pc, attempt, sleep, last_connection_id>>
streamVars == <<heartbeat, reading, handling, permits, orphans>>
relayVars == <<relay, owed, session, silence>>
limitVars == <<device_windows, global_window_data, registrations>>
requestVars == <<sent, waiting>>
worldVars == <<recovery_enabled, network, calm>>
vars == <<clientVars, streamVars, tx, out, relayVars, limitVars, requestVars,
          worldVars>>

Min2(a, b) == IF a < b THEN a ELSE b

stalled == network = "stalled"

PCs == {"connect", "call", "opened", "register", "open", "sleep", "stopped"}

(* Every variable has its type. *)
TypeOK ==
  /\ pc \in PCs
  /\ attempt \in 0..MaxAttempts
  /\ sleep \in 0..max_seconds
  /\ last_connection_id \in BOOLEAN
  /\ heartbeat \in ((-MaxMissed)..heartbeat_interval) \cup {None}
  /\ reading \in Requests \cup {None}
  /\ handling \subseteq Requests /\ orphans \subseteq Requests
  /\ permits \in 0..MAX_CONCURRENT_DATA_HANDLERS
  /\ tx \in Seq(Requests \cup {"Register", "Heartbeat"})
  /\ Len(tx) <= DeviceCapacity
  /\ out \in Seq(Requests \cup {"RegisterResponse", "HeartbeatResponse"})
  /\ Len(out) <= RelayCapacity
  /\ relay \in {None, "loop", "answer", "closed", "broken"}
  /\ owed \in {"RegisterResponse", "HeartbeatResponse", None}
  /\ session \in BOOLEAN
  /\ silence \in 0..heartbeat_timeout
  /\ device_windows \in Seq(0..device_window)
  /\ global_window_data \in Seq(0..global_window)
  /\ registrations \in Seq(0..(device_window - 1))
  /\ waiting \subseteq sent /\ sent \subseteq Requests
  /\ {recovery_enabled, calm} \subseteq BOOLEAN
  /\ network \in {"up", "stalled", "back"}

Init ==
  /\ recovery_enabled \in BOOLEAN
  /\ pc = "connect" /\ attempt = 0 /\ sleep = 0 /\ last_connection_id = FALSE
  /\ heartbeat = None /\ reading = None
  /\ handling = {} /\ permits = MAX_CONCURRENT_DATA_HANDLERS /\ orphans = {}
  /\ tx = <<>> /\ out = <<>>
  /\ relay = None /\ owed = None /\ session = FALSE /\ silence = 0
  /\ device_windows = <<>> /\ global_window_data = <<>> /\ registrations = <<>>
  /\ sent = {} /\ waiting = {}
  /\ network = "up" /\ calm = FALSE

-----------------------------------------------------------------------------
(* ConnectionRateLimiter: a window holds the ages of admitted connections, *)
(* the oldest first.                                                       *)

(* How many entries at the front are as old as the window is long. *)
Expired(window, duration) ==
  CHOOSE n \in 0..Len(window) :
    /\ \A i \in 1..n : window[i] >= duration
    /\ n < Len(window) => window[n + 1] < duration

(* Mutant: a connection leaves the window one tick early. *)
PruneEarly(window, duration) ==
  SubSeq(window, Expired(window, duration - 1) + 1, Len(window))

Prune(window, duration) ==
  SubSeq(window, Expired(window, duration) + 1, Len(window))

HasRoom(window, limit, duration) == Len(Prune(window, duration)) < limit

(* Mutant: refused attempts are recorded too. *)
PruneAndRecord(window, limit, duration) == Append(Prune(window, duration), 0)

prune_and_check(window, limit, duration) ==
  IF HasRoom(window, limit, duration) THEN Append(Prune(window, duration), 0)
                                      ELSE Prune(window, duration)

(* RetryBackoff::next_sleep_seconds.  The jitter, a fixed function of the  *)
(* attempt, scales by a factor from 0.5 to 1.5.                            *)
next_sleep_seconds(n) ==
  LET capped == Min2(initial_seconds * 2 ^ n, max_seconds)
  IN {s \in 1..max_seconds : capped <= 2 * s /\ 2 * s <= 3 * capped}

-----------------------------------------------------------------------------
(* run: connect_once returned and the client retries.  It returned a       *)
(* connection id if the client was registered, an error if not.            *)
Retry(registered) ==
  LET failures == IF registered THEN 0 ELSE attempt
  IN /\ pc' = "sleep"
     /\ last_connection_id' = (last_connection_id \/ registered)
     /\ attempt' = Min2(failures + 1, MaxAttempts)
     /\ sleep' \in next_sleep_seconds(failures)

Wake ==
  /\ pc = "sleep" /\ sleep = 0
  /\ pc' = "connect"
  /\ UNCHANGED <<attempt, sleep, last_connection_id, streamVars, tx, out,
                 relayVars, limitVars, requestVars, worldVars>>

(* connect_once: the transport.  A failure here is none of the errors that *)
(* run retries.                                                            *)
Connect ==
  /\ pc = "connect"
  /\ pc' \in {"call"} \cup (IF calm THEN {} ELSE {"stopped"})
  /\ UNCHANGED <<attempt, sleep, last_connection_id, streamVars, tx, out,
                 relayVars, limitVars, requestVars, worldVars>>

(* ResourceMonitor::is_healthy: processor and memory use when it is asked. *)
is_healthy == IF calm THEN {TRUE} ELSE BOOLEAN

(* The relay's device_connect: the global limit, then the resource check;  *)
(* a refusal is a status, which run retries.                               *)
DeviceConnect ==
  /\ pc = "call"
  /\ global_window_data' =
       prune_and_check(global_window_data, global_limit, global_window)
  /\ \E healthy \in is_healthy :
       IF HasRoom(global_window_data, global_limit, global_window) /\ healthy
       THEN /\ pc' = "opened"
            /\ relay' = "loop" /\ silence' = 0
            /\ UNCHANGED <<attempt, sleep, last_connection_id>>
       ELSE /\ Retry(FALSE)
            /\ UNCHANGED <<relay, silence>>
  /\ UNCHANGED <<streamVars, tx, out, owed, session, device_windows,
                 registrations, requestVars, worldVars>>

(* The call fails on its way. *)
CallFails ==
  /\ pc = "call" /\ ~calm
  /\ Retry(FALSE)
  /\ UNCHANGED <<streamVars, tx, out, relayVars, limitVars, requestVars,
                 worldVars>>

(* connect_once: a client that has been registered stops if the recovery   *)
(* window is zero; otherwise it registers.                                 *)
Register ==
  /\ pc = "opened"
  /\ IF last_connection_id /\ ~recovery_enabled
     THEN /\ pc' = "stopped"
          /\ relay' = None
          /\ tx' = tx
     ELSE /\ pc' = "register"
          /\ relay' = relay
          /\ tx' = IF relay = "loop" THEN Append(tx, "Register") ELSE tx
  /\ UNCHANGED <<attempt, sleep, last_connection_id, streamVars, out, owed,
                 session, silence, limitVars, requestVars, worldVars>>

-----------------------------------------------------------------------------
(* connect_once: the reader *)

(* The reader waits for a message, not for a permit or for room in tx. *)
ReaderFree == pc \in {"register", "open"} /\ reading = None

ReadMessage ==
  /\ ReaderFree
  /\ out # <<>>
  /\ ~stalled
  /\ out' = Tail(out)
  /\ CASE Head(out) = "RegisterResponse" ->
            pc' = "open" /\ heartbeat' = 0 /\ reading' = reading
       [] Head(out) = "HeartbeatResponse" ->
            UNCHANGED <<pc, heartbeat, reading>>
       [] OTHER ->
            reading' = Head(out) /\ UNCHANGED <<pc, heartbeat>>
  /\ UNCHANGED <<attempt, sleep, last_connection_id, handling, permits, orphans,
                 tx, relayVars, limitVars, requestVars, worldVars>>

(* What a send on tx does: while the relay's handler lives it waits for    *)
(* room; afterwards the message goes nowhere.                              *)
Sendable == relay \in {"loop", "answer"} => Len(tx) < DeviceCapacity

TxWith(message) ==
  IF relay \in {"loop", "answer"} THEN Append(tx, message) ELSE tx

(* The reader waits for a permit and starts a handler. *)
HoldsRequest == reading # None

StartHandler ==
  /\ HoldsRequest
  /\ permits > 0
  /\ permits' = permits - 1
  /\ handling' = handling \cup {reading}
  /\ reading' = None
  /\ UNCHANGED <<clientVars, heartbeat, orphans, tx, out, relayVars, limitVars,
                 requestVars, worldVars>>

(* The handler of r returns and its response is sent, on the stream the    *)
(* request came by; the permit is released after that.                     *)

(* Mutant: the permit is not given back. *)
RespondLeaking(r) ==
  /\ r \in handling
  /\ Sendable
  /\ tx' = TxWith(r)
  /\ handling' = handling \ {r}
  /\ UNCHANGED <<clientVars, heartbeat, reading, permits, orphans, out, relayVars,
                 limitVars, requestVars, worldVars>>

Respond(r) ==
  /\ r \in handling
  /\ Sendable
  /\ tx' = TxWith(r)
  /\ handling' = handling \ {r}
  /\ permits' = permits + 1
  /\ UNCHANGED <<clientVars, heartbeat, reading, orphans, out, relayVars, limitVars,
                 requestVars, worldVars>>

(* Mutant: handlers send on the client's stream, whichever it is. *)
OrphanAnswers(r) ==
  /\ r \in orphans
  /\ Sendable
  /\ tx' = TxWith(r)
  /\ orphans' = orphans \ {r}
  /\ UNCHANGED <<clientVars, heartbeat, reading, handling, permits, out, relayVars,
                 limitVars, requestVars, worldVars>>

(* A handler that outlived its stream returns: its response goes to a      *)
(* channel that nobody reads, and its permit to a semaphore that nobody    *)
(* waits for.                                                              *)
OrphanEnds(r) ==
  /\ r \in orphans
  /\ orphans' = orphans \ {r}
  /\ UNCHANGED <<clientVars, heartbeat, reading, handling, permits, tx, out, relayVars,
                 limitVars, requestVars, worldVars>>

(* The heartbeat task.  It catches up on ticks missed while tx was full. *)

(* Mutant: the reader sends the heartbeats. *)
HeartbeatDueInReader == heartbeat # None /\ heartbeat <= 0 /\ ReaderFree

HeartbeatDue == heartbeat # None /\ heartbeat <= 0

Heartbeat ==
  /\ HeartbeatDue
  /\ Sendable
  /\ tx' = TxWith("Heartbeat")
  /\ heartbeat' = heartbeat + heartbeat_interval
  /\ UNCHANGED <<clientVars, reading, handling, permits, orphans, out, relayVars,
                 limitVars, requestVars, worldVars>>

(* connect_once returns: the heartbeat task is aborted, and the channels   *)
(* and the permits are made afresh for the next stream.  Handlers are not  *)
(* aborted: those still running stay, beside the ones that the next stream *)
(* starts.  The relay's handler, if there still is one, finds its stream   *)
(* ended and removes the session.                                          *)
Reset ==
  /\ heartbeat' = None /\ reading' = None
  /\ handling' = {} /\ permits' = MAX_CONCURRENT_DATA_HANDLERS
  /\ orphans' = orphans \cup handling
  /\ tx' = <<>> /\ out' = <<>>
  /\ relay' = None /\ owed' = None /\ session' = FALSE /\ waiting' = {}
  /\ network' = "up"
  /\ UNCHANGED <<silence, limitVars, sent, recovery_enabled, calm>>

StreamEnds ==
  /\ ReaderFree
  /\ \/ relay = "closed" /\ out = <<>> /\ ~stalled
     \/ relay = "broken"
  /\ Retry(pc = "open")
  /\ Reset

(* A request longer than max_payload_bytes: it is not decoded, as that is  *)
(* max_decoding_message_size too, and the reader gets an error, which ends *)
(* the stream.  (So the reader's own check of the payload's length never   *)
(* finds one to reject.)                                                   *)
ReadOversized ==
  /\ ReaderFree
  /\ out # <<>> /\ Head(out) \in Requests
  /\ ~stalled
  /\ Retry(pc = "open")
  /\ Reset

-----------------------------------------------------------------------------
(* The relay's handler (run_device_connect_stream) *)

Heard == silence' = 0 /\ network' = "up"

Receiving == relay = "loop" /\ tx # <<>> /\ ~stalled

(* The limits are checked in this order; a connection that the resource    *)
(* check refuses has been counted.                                         *)
ReceiveRegister ==
  /\ Receiving /\ Head(tx) = "Register"
  /\ device_windows' =
       prune_and_check(device_windows, device_limit, device_window)
  /\ \E healthy \in is_healthy :
       IF HasRoom(device_windows, device_limit, device_window) /\ healthy
       THEN /\ relay' = "answer" /\ owed' = "RegisterResponse"
            /\ session' = TRUE
            /\ registrations' = Append(registrations, 0)
            /\ tx' = Tail(tx)
       ELSE /\ relay' = "closed"
            /\ tx' = <<>>
            /\ UNCHANGED <<owed, session, registrations>>
  /\ Heard
  /\ UNCHANGED <<clientVars, streamVars, out, global_window_data, requestVars,
                 recovery_enabled, calm>>

ReceiveHeartbeat ==
  /\ Receiving /\ Head(tx) = "Heartbeat"
  /\ tx' = Tail(tx)
  /\ relay' = "answer" /\ owed' = "HeartbeatResponse"
  /\ Heard
  /\ UNCHANGED <<clientVars, streamVars, out, session, limitVars, requestVars,
                 recovery_enabled, calm>>

ReceiveData ==
  /\ Receiving /\ Head(tx) \in Requests
  /\ tx' = Tail(tx)
  /\ waiting' = waiting \ {Head(tx)}
  /\ Heard
  /\ UNCHANGED <<clientVars, streamVars, out, relay, owed, session, limitVars,
                 sent, recovery_enabled, calm>>

(* While it sends, the handler neither reads nor watches the time. *)
SendOwed ==
  /\ relay = "answer"
  /\ Len(out) < RelayCapacity
  /\ out' = Append(out, owed)
  /\ relay' = "loop" /\ owed' = None
  /\ silence' = 0
  /\ UNCHANGED <<clientVars, streamVars, tx, session, limitVars, requestVars,
                 worldVars>>

TimedOut ==
  relay = "loop" /\ silence >= heartbeat_timeout /\ (tx = <<>> \/ stalled)

HeartbeatTimeout ==
  /\ TimedOut
  /\ relay' = "closed" /\ session' = FALSE /\ waiting' = {}
  /\ tx' = <<>>
  /\ UNCHANGED <<clientVars, streamVars, out, owed, silence, limitVars, sent,
                 worldVars>>

(* A controller's handler forwards the next request: from the moment the   *)
(* session is in the map, which is before the device has its               *)
(* RegisterResponse.                                                       *)
SendRequest ==
  /\ session
  /\ sent # Requests
  /\ Len(out) < RelayCapacity
  /\ LET r == CHOOSE q \in Requests \ sent : TRUE
     IN /\ out' = Append(out, r)
        /\ sent' = sent \cup {r} /\ waiting' = waiting \cup {r}
  /\ UNCHANGED <<clientVars, streamVars, tx, relayVars, limitVars, worldVars>>

-----------------------------------------------------------------------------
(* The network and other devices *)

(* The stream delivers nothing for a while.  Until the relay's handler has *)
(* heard the device again the network is "back", not "up".                 *)
NetworkChanges ==
  /\ ~calm
  /\ stalled \/ relay \in {"loop", "answer", "closed"}
  /\ network' = IF stalled THEN "back" ELSE "stalled"
  /\ UNCHANGED <<recovery_enabled, calm, clientVars, streamVars, tx, out,
                 relayVars, limitVars, requestVars>>

StreamBreaks ==
  /\ ~calm
  /\ relay \in {"loop", "answer", "closed"}
  /\ relay' = "broken" /\ owed' = None /\ session' = FALSE /\ waiting' = {}
  /\ tx' = <<>> /\ out' = <<>>
  /\ UNCHANGED <<clientVars, streamVars, silence, limitVars, sent, worldVars>>

(* Another device's device_connect passes the global limit. *)
OtherConnects ==
  /\ ~calm
  /\ HasRoom(global_window_data, global_limit, global_window)
  /\ global_window_data' =
       prune_and_check(global_window_data, global_limit, global_window)
  /\ UNCHANGED <<clientVars, streamVars, tx, out, relayVars, device_windows,
                 registrations, requestVars, worldVars>>

Calm ==
  /\ ~calm
  /\ calm' = TRUE
  /\ network' = IF stalled THEN "back" ELSE network
  /\ UNCHANGED <<recovery_enabled, clientVars, streamVars, tx, out, relayVars,
                 limitVars, requestVars>>

(* A task of the client or of the relay can run. *)
Busy ==
  \/ pc \in {"connect", "call", "opened"}
  \/ pc = "sleep" /\ sleep = 0
  \/ ReaderFree /\ ~stalled /\ (out # <<>> \/ relay = "closed")
  \/ ReaderFree /\ relay = "broken"
  \/ HoldsRequest /\ permits > 0
  \/ HeartbeatDue /\ Sendable
  \/ Receiving \/ TimedOut
  \/ relay = "answer" /\ Len(out) < RelayCapacity

Older(ages, most) == [i \in DOMAIN ages |-> Min2(ages[i] + 1, most)]

(* The registrations of the last device_window (history). *)
Recent(ages) == SubSeq(ages, Expired(ages, device_window) + 1, Len(ages))

Tick ==
  /\ ~Busy
  /\ sleep' = IF sleep > 0 THEN sleep - 1 ELSE 0
  /\ heartbeat' = CASE heartbeat = None -> None
                    [] heartbeat = -MaxMissed -> heartbeat
                    [] OTHER -> heartbeat - 1
  /\ silence' = IF relay = "loop" THEN silence + 1 ELSE silence
  /\ device_windows' = Older(device_windows, device_window)
  /\ global_window_data' = Older(global_window_data, global_window)
  /\ registrations' = Recent(Older(registrations, device_window))
  /\ UNCHANGED <<pc, attempt, last_connection_id, reading, handling, permits,
                 orphans, tx, out, relay, owed, session, requestVars, worldVars>>

ClientStep ==
  \/ Wake \/ Connect \/ CallFails \/ DeviceConnect \/ Register
  \/ ReadMessage \/ StartHandler \/ StreamEnds \/ ReadOversized

RelayStep ==
  \/ ReceiveRegister \/ ReceiveHeartbeat \/ ReceiveData \/ SendOwed
  \/ HeartbeatTimeout

Next ==
  \/ ClientStep \/ Heartbeat \/ RelayStep \/ SendRequest \/ Tick
  \/ \E r \in Requests : Respond(r) \/ OrphanEnds(r)
  \/ NetworkChanges \/ StreamBreaks \/ OtherConnects \/ Calm

Spec == Init /\ [][Next]_vars

(* Each task of the client and of the relay is scheduled and time passes.  *)
(* The application's data handlers return, and as a channel gives room in  *)
(* the order in which senders wait, heartbeats do not keep them out.       *)
FairSpec ==
  /\ Spec
  /\ WF_vars(ClientStep) /\ WF_vars(Heartbeat) /\ WF_vars(RelayStep)
  /\ WF_vars(Tick)
  /\ \A r \in Requests : SF_vars(Respond(r))

-----------------------------------------------------------------------------
(* The device limit holds over every window of time: however a client is   *)
(* disconnected, refused and retries, ConnectionRateLimiter lets the       *)
(* device register at most device_limit times within any device_window.    *)
RegistrationsLimited == Len(registrations) <= device_limit

(* Where a request of this stream can be. *)
Outstanding(q) == {q[i] : i \in 1..Len(q)} \cap Requests
Distinct(q) == \A i, j \in 1..Len(q) : q[i] \in Requests /\ q[i] = q[j] => i = j
InReader == {reading} \ {None}

Apart(O, R, H, T) ==
  /\ O \cap (R \cup H \cup T) = {}
  /\ R \cap (H \cup T) = {}
  /\ H \cap T = {}

(* While the relay's handler lives, each request it has sent and that is   *)
(* not answered yet is in exactly one place: on its way to the device,     *)
(* with the reader, with a handler, or, as a response, on its way back.    *)
(* None is dropped, none gets two responses, and no handler of an earlier  *)
(* stream that ends late puts a response on this one.                      *)
OneAnswer ==
  relay \in {"loop", "answer"} =>
    /\ waiting = Outstanding(out) \cup InReader \cup handling \cup Outstanding(tx)
    /\ Apart(Outstanding(out), InReader, handling, Outstanding(tx))
    /\ Distinct(out) /\ Distinct(tx)

(* A registered device is heard of in time: whatever its handlers and its  *)
(* reader wait for, run_device_connect_stream times it out only when the   *)
(* network stalls.                                                         *)
HeardInTime == TimedOut /\ pc = "open" => network # "up"

(* The two ends wait for each other: the relay's handler for room in out,  *)
(* so that it does not read tx, and the device's reader for the permit of  *)
(* a handler that waits for room in tx, so that it does not read out.      *)
Standstill ==
  /\ relay = "answer" /\ Len(out) = RelayCapacity
  /\ Len(tx) = DeviceCapacity
  /\ HoldsRequest /\ permits = 0 /\ handling # {}

(* Once faults cease, a client that has not stopped registers and stays    *)
(* registered, unless it comes to a standstill: refusals, by a limit or by *)
(* load, do not delay the next admission, back-off is bounded and          *)
(* heartbeats keep the stream.                                             *)
Recovers == <>calm => <>[](pc \in {"open", "stopped"} \/ Standstill)

(* Once faults cease, the requests put on the device's stream are answered *)
(* unless the stream ends, and a standstill is the one thing that can      *)
(* prevent it: the reader gets its permit, and no answer is lost between a *)
(* handler and the relay.                                                  *)
RequestsAnswered == calm /\ waiting # {} ~> waiting = {} \/ Standstill

(* Stated by documentation, and not so in the code: *)

(* The client runs for ever ("reconnect and session recovery").            *)
KeepsRunning == pc # "stopped"
=============================================================================
