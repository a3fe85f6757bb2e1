--------------------------- MODULE MqttPublisher ---------------------------
(***************************************************************************)
(* The MQTT publisher: gRPC handlers hand device events to a bounded       *)
(* channel (MqttPublisher), and one worker task (spawn_mqtt_publisher)     *)
(* runs sessions with the broker (run_mqtt_session) that take events off   *)
(* the channel, keep them while the broker is away, and publish them.      *)
(*                                                                         *)
(* Publishing puts a packet into the bounded request channel of the MQTT   *)
(* client (rumqttc, external), and waits while that is full; only          *)
(* eventloop.poll, which the same task calls between two publishes, takes  *)
(* packets out of it.  An event is named by its number in the order in     *)
(* which callers hand events over.                                         *)
(***************************************************************************)
EXTENDS Naturals, Sequences

CONSTANTS
  MQTT_PUBLISH_QUEUE_CAPACITY,  \* of the channel, and of pending_requests
  ClientCapacity,               \* of the client's request channel
  MaxOnline,                    \* bound: sessions in an online snapshot
  MaxEvents,                    \* bound: events handed over in a behaviour
  MaxTicks,                     \* bound: telemetry ticks in a session
  MaxSessions                   \* bound: sessions with the broker

ASSUME MqttAssumption ==
  /\ {MQTT_PUBLISH_QUEUE_CAPACITY, ClientCapacity, MaxSessions} \subseteq Nat \ {0}
  /\ {MaxOnline, MaxEvents, MaxTicks} \subseteq Nat

VARIABLES
  events, uncounted,   \* events so far; callers that have yet to count theirs
  queue, closed,       \* the channel; have all its senders gone?
  queue_pending, dropped_total, connected,   \* MqttRuntimeState
  pc, has_connected_once, reconnect_count,   \* the worker
  sessions, acked,     \* its session: number, and has ConnAck arrived?
  pending_requests, current, snapshot, ticks, \* and locals of the session
  client,              \* packets in the client's request channel
  published            \* events handed to the client, in order

callerVars == <<events, uncounted, closed>>
countVars == <<queue_pending, dropped_total>>
connectVars == <<connected, has_connected_once, reconnect_count, sessions, acked>>
packetVars == <<snapshot, ticks, client, published>>
sessionVars == <<pending_requests, current, packetVars>>
vars == <<callerVars, queue, countVars, pc, connectVars, sessionVars>>

Events == 1..MaxEvents
None == 0

(* Every variable has its type; neither queue outgrows its capacity. *)
TypeOK ==
  /\ events \in 0..MaxEvents
  /\ uncounted \in 0..MaxEvents
  /\ closed \in BOOLEAN
  /\ queue \in Seq(Events) /\ Len(queue) <= MQTT_PUBLISH_QUEUE_CAPACITY
  /\ queue_pending \in 0..MaxEvents
  /\ dropped_total \in 0..MaxEvents
  /\ pc \in {"start", "loop", "snapshot", "publish", "telemetry", "backoff", "stopped"}
  /\ connected \in BOOLEAN /\ has_connected_once \in BOOLEAN /\ acked \in BOOLEAN
  /\ reconnect_count \in 0..MaxSessions
  /\ sessions \in 0..MaxSessions
  /\ pending_requests \in Seq(Events)
  /\ Len(pending_requests) <= MQTT_PUBLISH_QUEUE_CAPACITY
  /\ current \in Events \cup {None}
  /\ snapshot \in 0..MaxOnline
  /\ ticks \in 0..MaxTicks
  /\ client \in 0..ClientCapacity
  /\ published \in Seq(Events)

Init ==
  /\ events = 0 /\ uncounted = 0 /\ closed = FALSE
  /\ queue = <<>>
  /\ queue_pending = 0 /\ dropped_total = 0
  /\ pc = "start"
  /\ connected = FALSE /\ has_connected_once = FALSE /\ reconnect_count = 0
  /\ sessions = 0 /\ acked = FALSE
  /\ pending_requests = <<>> /\ current = None /\ snapshot = 0
  /\ ticks = 0 /\ client = 0 /\ published = <<>>

Decremented(n, k) == IF n > k THEN n - k ELSE 0   \* saturating_sub

-----------------------------------------------------------------------------
(* publish_device_online, publish_device_offline: try_send, and after it   *)
(* the counter.                                                            *)
TrySend ==
  /\ ~closed
  /\ events < MaxEvents
  /\ events' = events + 1
  /\ \/ /\ Len(queue) < MQTT_PUBLISH_QUEUE_CAPACITY
        /\ queue' = Append(queue, events + 1)
        /\ uncounted' = uncounted + 1
        /\ UNCHANGED dropped_total
     \/ /\ Len(queue) >= MQTT_PUBLISH_QUEUE_CAPACITY
        /\ dropped_total' = dropped_total + 1
        /\ UNCHANGED <<queue, uncounted>>
  /\ UNCHANGED <<closed, queue_pending, pc, connectVars, sessionVars>>

increment_queue_pending ==
  /\ uncounted > 0
  /\ uncounted' = uncounted - 1
  /\ queue_pending' = queue_pending + 1
  /\ UNCHANGED <<events, closed, queue, dropped_total, pc, connectVars, sessionVars>>

(* The relay shuts down: the last handle of the channel is dropped. *)
Close ==
  /\ ~closed
  /\ uncounted = 0
  /\ closed' = TRUE
  /\ UNCHANGED <<events, uncounted, queue, countVars, pc, connectVars, sessionVars>>

-----------------------------------------------------------------------------
(* spawn_mqtt_publisher's loop. *)
StartSession ==
  /\ pc = "start"
  /\ ~closed
  /\ sessions < MaxSessions
  /\ sessions' = sessions + 1
  /\ acked' = FALSE
  /\ pending_requests' = <<>> /\ current' = None
  /\ snapshot' = 0 /\ ticks' = 0 /\ client' = 0
  /\ pc' = "loop"
  /\ UNCHANGED <<callerVars, queue, countVars, connected, has_connected_once,
                 reconnect_count, published>>

(* The worker returns; the channel goes with whatever it still holds. *)
Stop ==
  /\ pc = "start"
  /\ closed
  /\ connected' = FALSE
  /\ queue' = <<>>
  /\ pc' = "stopped"
  /\ UNCHANGED <<callerVars, countVars, has_connected_once, reconnect_count,
                 sessions, acked, sessionVars>>

(* Mutant: the failed session leaves the connected flag set. *)
FailKeepsFlag ==
  /\ sessions < MaxSessions
  /\ pending_requests' = <<>> /\ current' = None
  /\ pc' = "backoff"
  /\ UNCHANGED <<callerVars, queue, dropped_total, connectVars, packetVars>>

(* The session returns Err: its pending requests go with it, and the loop  *)
(* waits before the next one.  (Bound: the last session does not fail.)    *)
Fail ==
  /\ sessions < MaxSessions
  /\ connected' = FALSE
  /\ pending_requests' = <<>> /\ current' = None
  /\ pc' = "backoff"
  /\ UNCHANGED <<callerVars, queue, dropped_total, has_connected_once,
                 reconnect_count, sessions, acked, packetVars>>

BackoffOver ==
  /\ pc = "backoff"
  /\ pc' = "start"
  /\ UNCHANGED <<callerVars, queue, countVars, connectVars, sessionVars>>

-----------------------------------------------------------------------------
(* run_mqtt_session.  Pending requests are published before anything else  *)
(* once connected; otherwise the loop selects among the branches below.    *)
Draining == connected /\ pending_requests # <<>>
Selecting == pc = "loop" /\ ~Draining

(* Mutant: the newest pending request goes first. *)
DrainPendingNewest ==
  /\ pc = "loop"
  /\ Draining
  /\ current' = pending_requests[Len(pending_requests)]
  /\ pending_requests' = SubSeq(pending_requests, 1, Len(pending_requests) - 1)
  /\ pc' = "publish"
  /\ UNCHANGED <<callerVars, queue, countVars, connectVars, packetVars>>

DrainPending ==
  /\ pc = "loop"
  /\ Draining
  /\ current' = Head(pending_requests)
  /\ pending_requests' = Tail(pending_requests)
  /\ pc' = "publish"
  /\ UNCHANGED <<callerVars, queue, countVars, connectVars, packetVars>>

(* Mutant: the flag is set along with has_connected_once only. *)
ConnAckFirstOnly ==
  /\ Selecting
  /\ ~acked
  /\ acked' = TRUE
  /\ has_connected_once' = TRUE
  /\ connected' = ~has_connected_once
  /\ snapshot' = 0
  /\ pc' = "snapshot"
  /\ UNCHANGED <<callerVars, queue, countVars, reconnect_count, sessions,
                 pending_requests, current, ticks, client, published>>

(* ConnAck: the broker is told which devices are online. *)
ConnAck ==
  /\ Selecting
  /\ ~acked
  /\ acked' = TRUE
  /\ connected' = TRUE
  /\ has_connected_once' = TRUE
  /\ reconnect_count' = IF has_connected_once THEN reconnect_count + 1
                                              ELSE reconnect_count
  /\ snapshot' \in 0..MaxOnline
  /\ pc' = "snapshot"
  /\ UNCHANGED <<callerVars, queue, countVars, sessions, pending_requests,
                 current, ticks, client, published>>

(* publish_online_session_snapshot. *)
PublishSnapshot ==
  /\ pc = "snapshot"
  /\ \/ /\ snapshot > 0
        /\ client < ClientCapacity
        /\ client' = client + 1
        /\ snapshot' = snapshot - 1
        /\ UNCHANGED pc
     \/ /\ snapshot = 0
        /\ pc' = "loop"
        /\ UNCHANGED <<client, snapshot>>
  /\ UNCHANGED <<callerVars, queue, countVars, connectVars, pending_requests,
                 current, ticks, published>>

SnapshotFailed ==
  /\ pc = "snapshot"
  /\ snapshot > 0
  /\ Fail
  /\ UNCHANGED queue_pending

(* The other outcomes of eventloop.poll: a packet is sent, or an error. *)
PollSend ==
  /\ Selecting
  /\ acked
  /\ client > 0
  /\ client' = client - 1
  /\ UNCHANGED <<callerVars, queue, countVars, pc, connectVars, pending_requests,
                 current, snapshot, ticks, published>>

PollError ==
  /\ Selecting
  /\ Fail
  /\ UNCHANGED queue_pending

(* rx.recv: publish at once when connected, else keep the request, and for *)
(* room drop the oldest one kept.                                          *)
RecvPublish ==
  /\ Selecting
  /\ queue # <<>>
  /\ connected
  /\ current' = Head(queue)
  /\ queue' = Tail(queue)
  /\ pc' = "publish"
  /\ UNCHANGED <<callerVars, countVars, connectVars, pending_requests, packetVars>>

(* Mutant: the request is no longer counted once it is off the channel. *)
RecvKeepUncounted ==
  /\ Selecting
  /\ queue # <<>>
  /\ ~connected
  /\ queue' = Tail(queue)
  /\ Len(pending_requests) < MQTT_PUBLISH_QUEUE_CAPACITY
  /\ pending_requests' = Append(pending_requests, Head(queue))
  /\ queue_pending' = Decremented(queue_pending, 1)
  /\ UNCHANGED <<callerVars, dropped_total, pc, connectVars, current, packetVars>>

RecvKeep ==
  /\ Selecting
  /\ queue # <<>>
  /\ ~connected
  /\ queue' = Tail(queue)
  /\ \/ /\ Len(pending_requests) < MQTT_PUBLISH_QUEUE_CAPACITY
        /\ pending_requests' = Append(pending_requests, Head(queue))
        /\ UNCHANGED countVars
     \/ /\ Len(pending_requests) >= MQTT_PUBLISH_QUEUE_CAPACITY
        /\ pending_requests' = Append(Tail(pending_requests), Head(queue))
        /\ dropped_total' = dropped_total + 1
        /\ queue_pending' = Decremented(queue_pending, 1)
  /\ UNCHANGED <<callerVars, pc, connectVars, current, packetVars>>

RecvClosed ==
  /\ Selecting
  /\ closed /\ queue = <<>>
  /\ dropped_total' = dropped_total + Len(pending_requests)
  /\ queue_pending' = Decremented(queue_pending, Len(pending_requests))
  /\ pending_requests' = <<>>
  /\ connected' = FALSE
  /\ pc' = "start"
  /\ UNCHANGED <<callerVars, queue, has_connected_once, reconnect_count, sessions,
                 acked, current, packetVars>>

(* publish_device_event, then the counter; only other counts happen        *)
(* between the two.                                                        *)
Published ==
  /\ pc = "publish"
  /\ client < ClientCapacity
  /\ client' = client + 1
  /\ published' = Append(published, current)
  /\ current' = None
  /\ queue_pending' = Decremented(queue_pending, 1)
  /\ pc' = "loop"
  /\ UNCHANGED <<callerVars, queue, dropped_total, connectVars, pending_requests,
                 snapshot, ticks>>

PublishFailed ==
  /\ pc = "publish"
  /\ Fail
  /\ queue_pending' = Decremented(queue_pending, 1)

(* A telemetry tick, and its publish. *)
Tick ==
  /\ Selecting
  /\ connected
  /\ ticks < MaxTicks
  /\ ticks' = ticks + 1
  /\ pc' = "telemetry"
  /\ UNCHANGED <<callerVars, queue, countVars, connectVars, pending_requests,
                 current, snapshot, client, published>>

Telemetry ==
  /\ pc = "telemetry"
  /\ client < ClientCapacity
  /\ client' = client + 1
  /\ pc' = "loop"
  /\ UNCHANGED <<callerVars, queue, countVars, connectVars, pending_requests,
                 current, snapshot, ticks, published>>

TelemetryFailed ==
  /\ pc = "telemetry"
  /\ Fail
  /\ UNCHANGED queue_pending

-----------------------------------------------------------------------------
Loop == StartSession \/ Stop \/ BackoffOver
Publishing == DrainPending \/ Published \/ PublishSnapshot \/ Telemetry
Receive == RecvPublish \/ RecvKeep \/ RecvClosed
Failure == PollError \/ PublishFailed \/ SnapshotFailed \/ TelemetryFailed

Next ==
  \/ TrySend \/ increment_queue_pending \/ Close
  \/ Loop \/ Publishing \/ ConnAck \/ PollSend \/ Receive
  \/ Tick \/ Failure

Spec == Init /\ [][Next]_vars

(* The runtime runs the worker; select! picks a ready branch at random, so *)
(* none of them is passed over for ever; the broker answers in the end.    *)
Fairness ==
  /\ WF_vars(Loop) /\ WF_vars(Publishing)
  /\ SF_vars(ConnAck) /\ SF_vars(PollSend) /\ SF_vars(Receive)

FairSpec == Spec /\ Fairness

-----------------------------------------------------------------------------
(* Properties. *)

(* Events are published in the order in which the handlers handed them     *)
(* over, none twice, whatever was kept, dropped or lost across reconnects. *)
(* (The online messages of a snapshot are no events: a snapshot may tell   *)
(* of a device whose earlier events are published after it.)               *)
InOrder ==
  \A i, j \in DOMAIN published : i < j => published[i] < published[j]

(* A session publishes only after its own ConnAck, although the connected  *)
(* flag it looks at outlives sessions.                                     *)
PublishesWhenAcked == pc \in {"publish", "snapshot", "telemetry"} => acked

(* The events that wait, and whether the worker has a given one. *)
Waiting == Len(queue) + Len(pending_requests) + (IF current = None THEN 0 ELSE 1)
InWorker(e) ==
  \/ e = current
  \/ \E i \in DOMAIN queue : queue[i] = e
  \/ \E i \in DOMAIN pending_requests : pending_requests[i] = e

(* The queue depth that telemetry reports never falls short of the events  *)
(* that wait in the channel or in pending_requests, once their callers     *)
(* have counted them.                                                      *)
DepthCovers == queue_pending + uncounted >= Waiting

(* The worker waits for room in the client's channel, which is full: only  *)
(* eventloop.poll makes room, and it is the worker that would call it.     *)
Stuck ==
  /\ client = ClientCapacity
  /\ \/ pc \in {"publish", "telemetry"}
     \/ pc = "snapshot" /\ snapshot > 0

(* Every event that got into the channel is eventually published, dropped  *)
(* or lost with a failed session, or the worker gets stuck, in a snapshot  *)
(* or among the events it kept, with more to publish between two polls     *)
(* than the client's channel holds.  Nothing else holds it up while the    *)
(* broker comes back (spawn_mqtt_publisher, run_mqtt_session).             *)
EventsHandled == \A e \in Events : InWorker(e) ~> ~InWorker(e) \/ Stuck
=============================================================================
