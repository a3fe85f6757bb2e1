# gRPC-Relay: a TLA+ development

gRPC-Relay lets controllers call devices that sit behind NAT. A device opens a
long-lived stream to the relay (`DeviceConnect`); a controller opens its own
(`ConnectToDevice`), and the relay forwards messages from the second to the
first and responses back. This directory models the relay's concurrent core,
its limits and alerts, and the SDKs at both ends, checks the models with TLC on
small instances, shows that the request path implements an abstract request
service, and proves that refinement and the safety properties of the request
path, of device sessions, of the stream router, of admission, of the limiters
of requests, bytes and connections, of the MQTT publisher, of alerting, of the
audit log and of both SDKs with TLAPS, for any number of requests, calls,
devices, streams, events, rules and crashes.

Paths in this file are relative to the repository root (`src/` in
`PROJECT.json`); `relay/` stands for `crates/relay/src/`.

## 1. The system

The relay is one tokio process. Its tasks share concurrent maps (`DashMap`),
atomics and channels, and take no lock across operations: every operation on a
map is atomic, and anything may happen between two of them.

| Part | State | Operations that change it | What makes it hard |
|---|---|---|---|
| Request forwarding, `relay/grpc_service.rs` | locals of one handler per controller stream | cache lookup, in-flight lookup, session lookup, bandwidth check, send, wait, cache insertion, reply | seven steps between which everything else runs; a wait without a timeout of its own |
| In-flight table, `relay/state.rs` | (device, sequence number) → `Arc<InFlight>` with waiters | `ensure_inflight_waiter`, `take_inflight`, `take_inflight_for_device`, `complete` | responses, timeouts, teardowns and duplicates all race for an entry that is known only by its key |
| Idempotency cache, `relay/idempotency.rs` | (device, sequence number) → response | get, insert, expiry | filled after the entry is gone |
| Device streams, `relay/grpc_service.rs` | the stream's device and connection id | register, heartbeat, data response, the ways to end, teardown | a reconnect overlaps with the old stream's teardown |
| Session state, `relay/state.rs`, `session.rs` | device → session, connection id → device, last seen, counters | insert, remove, touch | three maps updated one after another |
| Stream router, `relay/stream.rs` | mappings and two indexes, a counter per mapping | create, remove, remove all of a device, cleanup, begin/finish request | limits enforced on indexes that teardown and cleanup change concurrently |
| Admission, `relay/validator.rs`, `auth.rs`, `rbac.rs` | revoked tokens, count of controllers, a stream's binding | validate, authenticate, authorise, limit, bind; list; revoke | checks are made once per stream, messages go on |
| Rate limiter, `relay/rate_limiter.rs` | token buckets | `allow`, cleanup | three buckets charged in steps; cleanup races with use |
| Connection limiter, resource monitor, same file and `relay/resource_monitor.rs` | windows of connection times | `allow_global`, `allow_device`, `is_healthy` | asked one after the other, each counting before the next may refuse |
| Bandwidth tracker, same file | a count and a start per key | `record_and_check` | three keys in steps; windows rotate only when used, by the wall clock |
| MQTT publisher, `relay/mqtt.rs` | channel, kept events, counters, session with the broker | hand over, take, keep, drop, publish, reconnect | one task is both producer and consumer of the client's channel |
| Audit log, `relay/audit.rs` | channel, active file, backups | send, write, rotate, clean up | a crash or an error within a rotation |
| Controller SDK, `crates/controller-sdk/src` | pending requests by sequence number | `send_request`, complete, time out | retries reuse a sequence number that may be in use |
| Device SDK, `crates/device-sdk/src` | last connection id, attempt; heartbeat task, running handlers, permits | connect, register, read, handle, back off | reader, handlers and heartbeats share one bounded channel, against a relay that waits in the same way |
| Alerting, `relay/alerting.rs` | per rule name: since when, last sent, last severity | evaluate | three memories with different lifetimes |
| Metrics, health endpoint, logging, configuration | - | - | nothing in the relay reads them back |

How they interact: a controller's message passes **Admission** (which asks the
**rate limiter** and the **router**), then the **request path** (cache,
in-flight table, session, device stream). A device's stream registers a
**session**, announces it over **MQTT**, delivers responses into the in-flight
table, and on its end sweeps that table, unmaps the device's streams in the
router and removes the session. Every part writes to the **audit log**. The
**controller SDK** sits at the other end of `ConnectToDevice`, the **device SDK**
at the other end of `DeviceConnect`, which the **connection limiter** and the
**resource monitor** guard. **Alerting** samples the relay's counters.

What should be true of each part, and hard to see from a test:

- requests: nobody waits for ever, no answer reaches the wrong request,
  duplicates are not executed twice, every message is answered;
- router: limits hold at every moment, nothing leaks, whoever loses the stream
  is told;
- sessions: no session without a stream, no stream without a session, presence
  events agree with sessions, resumption never crosses devices;
- admission: nothing is served that was not authorised, revocation takes effect,
  counters are right, listings agree with authorisation;
- limiters: no key gets more than its rate in the long run, and nobody is
  refused for what is long past;
- MQTT: events in order, never before the broker acknowledged the session, the
  reported depth is right, nothing but the worker itself can stop it;
- audit: no gaps, no lost backups, bounded files, across crashes;
- controller SDK: every call returns, with its own response or an error that is
  true, and leaves nothing behind;
- device SDK: it registers again after any outage it survives, a busy device is
  not taken for a dead one, requests are answered, once and on their own stream;
- alerting: no flood, no repetition, and no alert lost to suppression.

## 2. Modules

One module per part; the comment at the head of each says what a step is. Names
of operations and state follow the source, and `PROJECT.json` ("map") gives the
lines of each definition.

| Module | Models | State | Actions |
|---|---|---|---|
| `RequestRelay` | the request path, the in-flight table, the cache, timeout tasks, device streams and their teardown | per message its handler (`pc`, `key`, `dest`, `rx`, `answer`); `inflight_by_sequence`, `waiters`, `timer`; `cache`; per stream its handler and channels | `Receive` to `Reply` are the handler's steps in order, with `SessionMissing`, `BandwidthExceeded`, `ForwardFailed`, `Abandon` its error paths; `Timeout`; `Register`, `DataResponse`, `StreamEnd`; `SweepInflight`, `CompleteTaken`, `CheckSession`, `RemoveSession` the teardown; `Execute`, `Disconnect` the environment |
| `RequestService` | what the relay promises of a message, without saying how; `RequestRelay` implements it | per message its status, key and answer; the messages sent | `Accept`, `Send`, `Refuse`, `Answer`, `GiveUp` |
| `StreamRouter` | the three maps of the router and the tasks that use them | `mappings`, `device_to_streams`, `controller_to_streams`, `active_requests`; locals of teardowns and of the cleanup task | `IndexByDevice`, `IndexByController`, `InsertMapping` are `create_mapping`; `RemoveFrom`, `UntrackDevice`, `UntrackController` are `remove_mapping`; `TakeDevice`, `Unmap`, `TellIdle`; `CollectStale`, `RemoveStale`, `TellStale` |
| `DeviceSessions` | registration and removal of sessions, map operation by map operation | the maps of `RelayState`; the last presence event of each device; locals of the handlers | `Register`, `InsertSession`, `RemovePrevious`, `InsertConnection`, `PublishOnline`; `Heartbeat`, `TouchDevice`; `StreamEnd`, `CheckSession`, `PublishOffline`, `RemoveSession`, `ForgetConnection`, `ForgetLastSeen` |
| `Admission` | what precedes forwarding, and `ListOnlineDevices`, `RevokeToken` | revoked tokens, connection count, per task its message, binding and last error | `ReceiveInvalid`, `ReceiveFirst`, `ReceiveNext`, `Allow`, `CreateMapping`, `Serve`, `EndStream`; `StartListing`, `List`; `RevokeToken` |
| `RateLimits` | `RateLimiter` | buckets in fractions of a token, a clock, callers | `Count` and `CleanUp` are `maybe_cleanup`; `CheckGlobal`, `CheckDevice`, `CheckController` |
| `Bandwidth` | `BandwidthTracker`; extends `RateLimits`, with which it shares only the clock's grain | per key its window; per handler the key it is at; what passed and what was offered in the last ticks, and how the clock was set (history) | `Receive`, `record_key`; `BandwidthTick`, `ClockSetBack`, `ClockSetForward` the clock |
| `DeviceClient` | the device SDK's client and the relay's end of its stream; `ConnectionRateLimiter` and the resource check | locals of `run`; heartbeat task, reader, handlers, permits, handlers left over from earlier streams (`orphans`); both channels; the relay's handler; the two windows | `Connect`, `DeviceConnect`, `Register`, `Wake`, `StreamEnds` are `run` and `connect_once`; `ReadMessage`, `ReadOversized`, `StartHandler`, `Respond`, `OrphanEnds`, `Heartbeat` the tasks of a stream; `ReceiveRegister`, `ReceiveHeartbeat`, `ReceiveData`, `SendOwed`, `HeartbeatTimeout` the relay; the network, other devices and load the environment |
| `Alerting` | the alerting task; extends `MqttPublisher`, whose connection to the broker is one of the metrics | the three maps of `spawn`, with instants as ages; the sample and the rule the task is at | `Sample` and `EvaluateRule` are one pass over the rules, between which time and metrics go on; `AlertingTick`, `MetricsChange` |
| `MqttPublisher` | handles, channel and worker | channel, `pending_requests`, counters, the client's channel, what was published | `TrySend`, `increment_queue_pending`; `StartSession`, `ConnAck`, `RecvPublish`, `RecvKeep`, `DrainPending`, `Published`, `Telemetry`, the failures; `PollSend` is the client library |
| `AuditLog` | channel, writer, rotation, retention, crashes | the files as sequences of bytes, an event being a line of some; where the writer's open file is | `Send`, `Write`, `Shift`, `RenameActive`, `OpenActive`, `CleanUp`, `Start`, `Crash` |
| `ControllerSession` | `send_request`, `PendingRequests`, the reader | per call its stage, channel and result; `pending`; the stream | `Insert`, `Send`, `Received`, `Timeout`, `Remove`, `Complete`, `ReaderEnds`; `RelayReads`, `StreamCloses` the environment |
| `ConnectToDevice` | `Admission` and `ControllerSession` (as the instance `C`) under one roof | theirs; the session's `pc` is `call_pc` | theirs |
| `RequestRelayProofs`, `DeviceSessionsProofs`, `StreamRouterProofs`, `ConnectToDeviceProofs`, `RateLimitsProofs`, `MqttPublisherProofs`, `AuditLogProofs`, `DeviceClientProofs` | theorems (section 4) | | |

Three pairs of modules are kept together because their parts meet in the code,
although neither restricts the other: `Bandwidth` extends `RateLimits` (both are
`relay/rate_limiter.rs`, on the same ticks), `Alerting` extends `MqttPublisher`
(whether the broker is connected is one of the metrics that alerting samples),
and `ConnectToDevice` has the two ends of a controller's stream. Each pair has
one proof module, named after the module that is extended or joins them, and one
theorem never uses an invariant of the other part: the theorems of `Bandwidth`
are in `RateLimitsProofs`, those of `Alerting` in `MqttPublisherProofs`, those
of `Admission` and of `ControllerSession` in `ConnectToDeviceProofs`.

`MC<Module>` extends `<Module>` with symmetry sets (where only safety is
checked) or with the values of structured constants. `MCRateLimits` has
`RateLimits` and `Bandwidth` side by side: they share no state, so only one of
them moves in a behaviour, and the properties of each see all it can do. In
`MCAlerting` of the publisher only `connected` moves, freely; in
`MCControllerSession` admission, at the other end, does not move.

### The refinement

`RequestRelay!ImplementsService` is `RequestService!Spec` under the mapping that
keeps `key`, `answer` and the set of forwarded messages, and reduces a handler's
program counter to "unsent", "pending" or "done" (`Status`). The in-flight
table, the cache, streams, timers and teardowns are hidden: their steps must be
stuttering steps. `relay_answers` checks it, `RequestRelayProofs` proves it.
What remains is the contract of a message:

- it is sent to its device at most once, and never after it was answered;
- once sent, it is never dropped: it ends with an answer, which is final;
- the answer is the result of a message of the same key that was sent, or
  DeviceOffline; RateLimited only if it was never sent;
- a message that was not sent may be given up without an answer (`GiveUp`), as
  the code does when there is no session or the send fails (section 6).

### Why the parts can be modelled apart

- Forwarding never reads the router's maps, so `RequestRelay` and `StreamRouter`
  share only the order of a teardown, in which nothing of the one depends on the
  other.
- Where a part asks another for permission (`allow`, bandwidth, connection
  limit, resource monitor, device authentication), its module lets the answer be
  either. Any composition only removes behaviours, so the invariants carry over.
- `DeviceClient` composes the client with the relay's end of its stream, since
  they wait for each other. A relay handler that outlives its stream, and which
  connection id a registration offers, are left to `DeviceSessions`.
- `RequestRelay` reduces a session to the stream it belongs to, inserted and
  removed in one step each; `DeviceSessions` has the steps in between.
- `take_inflight` and the `complete` that follows it are one step in the
  handlers (an `Arc` out of the table can be reached by no one else); in a
  teardown, which takes all entries before it completes the first, they are two.
- The roll-back in `IndexByController` is part of the step that finds the limit
  reached: the shard of the controller's entry is locked throughout.
- The check in a teardown (`CheckSession`) reads the session map twice in the
  code; a connection id that was replaced never comes back, so one read does.

## 3. Runs

| Run | Instance | Checks | States |
|---|---|---|---|
| `relay` | a message and its duplicate, 1 device, 2 streams | `NoLostWaiter`, `EntryHasTimer` | 587 k |
| `relay_answers` | 2 messages, 2 sequence numbers, 1 stream | `AnswerMatchesRequest`, `HandlersFinish`, `ImplementsService` | 134 k |
| `router` | 3 streams of 1 controller, 2 devices, 2 teardowns, limits 1 and 2 | `NoLeakedStream`, `IdleStreamTold`, `ControllerCap`, `DeviceEntryCap` | 721 k |
| `sessions` | 3 streams, 2 devices, 3 registrations | `SessionConnectionKnown`, `NoGhostSession`, `OfflineIsFinal` | 592 k |
| `admission` | 2 tasks, an operator and an admin, 14 messages | `ServedIsAuthorised`, `RevokedIsRefused`, `ConnectionsCounted`, `ListedIsReachable` | 38 k |
| `limits` | requests: 2 callers, 4 seconds in half-second ticks; bytes: 2 messages at a time, 2 keys, counts up to 2, the clock set back and forward | `RateHeld`; `BandwidthHeld`, `RefusalJustified` | 1.6 M |
| `mqtt` | 4 events, queue of 2, 2 sessions, client's channel of 2, up to 3 devices online | `InOrder`, `PublishesWhenAcked`, `DepthCovers`, `EventsHandled` | 59 k |
| `audit` | 10 bytes in lines of 1 or 2, files of 2, 3 backups, 2 crashes | `NoGapInLog`, `BackupsKept`, `FilesBounded` | 817 k |
| `controller_session` | 3 calls, 2 sequence numbers, outbound channel of 1 | `OwnSequence`, `NoLeakedEntry`, `WaiterIsKnown`, `ClosedMeansClosed`, `CallsReturn` | 417 k |
| `device_client` | 1 client, 3 data requests, 1 handler, channels of 1 message, limits of 1 connection | `OneAnswer`, `RegistrationsLimited`, `HeardInTime`, `Recovers`, `RequestsAnswered` | 159 k |
| `alerting` | 3 rules, one with a duration, 2 metrics | `AlertsSpaced`, `OncePerEpisode`, `Sustained`, `PersistentIsAlerted` | 75 k |
| `unlisted_device` | 2 streams of 1 device | `RegisteredIsListed`, violated | |

Each module has its type invariant. Those of `RequestRelay` (as `TypeInv`),
`StreamRouter` and `Alerting` are proved; the others hold on the instances
above, are proved as far as the theorems need them, and are not part of a run.
Deadlock is checked in `device_client` and `alerting`, where time never ends; in
the others every behaviour ends, when all messages, streams, events or ticks
have been used up.

What the passing runs show is stated by the comment at each property. In short:
waiting handlers always belong to an entry that somebody will complete, whatever
races (`relay`), so handlers finish, answers are their own, and the contract of
a message holds (`relay_answers`); the router's limits per controller, its
clean-up and its notices survive teardowns and the cleanup task (`router`);
sessions, connection ids and events stay consistent when reconnects overlap
(`sessions`); checks made once per stream cover all it serves (`admission`);
buckets and windows hold their rates (`limits`); events come in order and are
dealt with, unless the worker blocks itself (`mqtt`); the log has no gaps
(`audit`); SDK calls end well (`controller_session`); a device client comes back
and serves, with one exception that the properties name, and answers each
request once on the stream it came by (`device_client`); alerts are neither lost
nor repeated (`alerting`).

### Bounds, and why they are enough

- `relay`: an error in the table needs an entry, a competitor for the same key
  and a taker. Two messages with one key are forwarder and duplicate, or one
  after the other; two streams of one device give a takeover with the teardown of
  either. The theorems cover all other sizes. `ChannelCapacity` 1 makes a full
  channel happen, and the cache may lose any entry at any time.
- `relay_answers`: with two sequence numbers the messages may be duplicates or
  not, so that a mix-up can happen. Symmetry is off, since it is unsound for
  liveness.
- `router`: the third stream exceeds the controller's limit of two, the second
  one a device's limit of one; two teardowns may run for the same device.
- `sessions`: three streams of one device let a registration overlap with the
  teardown of a predecessor and the registration of a third. `MaySwitchDevice`
  is FALSE: a stream registers as one device (see section 6).
- `admission`: each reason to refuse occurs in a message; two tasks suffice, as
  they share only the revoked tokens and the counter.
- `limits`: rates are 2, 1 and 1.5 tokens per second; `CLEANUP_EVERY` 2 makes
  every other call clean up; `bucket_ttl` is 3 s. A bucket is full after one
  second and a removal that races with use grants another bucketful, so a stale
  bucket must have earned one for each caller and one more: 3 s is what the
  theorem asks for with two callers (section 4). The code has 300.
  Bytes come without end; the limits of 2 and 1 are met by messages of 1, and a
  count of 2 stands for `u64::MAX` so that it is reached: the one key refuses
  what would overflow, the other what exceeds its limit. The clock may be set
  back, by one tick at a time and to one tick before a window's start, and
  forward once in any second. A controller's key works like a device's and is
  left out of the instance.
- `mqtt`: a queue of two fills up and drops; the first session may fail at any
  point and the second is reliable. The client's channel holds two packets, where
  the code's holds ten, and up to three devices are online or two events kept,
  where the code has no limit for the first and 256 for the second: so in the
  run, as in the code, more can be published between two polls than the channel
  holds, and `Stuck` is reached in a snapshot, among the kept events and in the
  telemetry after them.
- `audit`: ten bytes fill an active file of two, three backups and one more, also
  with lines of which some overshoot `max_size` and some meet it. Two crashes can
  fall into the same rotation. A line whose write fails is taken as not written
  at all.
- `controller_session`: three calls over two numbers give a retry that overlaps
  with its predecessor, next to a bystander.
- `device_client`: one permit and channels of one message make every wait happen,
  and three requests fill both channels and the reader's hand, before the
  RegisterResponse too. Limits of one connection refuse the first reconnect.
  `MaxAttempts` 1 suffices as the back-off has reached `max_seconds` then;
  a heartbeat more than `MaxMissed` late is as late as it. A handler of a lost
  stream may run on through any number of later ones.
- `alerting`: the interval of 4 is longer than the duration of 2, so that a
  condition can clear, return and outlast its duration while still suppressed;
  time and metrics move between two rules of a pass too.
  Ages stop at `MaxAge`, above every value they are compared with.

### Fairness

- `RequestRelay!FairSpec`: weak fairness of every handler, timeout task and
  teardown (the runtime polls every task that is ready; `tokio::time::sleep`
  ends), and of a connected device reading its stream. A device that is
  connected and stops reading blocks `outbound_tx.send`, which has no timeout,
  until its connection is lost: the assumption is needed, and is one about the
  device and the transport. Nothing is assumed of responses: the device may
  never answer.
- `MqttPublisher!FairSpec`: weak fairness of the worker's own steps; strong
  fairness of the branches of its `select!` (tokio picks a ready branch at
  random) and of the broker's acknowledgement.
- `ControllerSession!Fairness`: weak fairness of calls and of the relay reading
  the stream; strong fairness of `Send`, as tokio's mutex and channel are fair
  queues. Nothing is assumed of responses or of the reader.
- `DeviceClient!FairSpec`: weak fairness of the client, the heartbeat task, the
  relay's handler and time; strong fairness of a handler's `Respond`, as a
  channel gives room in the order in which senders wait. Time passes only when
  no task can run (`Busy`): a tick is a second, far longer than a ready task
  waits. The liveness properties speak of what follows once faults have ceased
  (`calm`), and of handlers that return.
- `Alerting!AlertingFairness`: weak fairness of `Sample`, `EvaluateRule` and
  `AlertingTick`: the task is scheduled and time passes; metrics may change or
  not.

### Mutants

For every property of a passing run, `PROJECT.json` names a changed definition (a
guard dropped, a counter forgotten, an order swapped), defined just before the
one it replaces and marked as a mutant, under which TLC finds the property
violated.

## 4. Proofs

The theorems hold for all values of the constants that satisfy the assumptions
of their modules: names are distinct, capacities are at least one, streams and
tasks are finitely many where they are counted, and some controller names a
method that is allowed (`ConstantsAssumption`, `SessionsAssumption`,
`RouterAssumption`, `AdmissionAssumption`, `RateAssumption`,
`BandwidthAssumption`, `MqttAssumption`, `AlertingAssumption`,
`AuditAssumption`, `SessionAssumption`, `ClientAssumption`); and a device's
heartbeat interval is shorter than the relay's timeout. The bounds on events,
ticks, ages and crashes are constants too: nothing is assumed of them but that
they are numbers, and of the largest age and count that they are not below what
they are compared with.

| Module (obligations) | Theorem | Statement |
|---|---|---|
| `RequestRelayProofs` (1443) | `TypeCorrect` | `Spec => []TypeInv` |
| | `NoWaiterLost` | `Spec => []NoLostWaiter` |
| | `EntriesHaveTimers` | `Spec => []EntryHasTimer` |
| | `AnswersMatch` | `Spec => []AnswerMatchesRequest` |
| | `RelayImplementsService` | `Spec => ImplementsService` |
| `DeviceSessionsProofs` (971) | `SessionsAreConnected` | `Spec => []SessionConnectionKnown` |
| | `NoSessionOutlives` | `Spec => []NoGhostSession`, if no stream switches devices |
| | `OfflineStays` | `Spec => []OfflineIsFinal`, if no stream switches devices |
| `StreamRouterProofs` (473) | `NothingLeaks` | `Spec => []NoLeakedStream` |
| | `IdleControllersTold` | `Spec => []IdleStreamTold` |
| | `ControllersCapped` | `Spec => []ControllerCap`, if the limit is not 0 |
| | `DeviceEntriesCapped` | `Spec => []DeviceEntryCap`, if the limit is not 0 |
| `ConnectToDeviceProofs` (964), of `Admission` | `OnlyAuthorisedServed` | `Spec => []ServedIsAuthorised` |
| | `RevokedStaysOut` | `Spec => RevokedIsRefused` |
| | `ConnectionsAreCounted` | `Spec => []ConnectionsCounted` |
| | `ListedDevicesReachable` | `Spec => []ListedIsReachable` |
| of `ControllerSession` | `OwnSequenceAnswered` | `C!Spec => []OwnSequence` |
| | `NoEntryLeaked` | `C!Spec => []NoLeakedEntry` |
| | `WaitersAreKnown` | `C!Spec => []WaiterIsKnown` |
| | `ClosedIsClosed` | `C!Spec => []ClosedMeansClosed` |
| `RateLimitsProofs` (1731) | `RateIsHeld` | `Spec => []RateHeld`, if buckets live long enough |
| of `Bandwidth` | `BandwidthIsHeld` | `BandwidthSpec => []BandwidthHeld` |
| | `RefusalsAreJustified` | `BandwidthSpec => []RefusalJustified` |
| `MqttPublisherProofs` (1145) | `PublishesAfterConnAck` | `Spec => []PublishesWhenAcked` |
| | `PublishedInOrder` | `Spec => []InOrder` |
| | `DepthIsCovered` | `Spec => []DepthCovers` |
| of `Alerting` | `AlertsAreSpaced` | `AlertingSpec => []AlertsSpaced` |
| | `AlertsAreSustained` | `AlertingSpec => []Sustained` |
| | `AlertedOncePerEpisode` | `AlertingSpec => []OncePerEpisode`, if rules of one name have one severity |
| `AuditLogProofs` (1967) | `LogHasNoGap` | `Spec => []NoGapInLog` |
| | `FilesStayBounded` | `Spec => []FilesBounded` |
| | `NewestEventsKept` | `Spec => []BackupsKept` |
| `DeviceClientProofs` (1797) | `DevicesHeardInTime` | `Spec => []HeardInTime` |
| | `RequestsHaveOneAnswer` | `Spec => []OneAnswer` |
| | `RegistrationsAreLimited` | `Spec => []RegistrationsLimited` |

- `NoLostWaiter` is not inductive. A step that takes an entry completes its
  waiters, so one must know that all of them have the entry's key, that a
  message which has not reached the table yet waits nowhere, and that entries
  taken by a teardown are still to be completed by it. `WaitersInv` says so, and
  `InflightInv` joins it with `NoLostWaiter` and `EntryHasTimer`. The two
  properties need each other: the key of an entry's creator is the entry's key,
  and its timer is armed as long as the entry is there. `TakeKeepsWaiters` and
  `TakeKeepsInflight` are the lemmas about taking and completing an entry, used
  for responses, timeouts, failed sends and missing sessions alike.
- `AnswerMatchesRequest` follows a response backwards: answer, receiver, cache,
  in-bound channel, out-bound channel. `ResponseInv` says of each of these places
  that it holds the result of a forwarded request with the place's key, and that
  a channel belongs to the device it was opened for. `TakeKeepsMatches`,
  `MovesKeepResponses` and `DidKeepsResponses` carry it through the steps.

- The refinement needs, besides `ResponseInv`, that a handler's position agrees
  with what became of its message (`ServiceInv`): sent only from "wait" on,
  answered only at the end, with a response at hand before it replies. Then five
  steps of the relay are the five steps of `RequestService` (`Receive` is
  `Accept`, `Forward` is `Send`, `BandwidthExceeded` is `Refuse`, `Reply` is
  `Answer`, `Abandon` is `GiveUp`), and all others are stutters (`NextMaps`).
- `SessionConnectionKnown` rests on connection ids being made once (`OwnerInv`)
  and on a replaced or removed one never being a session again (`ReplacedInv`):
  so what `RemovePrevious` and `ForgetConnection` erase, steps after they read
  it, is not a live session's. It holds even if streams switch devices.
- `NoGhostSession` and `OfflineIsFinal` need that the stream which made a
  session still serves it (`ServedInv`): it is registering that very connection
  or in its loop or teardown with it, and finds the session its own when it
  checks. This is where a stream that switched devices would fail (section 6),
  hence the hypothesis `~MaySwitchDevice`.
- `RouterInv` ties the router's three maps to the stage of each stream: an entry
  names only streams of its own device or controller, and only while they are
  being created, mapped or being removed; what a teardown took out of a device's
  entry is not in it again, so that removing it from the controller's entry alone
  is enough. `NoLeakedStream` follows. For `ControllerCap` the entry is bounded by
  the check in `create_mapping` (`ControllerEntryStep`, `OneMore`), and every
  mapping is in its controller's entry. The entry of a device has the first half
  of this argument and not the second, which is why `DeviceCap` fails (section 6).
  A limit of 0 lets one stream in: an absent entry is filled without a check.
- `AdmittedInv`: a message past authorisation is authorised, and so is every
  message that has the binding of a stream's mapping; it is what carries the
  check of the first message over to all later ones. `RevokedIsRefused` looks at
  each step that gives a task a message (`NextUnrevoked`), and
  `ConnectionsCounted` at each that flips `controller_connected`. For
  `ListedIsReachable`, `ListedInv` says that a listing is made with a known
  token, and that what it shows can be reached with a token of its controller,
  whatever else has been revoked or listed since (`VisibleIsReachable`).
- `RateHeld` is an account (`RateInv`): what a key was granted, what its bucket
  holds, and one bucketful for each caller that has listed the bucket as stale
  and not removed it yet, have been earned by the time of the bucket's last use
  (`Earned`). Removing a bucket spends the bucketful set aside; using a stale one
  that several callers are about to remove needs a bucketful for each, which it
  must have earned in `bucket_ttl`. That is the hypothesis `LongLived`, for keys
  with a rate above 0: rate x `bucket_ttl` is at least a bucketful for each caller
  and one more. With 300 seconds and a rate of at least one per second it allows
  for 299 callers at a time; `allow` does not await, so there are never more than
  the runtime has threads. With a shorter life TLC finds the property violated.
- `BandwidthHeld` and `RefusalJustified` are about two counts of the same bytes,
  the one in a window that rotates only when it is used, and the one in any
  second. `BandwidthInv` relates them: what a key let pass since its window
  began is at most the window's count and at most the limit, and what it let
  pass in a second is at most the limit more, since only one earlier window can
  reach into that second, or one more for each time the clock was set forward in
  it (`Passed`); and what the window counted was offered within its age, unless
  the clock was set back since the window began (`Offered`). A window whose age
  a set back clock has reduced lasts longer than a second, and lets no more pass
  for that. One that the clock, set forward, ended early was followed by another
  before its second was over.
- The publisher publishes only after its ConnAck because every way out of a
  session clears the flag (`AckInv`). `OrderInv` lines up what was published, the
  event in hand, those kept, those in the channel and those to come; with it,
  `DepthCovers` compares the counter with the lengths, up to the events whose
  caller has not counted them yet.
- Alerting. The maps of `spawn` forget at different times, and the properties
  are about times that nothing forgets: `AlertingInv` says that `last_sent` is
  the time since the last alert wherever it has an entry (`SentInv`; clearing a
  rule keeps it), that `condition_active_since` is how long every evaluation has
  seen the condition, and that a name which has been alerted and not seen clear
  has its severity in `last_state` (`KnownInv`). The last needs that rules of one
  name have one severity (`OneSeverity`): two that differ overwrite each
  other's entry and are alerted again and again, `min_interval` apart.
- The audit log. `PlaceInv`: the file that the writer holds is the newest one, as
  the names before it are free, also when a rotation was given up or cut short;
  so what is appended comes after all else (`OrderInv`). While a rotation shifts
  backups, the name that the next one gets is free unless a rename has failed,
  and only the last backup is overwritten (`GapInv`). `BackupsKept` and
  `FilesBounded` add the arithmetic: `bytes_written` is the size of the active
  file (`HoldInv`), every file that is rotated has at least `max_size` bytes, and
  a byte that is gone and not expired has `max_backups` such files after it, less
  one for each crash (`AgeInv`). A line is appended only below `max_size`, or
  after a restart, which each crash allows once.
- `SessionInv` of the controller's session: an entry of `PendingRequests` is a
  call with the entry's sequence number that has not been told and has not
  returned (`PendingInv`, both ways round for calls that send or wait), and what
  a call is told comes from a call of its number (`ToldInv`).
- `HeardInTime` compares two clocks that are started by different events at the
  two ends. `SilenceInv`: while the network is up and nothing is on its way to
  the relay, what it has waited and what remains until the next heartbeat are
  together at most the interval. Time passes only when the heartbeat is not due,
  for otherwise it would be sent. The
  device's first heartbeat is due as soon as it reads its RegisterResponse, and
  the relay may have waited before that only while the reader held a data
  request and waited for a permit; for this the response must not get lost
  (`RegisterInv`), and nothing is sent or held without a stream (`ActiveInv`).
- `RegistrationsLimited`: the limiter's window and the history of registrations
  are two sequences of ages. `LimitInv` says that both have the oldest first and
  that the history is covered by the window: counted from the newest, its i-th
  entry is at least as old as the window's. Attempts that the resource check
  refused make the window longer and only help; `prune_and_check` pops from the
  front, so in a sorted window what it pops covers nothing recent
  (`PrunedCovers`), and what leaves the history leaves the rest covered
  (`CoversPruned`). The length of the window, which the check bounds, then bounds
  that of the history. Without the order popping would stop too early.
- `OneAnswer`: a step moves a request from one place to the next, which keeps the
  places apart only if the request is nowhere twice to begin with, hence
  `Distinct` for the channels (`TailOutstanding`, `AppendOutstanding`). A new
  stream must begin with nothing under way: `IdleInv` says that between streams
  the channels are empty and the relay waits for nothing, although handlers of
  the last stream may still run. They have no way to the new channels.

Every invariant and every action property that a passing run checks is proved.
Only model-checked are the liveness properties (`HandlersFinish`,
`EventsHandled`, `CallsReturn`, `Recovers`, `RequestsAnswered`,
`PersistentIsAlerted`), as the TLAPS back ends used here handle neither fairness
nor `ENABLED`; and the type invariants not named above, of which the bounds on
the lengths of channels say more than the theorems use.

## 5. Where the code departs from its documentation: the run

- **`unlisted_device`**. doc/action_plan.md: registered devices are listed. A
  teardown checks that the session is its own (`relay/grpc_service.rs:470`),
  publishes and audits, then removes the device's session by device id (`:491`).
  A stream that registers in between loses its session while its device stays
  connected: it is neither listed nor sent requests until it reconnects.

## 6. Other departures met while modelling

Each is a property of a module, or follows from the code directly; none has a
run of its own.

- `DuplicateNotForwarded`: the lookups in the cache and in the in-flight table
  are separate steps (`relay/grpc_service.rs:764`, `:776`), and the cache is
  filled after the entry was taken (`:883`). A duplicate that misses the cache
  before, and the table after, is forwarded a second time; README.md: "Duplicate
  requests return cached responses to avoid repeated execution".
- `Stuck`, the exception in `EventsHandled`: `client.publish().await` waits for
  room in the client's channel of ten packets (`relay/mqtt.rs:255`), which only
  `eventloop.poll()` in the same task empties. More than that between two polls
  (kept events drained after a reconnect, `:271`, or the snapshot of online
  devices, `:299`) stops the worker for good; `:158`: "Reconnects with
  exponential backoff on connection failure".
- `EveryRequestAnswered`: with no session, the handler completes its own entry
  with DeviceOffline and goes on to the next message without sending it
  (`relay/grpc_service.rs:793`); doc/action_plan.md:970 expects DEVICE_OFFLINE.
- `CacheHoldsProcessed`: a DeviceOffline made by a timeout or a teardown is
  cached (`:883`) and served to retransmissions; doc/requirements.md:1138 has
  unprocessed requests forwarded again.
- `JoinedIsForwarded`: a message refused for bandwidth (`:812`) leaves its entry
  in the table; retransmissions join it until it times out.
- `DeviceCap`: a teardown between the first and the last step of
  `create_mapping` leaves a mapping that its device's entry does not count, so a
  device can have more streams than `max_active_streams`.
- `DeviceEntryCap` with `max_active_streams` = 0: the first stream is let in
  (`relay/stream.rs:131`) and the `debug_assert!` at `:172` fails.
- `CleanupSparesActive`: the cleanup task removes a mapping on which a request
  began since it was found idle (`relay/stream.rs:297`).
- `OnlyCurrentConnections`: two overlapping registrations can leave the older
  connection id in `connection_to_device_id`.
- `ReconnectResumes`: a teardown forgets the connection id with the session, so
  `session_resumed` is true only while the old stream is still there; README.md
  promises a recovery window.
- `NoGhostSession` with `MaySwitchDevice` = TRUE: only messages other than
  Register are compared with the stream's device; a stream that registers again
  as another device leaves its first session behind. doc/protocol_spec.md:53
  forbids this to devices, and the device SDK registers once per stream, hence
  the FALSE in `sessions`.
- A controller rate below 60 per minute caps its bucket below one token: the
  first request passes and all later ones are refused
  (`relay/rate_limiter.rs:63`).
- When the new file of a rotation cannot be opened, the active file's name is
  gone: each later rotation fails at the rename, so the file grows until a
  restart (`relay/audit.rs:270`).
- `KeepsRunning`: `client.rs:41` of the device SDK says that it runs for ever,
  reconnecting and recovering its session. A transport error on a reconnect is
  none of the errors that `run` retries (`:64`) and ends it; so does the first
  reconnect with a recovery window of zero (`:111`). The window is measured from
  the last failed attempt, not from the loss of the connection (`:81`).
- `Standstill`: the device's reader waits for a permit (`client.rs:259`)
  before it reads on, although the comment at `:255` says that handling does not
  block it; the relay's handler waits for room in its own
  channel (`relay/grpc_service.rs:359`, `:401`) before it reads on. When both
  channels are full and no permit is left, neither side moves again. The relay
  does not watch the heartbeat timeout meanwhile (`:136`), so that a device that
  silently goes away with its channel full stays listed.
- `MAX_CONCURRENT_DATA_HANDLERS` bounds the handlers of one stream, not of the
  device: the semaphore is made anew by each `connect_once` (`client.rs:149`),
  and handlers are not aborted with their stream (`:265`), so after a reconnect
  those of the old stream run beside as many new ones.
- A data request longer than the device's `max_payload_bytes` is not refused as
  `client.rs:224` means to: the same number is the client's
  `max_decoding_message_size` (`:97`), so the reader gets an error instead and the
  stream ends, with all that was under way on it (`ReadOversized`).
- A data request can reach a device before its RegisterResponse, as the session
  is in the map before the response is sent (`relay/grpc_service.rs:313`,
  `:359`). The SDK handles it; but a reader that has no permit for it waits
  without a heartbeat task, and the relay may time the device out. `HeardInTime`
  is therefore stated of a device that has read its RegisterResponse.
- `BandwidthHeld` has twice the limit, as two windows can meet in a second, and
  more if the wall clock is set forward, which ends all windows
  (`relay/rate_limiter.rs:237`). A message refused for one key still counts under
  the others, and while the clock is set back no window ends, so that messages
  are refused for what was recorded more than a second ago.
- A request that the device's or the controller's bucket refuses has used up a
  token of the global one, so that refused requests can use up the global budget;
  `RateHeld` bounds what is granted from above and says nothing of this.
- An error code in a response that the controller SDK does not know is reported
  as StreamClosed (`crates/controller-sdk/src/connect.rs:180`), although the
  stream is open: the exception in `ClosedMeansClosed`.
- An audit event that finds the channel full is dropped and counted, and the log
  has no trace of it; `NoGapInLog` is about the events that were accepted.
- Alert rules that share a name share its entries (`relay/alerting.rs:59`), and
  nothing rejects such a configuration. Alerts of the name still are spaced and
  sustained, as the theorems say for any rules; but if the severities differ, a
  condition that holds on is alerted again (`OncePerEpisode`), and if one rule's
  condition does not hold, it clears the other's entries at every pass
  (`PersistentIsAlerted`).
- The health endpoint and the alerts count the streams of a router that nobody
  else uses, hence always zero (`relay/main.rs`); doc/action_plan.md:441 speaks
  of real counts. With `observability.health.enabled: false` the endpoint's
  future ends at once, and with it the relay, which selects on it.

## 7. Plan

Done: the modules above, their runs, the refinement and its proof, and the
proofs of all invariants that the runs check. Next:

1. **Bounded controller channels**: teardown and the cleanup task wait for room
   in them (`relay/grpc_service.rs:458`, `:101`), so a controller that stops
   reading holds up the removal of a session; the question is what else waits.

## 8. Not modelled

- Metrics, the health endpoint, logging, the text of alerts: written, never read
  back by the relay.
- The samples of the resource monitor: its verdict is either answer at any time
  until faults cease.
- Configuration and start-up (`config.rs`, `main.rs`): done before any task
  runs.
- TLS, JWT signatures and expiry, payload encryption: libraries; a token is
  valid or not, a payload is the request it belongs to.
- Payloads, timestamps, metadata: no decision depends on them. The length of
  backoffs and timeouts, except in `DeviceClient`, the limiters and `Alerting`,
  whose properties are about time: elsewhere a timer may fire at any time after
  it is armed. The jitter of the SDK's back-off: any value within its bounds.
- Locks inside a map operation. `ensure_inflight_waiter` awaits a mutex while it
  holds a shard of the table; the mutex is only ever held for a push or a take.
- `touch_stream`, `IdempotencyCache::remove`: never called by the relay.
- `relay/api.rs`, `relay/transport.rs`: empty types. `relay-proto`: generated.
