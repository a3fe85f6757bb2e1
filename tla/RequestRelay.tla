---------------------------- MODULE RequestRelay ----------------------------
(***************************************************************************)
(* The request path of the relay: the in-flight table of RelayState, the   *)
(* idempotency cache, the in-flight timeout tasks, the part of the         *)
(* ConnectToDevice handlers (run_connect_to_device_stream) that forwards   *)
(* an admitted message and waits for its response, and the DeviceConnect   *)
(* handlers (run_device_connect_stream) with their teardown, all running   *)
(* concurrently.  What a message passes before is module Admission; stream *)
(* mappings are in StreamRouter, and forwarding never reads them.          *)
(*                                                                         *)
(* One step is one operation on a shared map, or the code between two such *)
(* operations; tasks of the multi-threaded runtime interleave between any  *)
(* two steps.  A request names one ControllerMessage; the Arc<InFlight> it *)
(* creates, if it does, and its timeout task carry the same name.          *)
(***************************************************************************)
EXTENDS Naturals, FiniteSets

CONSTANTS
  Requests,        \* admitted ControllerMessages, retransmissions included
  Links,           \* DeviceConnect streams: one handler task, one connection_id
  Devices,         \* device ids
  Seqs,            \* sequence numbers
  ChannelCapacity, \* room for data requests in a device's outbound channel
  CacheMayExpire,  \* may the idempotency cache drop entries (LRU or TTL)?
  None             \* Rust's Option::None

Keys == Devices \X Seqs
Device(k) == k[1]
Seq(k) == k[2]

(* What a handler is answered with through its oneshot channel: the data a *)
(* device produced when it executed a request (named by that request), or  *)
(* DeviceOffline.  The controller may also be told RateLimited.            *)
Responses == Requests \cup {"DeviceOffline"}
Answers == Responses \cup {"RateLimited"}

ASSUME ConstantsAssumption ==
  /\ None \notin Requests \cup Links \cup Devices \cup Keys
  /\ None \notin {"DeviceOffline", "RateLimited"}
  /\ Requests \cap {"DeviceOffline", "RateLimited"} = {}
  /\ ChannelCapacity \in Nat \ {0}
  /\ CacheMayExpire \in BOOLEAN

VARIABLES
  pc, key, dest, rx, answer,       \* per request: locals of its handler
  inflight_by_sequence, waiters,   \* RelayState's in-flight table
  timer,                           \* timeout task of the entry r created
  cache,                           \* IdempotencyCache
  sessions_by_device_id,           \* device -> link of its session
  linkpc, did, registered,         \* per link: locals of its handler
  unswept, taken,                  \* and of its teardown
  up, outbound, inbound,           \* transport of a link and its two channels
  forwarded                        \* requests sent to a device so far

requestVars == <<pc, key, dest, rx, answer>>
inflightVars == <<inflight_by_sequence, waiters, timer>>
linkVars == <<linkpc, did, registered, unswept, taken>>
channelVars == <<up, outbound, inbound, forwarded>>
vars == <<requestVars, inflightVars, cache, sessions_by_device_id, linkVars,
          channelVars>>

PCs == {"unsent", "lookup", "ensure", "session", "send", "wait", "reply",
        "abandon", "done"}
LinkPCs == {"new", "open", "sweep", "check", "remove", "closed"}

(* Every variable has its type. *)
TypeOK ==
  /\ pc \in [Requests -> PCs]
  /\ key \in [Requests -> Keys \cup {None}]
  /\ dest \in [Requests -> Links \cup {None}]
  /\ rx \in [Requests -> Responses \cup {None}]
  /\ answer \in [Requests -> Answers \cup {None}]
  /\ inflight_by_sequence \in [Keys -> Requests \cup {None}]
  /\ waiters \in [Requests -> SUBSET Requests]
  /\ timer \in [Requests -> {"none", "armed", "fired"}]
  /\ cache \in [Keys -> Responses \cup {None}]
  /\ sessions_by_device_id \in [Devices -> Links \cup {None}]
  /\ linkpc \in [Links -> LinkPCs]
  /\ did \in [Links -> Devices \cup {None}]
  /\ registered \in SUBSET Links
  /\ unswept \in [Links -> SUBSET Seqs]
  /\ taken \in [Links -> SUBSET Requests]
  /\ up \in SUBSET Links
  /\ outbound \in [Links -> SUBSET Requests]
  /\ inbound \in [Links -> SUBSET Requests]
  /\ forwarded \in SUBSET Requests

Init ==
  /\ pc = [r \in Requests |-> "unsent"]
  /\ key = [r \in Requests |-> None]
  /\ dest = [r \in Requests |-> None]
  /\ rx = [r \in Requests |-> None]
  /\ answer = [r \in Requests |-> None]
  /\ inflight_by_sequence = [k \in Keys |-> None]
  /\ waiters = [r \in Requests |-> {}]
  /\ timer = [r \in Requests |-> "none"]
  /\ cache = [k \in Keys |-> None]
  /\ sessions_by_device_id = [d \in Devices |-> None]
  /\ linkpc = [l \in Links |-> "new"]
  /\ did = [l \in Links |-> None]
  /\ registered = {}
  /\ unswept = [l \in Links |-> {}]
  /\ taken = [l \in Links |-> {}]
  /\ up = Links
  /\ outbound = [l \in Links |-> {}]
  /\ inbound = [l \in Links |-> {}]
  /\ forwarded = {}

-----------------------------------------------------------------------------
(* Shared helpers. *)

Goto(r, p) == pc' = [pc EXCEPT ![r] = p]

(* The handler is done with r: its receiver and its clone of the session   *)
(* go out of scope.                                                        *)
Finish(r) ==
  /\ Goto(r, "done")
  /\ rx' = [rx EXCEPT ![r] = None]
  /\ dest' = [dest EXCEPT ![r] = None]

(* InFlight::complete of every Arc in S: all waiters get the response,     *)
(* except those whose handler has dropped the receiver.                    *)
Complete(S, response) ==
  /\ rx' = [w \in Requests |-> IF pc[w] # "done" /\ \E a \in S : w \in waiters[a]
                               THEN response ELSE rx[w]]
  /\ waiters' = [a \in Requests |-> IF a \in S THEN {} ELSE waiters[a]]

(* take_inflight followed by complete on what it returned, if anything.    *)
(* Until complete runs the Arc is private to the taker and its waiters are *)
(* blocked, so nobody can tell the two operations from one.                *)
TakeAndComplete(k, response) ==
  /\ inflight_by_sequence' = [inflight_by_sequence EXCEPT ![k] = None]
  /\ Complete({inflight_by_sequence[k]} \ {None}, response)

-----------------------------------------------------------------------------
(* run_connect_to_device_stream, from the message's admission on.  A       *)
(* handler takes one message at a time; messages of different streams are  *)
(* handled concurrently.                                                   *)

Receive(r, k) ==
  /\ pc[r] = "unsent"
  /\ key' = [key EXCEPT ![r] = k]
  /\ Goto(r, "lookup")
  /\ UNCHANGED <<dest, rx, answer, inflightVars, cache, sessions_by_device_id,
                 linkVars, channelVars>>

(* cache.get: on a hit the cached response is the answer. *)
CacheGet(r) ==
  /\ pc[r] = "lookup"
  /\ rx' = [rx EXCEPT ![r] = cache[key[r]]]
  /\ Goto(r, IF cache[key[r]] = None THEN "ensure" ELSE "reply")
  /\ UNCHANGED <<key, dest, answer, inflightVars, cache, sessions_by_device_id,
                 linkVars, channelVars>>

(* RelayState::ensure_inflight_waiter: join the entry of the key, or       *)
(* create one and become its forwarder; a new entry gets a timeout task.   *)
is_new_forwarder(r) == timer[r] # "none"

JoinInflight(r) ==
  /\ pc[r] = "ensure"
  /\ inflight_by_sequence[key[r]] # None
  /\ waiters' = [waiters EXCEPT ![inflight_by_sequence[key[r]]] = @ \cup {r}]
  /\ Goto(r, "wait")
  /\ UNCHANGED <<key, dest, rx, answer, inflight_by_sequence, timer, cache,
                 sessions_by_device_id, linkVars, channelVars>>

CreateInflight(r) ==
  /\ pc[r] = "ensure"
  /\ inflight_by_sequence[key[r]] = None
  /\ inflight_by_sequence' = [inflight_by_sequence EXCEPT ![key[r]] = r]
  /\ waiters' = [waiters EXCEPT ![r] = {r}]
  /\ timer' = [timer EXCEPT ![r] = "armed"]
  /\ Goto(r, "session")
  /\ UNCHANGED <<key, dest, rx, answer, cache, sessions_by_device_id, linkVars,
                 channelVars>>

(* get_device_session.  Without a session the entry is completed with      *)
(* DeviceOffline and the handler gives the message up, unanswered.         *)
SessionMissing(r) ==
  /\ pc[r] = "session"
  /\ sessions_by_device_id[Device(key[r])] = None
  /\ TakeAndComplete(key[r], "DeviceOffline")
  /\ Goto(r, "abandon")
  /\ UNCHANGED <<key, dest, answer, timer, cache, sessions_by_device_id,
                 linkVars, channelVars>>

(* With one, BandwidthTracker::record_and_check is asked before the send,  *)
(* and only then; it may deny, whatever the load.  It lets the message     *)
(* pass:                                                                   *)
SessionFound(r) ==
  /\ pc[r] = "session"
  /\ sessions_by_device_id[Device(key[r])] # None
  /\ dest' = [dest EXCEPT ![r] = sessions_by_device_id[Device(key[r])]]
  /\ Goto(r, "send")
  /\ UNCHANGED <<key, rx, answer, inflightVars, cache, sessions_by_device_id,
                 linkVars, channelVars>>

(* Or it denies: the controller is told, and the in-flight entry stays. *)
BandwidthExceeded(r) ==
  /\ pc[r] = "session"
  /\ sessions_by_device_id[Device(key[r])] # None
  /\ answer' = [answer EXCEPT ![r] = "RateLimited"]
  /\ Goto(r, "abandon")
  /\ UNCHANGED <<key, dest, rx, inflightVars, cache, sessions_by_device_id,
                 linkVars, channelVars>>

(* outbound_tx.send: waits for room, however long that takes, and fails    *)
(* once the receiver is gone.                                              *)
Forward(r) ==
  /\ pc[r] = "send"
  /\ dest[r] \in up
  /\ Cardinality(outbound[dest[r]]) < ChannelCapacity
  /\ outbound' = [outbound EXCEPT ![dest[r]] = @ \cup {r}]
  /\ forwarded' = forwarded \cup {r}
  /\ Goto(r, "wait")
  /\ UNCHANGED <<key, dest, rx, answer, inflightVars, cache,
                 sessions_by_device_id, linkVars, up, inbound>>

ForwardFailed(r) ==
  /\ pc[r] = "send"
  /\ dest[r] \notin up
  /\ TakeAndComplete(key[r], "DeviceOffline")
  /\ Goto(r, "abandon")
  /\ UNCHANGED <<key, dest, answer, timer, cache, sessions_by_device_id,
                 linkVars, channelVars>>

(* The early `continue`s of the forwarder: on to the next message, with no *)
(* answer beyond the one already sent.                                     *)
Abandon(r) ==
  /\ pc[r] = "abandon"
  /\ Finish(r)
  /\ UNCHANGED <<key, answer, inflightVars, cache, sessions_by_device_id,
                 linkVars, channelVars>>

(* rx.await has returned: the forwarder caches the response first. *)
CacheInsert(r) ==
  /\ pc[r] = "wait"
  /\ rx[r] # None
  /\ is_new_forwarder(r)
  /\ cache' = [cache EXCEPT ![key[r]] = rx[r]]
  /\ Goto(r, "reply")
  /\ UNCHANGED <<key, dest, rx, answer, inflightVars, sessions_by_device_id,
                 linkVars, channelVars>>

(* Mutant: only a device's result is passed on. *)
ReplyData(r) ==
  /\ \/ pc[r] = "reply"
     \/ pc[r] = "wait" /\ rx[r] # None /\ ~is_new_forwarder(r)
  /\ answer' = IF rx[r] \in Requests THEN [answer EXCEPT ![r] = rx[r]] ELSE answer
  /\ Finish(r)
  /\ UNCHANGED <<key, inflightVars, cache, sessions_by_device_id, linkVars,
                 channelVars>>

Reply(r) ==
  /\ \/ pc[r] = "reply"
     \/ pc[r] = "wait" /\ rx[r] # None /\ ~is_new_forwarder(r)
  /\ answer' = [answer EXCEPT ![r] = rx[r]]
  /\ Finish(r)
  /\ UNCHANGED <<key, inflightVars, cache, sessions_by_device_id, linkVars,
                 channelVars>>

-----------------------------------------------------------------------------
(* Background. *)

(* Mutant: the timeout task leaves the entry of a connected device alone. *)
TimeoutIfOffline(r) ==
  /\ timer[r] = "armed"
  /\ timer' = [timer EXCEPT ![r] = "fired"]
  /\ IF sessions_by_device_id[Device(key[r])] = None
     THEN TakeAndComplete(key[r], "DeviceOffline")
     ELSE UNCHANGED <<inflight_by_sequence, waiters, rx>>
  /\ UNCHANGED <<pc, key, dest, answer, cache, sessions_by_device_id, linkVars,
                 channelVars>>

(* The timeout task of the entry r created: it takes whatever entry its    *)
(* key has by then.                                                        *)
Timeout(r) ==
  /\ timer[r] = "armed"
  /\ timer' = [timer EXCEPT ![r] = "fired"]
  /\ TakeAndComplete(key[r], "DeviceOffline")
  /\ UNCHANGED <<pc, key, dest, answer, cache, sessions_by_device_id, linkVars,
                 channelVars>>

(* The LRU cache drops an entry, by age or for room. *)
CacheExpire(k) ==
  /\ CacheMayExpire
  /\ cache[k] # None
  /\ cache' = [cache EXCEPT ![k] = None]
  /\ UNCHANGED <<requestVars, inflightVars, sessions_by_device_id, linkVars,
                 channelVars>>

(* External: the device executes a request and responds on the same link,  *)
(* whose handler reads responses until its loop ends.                      *)
Execute(l, r) ==
  /\ l \in up
  /\ r \in outbound[l]
  /\ outbound' = [outbound EXCEPT ![l] = @ \ {r}]
  /\ inbound' = IF linkpc[l] = "open"
                THEN [inbound EXCEPT ![l] = @ \cup {r}] ELSE inbound
  /\ UNCHANGED <<requestVars, inflightVars, cache, sessions_by_device_id,
                 linkVars, up, forwarded>>

(* External: the transport breaks and drops what was not yet sent. *)
Disconnect(l) ==
  /\ l \in up
  /\ did[l] # None
  /\ up' = up \ {l}
  /\ outbound' = [outbound EXCEPT ![l] = {}]
  /\ UNCHANGED <<requestVars, inflightVars, cache, sessions_by_device_id,
                 linkVars, inbound, forwarded>>

-----------------------------------------------------------------------------
(* run_device_connect_stream: the handler of link l.                       *)

(* Register.  A stream may register again; the device SDK and the protocol *)
(* keep it to one device (DeviceSessions drops that restriction).          *)
Register(l, d) ==
  /\ linkpc[l] \in {"new", "open"}
  /\ did[l] \in {None, d}
  /\ did' = [did EXCEPT ![l] = d]
  /\ sessions_by_device_id' = [sessions_by_device_id EXCEPT ![d] = l]
  /\ registered' = registered \cup {l}
  /\ linkpc' = [linkpc EXCEPT ![l] = "open"]
  /\ UNCHANGED <<requestVars, inflightVars, cache, unswept, taken, channelVars>>

(* A device authenticates, and the connection limiter or the resource      *)
(* monitor turns it away: the loop ends with current_device_id set.        *)
RegisterRefused(l, d) ==
  /\ linkpc[l] = "new"
  /\ did' = [did EXCEPT ![l] = d]
  /\ linkpc' = [linkpc EXCEPT ![l] = "sweep"]
  /\ unswept' = [unswept EXCEPT ![l] = Seqs]
  /\ UNCHANGED <<requestVars, inflightVars, cache, sessions_by_device_id,
                 registered, taken, channelVars>>

(* Mutant: a response completes whichever request of the device it meets. *)
DataResponseAnySequence(l, r) ==
  /\ linkpc[l] = "open"
  /\ r \in inbound[l]
  /\ inbound' = [inbound EXCEPT ![l] = @ \ {r}]
  /\ \E q \in Seqs : TakeAndComplete(<<did[l], q>>, r)
  /\ UNCHANGED <<pc, key, dest, answer, timer, cache, sessions_by_device_id,
                 linkVars, up, outbound, forwarded>>

(* Data: the response goes to the entry of its sequence number, if any. *)
DataResponse(l, r) ==
  /\ linkpc[l] = "open"
  /\ r \in inbound[l]
  /\ inbound' = [inbound EXCEPT ![l] = @ \ {r}]
  /\ TakeAndComplete(<<did[l], Seq(key[r])>>, r)
  /\ UNCHANGED <<pc, key, dest, answer, timer, cache, sessions_by_device_id,
                 linkVars, up, outbound, forwarded>>

(* The loop ends: end of stream, error, heartbeat timeout or failed token; *)
(* what the device still sends is not read.                                *)
StreamEnd(l) ==
  /\ linkpc[l] = "open"
  /\ inbound' = [inbound EXCEPT ![l] = {}]
  /\ linkpc' = [linkpc EXCEPT ![l] = "sweep"]
  /\ unswept' = [unswept EXCEPT ![l] = Seqs]
  /\ UNCHANGED <<requestVars, inflightVars, cache, sessions_by_device_id, did,
                 registered, taken, up, outbound, forwarded>>

(* Teardown.  take_inflight_for_device visits the keys of the device in    *)
(* some order and takes the entry of each.                                 *)
SweepInflight(l, q) ==
  /\ linkpc[l] = "sweep"
  /\ q \in unswept[l]
  /\ LET k == <<did[l], q>> IN
       /\ taken' = [taken EXCEPT ![l] = @ \cup ({inflight_by_sequence[k]} \ {None})]
       /\ inflight_by_sequence' = [inflight_by_sequence EXCEPT ![k] = None]
  /\ unswept' = [unswept EXCEPT ![l] = @ \ {q}]
  /\ UNCHANGED <<requestVars, waiters, timer, cache, sessions_by_device_id,
                 linkpc, did, registered, channelVars>>

(* Mutant: the taken entries are dropped. *)
CompleteTakenNever(l) ==
  /\ linkpc[l] = "sweep"
  /\ unswept[l] = {}
  /\ taken' = [taken EXCEPT ![l] = {}]
  /\ linkpc' = [linkpc EXCEPT ![l] = "check"]
  /\ UNCHANGED <<requestVars, inflightVars, cache, sessions_by_device_id, did,
                 registered, unswept, channelVars>>

CompleteTaken(l) ==
  /\ linkpc[l] = "sweep"
  /\ unswept[l] = {}
  /\ Complete(taken[l], "DeviceOffline")
  /\ taken' = [taken EXCEPT ![l] = {}]
  /\ linkpc' = [linkpc EXCEPT ![l] = "check"]
  /\ UNCHANGED <<pc, key, dest, answer, inflight_by_sequence, timer, cache,
                 sessions_by_device_id, did, registered, unswept, channelVars>>

(* The session is removed if it was this stream's when it was checked. *)
CheckSession(l) ==
  /\ linkpc[l] = "check"
  /\ linkpc' = [linkpc EXCEPT ![l] =
                  IF l \in registered /\ sessions_by_device_id[did[l]] = l
                  THEN "remove" ELSE "closed"]
  /\ UNCHANGED <<requestVars, inflightVars, cache, sessions_by_device_id, did,
                 registered, unswept, taken, channelVars>>

RemoveSession(l) ==
  /\ linkpc[l] = "remove"
  /\ sessions_by_device_id' = [sessions_by_device_id EXCEPT ![did[l]] = None]
  /\ linkpc' = [linkpc EXCEPT ![l] = "closed"]
  /\ UNCHANGED <<requestVars, inflightVars, cache, did, registered, unswept,
                 taken, channelVars>>

-----------------------------------------------------------------------------
HandlerStep(r) ==
  \/ CacheGet(r) \/ JoinInflight(r) \/ CreateInflight(r)
  \/ SessionMissing(r) \/ SessionFound(r) \/ BandwidthExceeded(r)
  \/ Forward(r) \/ ForwardFailed(r) \/ Abandon(r)
  \/ CacheInsert(r) \/ Reply(r)

TeardownStep(l) ==
  \/ \E q \in Seqs : SweepInflight(l, q)
  \/ CompleteTaken(l) \/ CheckSession(l) \/ RemoveSession(l)

Next ==
  \/ \E r \in Requests, k \in Keys : Receive(r, k)
  \/ \E r \in Requests : HandlerStep(r) \/ Timeout(r)
  \/ \E k \in Keys : CacheExpire(k)
  \/ \E l \in Links, d \in Devices : Register(l, d) \/ RegisterRefused(l, d)
  \/ \E l \in Links, r \in Requests : Execute(l, r) \/ DataResponse(l, r)
  \/ \E l \in Links : Disconnect(l) \/ StreamEnd(l) \/ TeardownStep(l)

Spec == Init /\ [][Next]_vars

(* The runtime runs every task that can run, timers expire, and a          *)
(* connected device reads its stream: the code has nothing that would end  *)
(* a send to a device that stays connected and stops reading.              *)
Fairness ==
  /\ \A r \in Requests : WF_vars(HandlerStep(r)) /\ WF_vars(Timeout(r))
  /\ \A l \in Links : WF_vars(TeardownStep(l))
  /\ \A l \in Links : WF_vars(\E r \in Requests : Execute(l, r))

FairSpec == Spec /\ Fairness

-----------------------------------------------------------------------------
(* Properties. *)

(* No waiter is lost: a handler that awaits its response (rx.await in      *)
(* run_connect_to_device_stream) is among the waiters of an InFlight that  *)
(* is still in the table under its own key, or that a device stream's      *)
(* teardown has taken out and has yet to complete.  So rx.await never      *)
(* fails, and no takeover, timeout or duplicate strands a request.         *)
Awaiting(r) == pc[r] \in {"session", "send", "wait"} /\ rx[r] = None
NoLostWaiter ==
  \A r \in Requests : Awaiting(r) =>
    \E a \in Requests :
      /\ r \in waiters[a]
      /\ \/ inflight_by_sequence[key[r]] = a
         \/ \E l \in Links : a \in taken[l] /\ linkpc[l] = "sweep"

(* No entry can stay in the table for ever: every entry of                 *)
(* inflight_by_sequence still has the timeout task its creator spawned,    *)
(* even when an older timer of the same key, a teardown or a response      *)
(* took an earlier entry away.                                             *)
EntryHasTimer ==
  \A k \in Keys : inflight_by_sequence[k] # None =>
    /\ timer[inflight_by_sequence[k]] = "armed"
    /\ key[inflight_by_sequence[k]] = k

(* Responses are never mixed up: what a controller is answered with, from  *)
(* the device, from the entry of a duplicate or from the cache, is the     *)
(* result of a request with the same device and sequence number that was   *)
(* really sent to the device.                                              *)
AnswerMatchesRequest ==
  \A r \in Requests : answer[r] \in Requests =>
    answer[r] \in forwarded /\ key[answer[r]] = key[r]

(* The two inductive invariants behind these properties.  The first ties   *)
(* the in-flight table to the handlers and timeout tasks: who can be a     *)
(* waiter, that the waiters of an entry share its key, that an Arc exists  *)
(* only once its creator has made it, and that taken Arcs belong to a      *)
(* teardown that will complete them.                                       *)
WaitersInv ==
  /\ \A r \in Requests : pc[r] # "unsent" => key[r] \in Keys
  /\ \A r \in Requests : pc[r] \in {"unsent", "lookup", "ensure"} => timer[r] = "none"
  /\ \A a \in Requests : timer[a] = "none" => waiters[a] = {}
  /\ \A a, w \in Requests : w \in waiters[a] =>
       key[w] = key[a] /\ pc[w] \notin {"unsent", "lookup", "ensure"}
  /\ \A l \in Links : taken[l] # {} => linkpc[l] = "sweep"

InflightInv == WaitersInv /\ EntryHasTimer /\ NoLostWaiter

(* The second follows a response from the device to the controller: each   *)
(* place that holds one holds the result of a forwarded request with the   *)
(* key of that place, and sessions and channels are those of the device.   *)
Matches(response, k) ==
  response \in Requests => response \in forwarded /\ key[response] = k

ResponseInv ==
  /\ \A l \in Links : linkpc[l] = "new" <=> did[l] = None
  /\ \A d \in Devices : sessions_by_device_id[d] # None => did[sessions_by_device_id[d]] = d
  /\ \A r \in Requests : dest[r] # None => did[dest[r]] = Device(key[r])
  /\ \A r \in Requests : pc[r] = "send" => dest[r] # None
  /\ \A r \in Requests : pc[r] = "unsent" => dest[r] = None /\ key[r] = None
  /\ \A l \in Links : \A r \in outbound[l] \cup inbound[l] :
       r \in forwarded /\ did[l] = Device(key[r])
  /\ \A r \in forwarded : pc[r] # "unsent"
  /\ \A r \in Requests : Matches(rx[r], key[r]) /\ Matches(answer[r], key[r])
  /\ \A k \in Keys : Matches(cache[k], k)

InProgress(r) == pc[r] \notin {"unsent", "done"}

(* Every message a handler has accepted is dealt with: the handler gets to *)
(* its next message, whatever duplicates, timers and teardowns do and      *)
(* whether or not the device answers.  Neither outbound_tx.send nor        *)
(* rx.await has a timeout: a handler blocked in the send on a full channel *)
(* gets on only because the device reads its stream or loses it, one       *)
(* blocked in rx.await only because someone completes its entry.           *)
HandlersFinish == \A r \in Requests : InProgress(r) ~> ~InProgress(r)

(* The relay keeps the promises of RequestService: whatever the in-flight  *)
(* table, the cache, the timers and the teardowns do, each message goes to *)
(* its device at most once, a message that went there is not dropped       *)
(* unanswered by run_connect_to_device_stream, one that is refused or      *)
(* given up was never sent, and answers are final and of the right key.    *)
Status(r) == IF pc[r] \in {"unsent", "done"} THEN pc[r] ELSE "pending"

Service == INSTANCE RequestService
             WITH status <- [r \in Requests |-> Status(r)], sent <- forwarded

ImplementsService == Service!Spec

(* Stated by the documentation, and not so in the code: *)

(* Duplicates get the cached response and are not forwarded again          *)
(* (README.md, "Duplicate requests return cached responses"): no handler   *)
(* is about to forward a request of which a duplicate has been answered    *)
(* with the device's response.                                             *)
DuplicateNotForwarded ==
  \A q, r \in Requests :
    pc[r] = "send" /\ key[q] = key[r] => answer[q] \notin Requests

(* Every message is answered; if the device is offline, with               *)
(* DEVICE_OFFLINE (doc/action_plan.md, test_connect_to_offline_device).    *)
EveryRequestAnswered ==
  \A r \in Requests : pc[r] = "done" => answer[r] # None

(* Only processed requests are answered from the cache; one that was not   *)
(* processed is forwarded again (doc/requirements.md, session recovery).   *)
CacheHoldsProcessed == \A k \in Keys : cache[k] # "DeviceOffline"

(* A duplicate that waits on the entry of another request waits for a      *)
(* request that is being forwarded (ensure_inflight_waiter's comment).     *)
JoinedIsForwarded ==
  \A a, r \in Requests :
    Awaiting(r) /\ r \in waiters[a] /\ inflight_by_sequence[key[r]] = a => InProgress(a)
=============================================================================
