---------------------------- MODULE StreamRouter ----------------------------
(***************************************************************************)
(* StreamRouter: the three maps that link controller streams and devices,  *)
(* each operation on a map one step, under the tasks that use them: the    *)
(* ConnectToDevice handlers (create_mapping, begin_request,                *)
(* finish_request, remove_mapping), the teardown of DeviceConnect handlers *)
(* (remove_all_for_device) and the cleanup task (cleanup_stale).           *)
(*                                                                         *)
(* A stream is a stream_id, made by one create_mapping call: a controller  *)
(* that is refused and tries again is another stream here.                 *)
(***************************************************************************)
EXTENDS Integers, FiniteSets

CONSTANTS
  Streams,       \* stream ids
  Devices,
  Controllers,
  Teardowns,     \* runs of a DeviceConnect handler's teardown
  Cleanup,       \* the stale-stream cleanup task
  max_active_streams,                     \* per device
  max_concurrent_streams_per_controller,
  None

Tasks == Teardowns \cup {Cleanup}

ASSUME RouterAssumption ==
  /\ max_active_streams \in Nat
  /\ max_concurrent_streams_per_controller \in Nat
  /\ IsFiniteSet(Streams)
  /\ Cleanup \notin Teardowns
  /\ None \notin Devices \cup Controllers

VARIABLES
  pc, device_id, controller_id,   \* per stream: its handler, and its binding
  mappings, active_requests,      \* mapped streams, and their counters
  device_to_streams, controller_to_streams,
  removing,                       \* where the removal of a mapping stands
  stale, started, unmapping, removed,  \* locals of the removing tasks
  told                            \* controllers sent DeviceOffline, sequence 0

streamVars == <<pc, device_id, controller_id>>
indexVars == <<device_to_streams, controller_to_streams>>
taskVars == <<stale, started, unmapping, removed, told>>
vars == <<streamVars, mappings, active_requests, indexVars, removing, taskVars>>

(* Every variable has its type. *)
TypeOK ==
  /\ pc \in [Streams -> {"new", "indexed", "tracked", "idle", "busy", "closed"}]
  /\ device_id \in [Streams -> Devices \cup {None}]
  /\ controller_id \in [Streams -> Controllers \cup {None}]
  /\ mappings \in SUBSET Streams
  /\ active_requests \in [Streams -> Nat]
  /\ device_to_streams \in [Devices -> SUBSET Streams]
  /\ controller_to_streams \in [Controllers -> SUBSET Streams]
  /\ removing \in [Streams -> {"no", "device", "controller", "done"}]
  /\ stale \in SUBSET Streams
  /\ started \in SUBSET Teardowns
  /\ unmapping \in [Teardowns -> SUBSET Streams]
  /\ removed \in [Tasks -> SUBSET Streams]
  /\ told \in SUBSET Streams

Init ==
  /\ pc = [c \in Streams |-> "new"]
  /\ device_id = [c \in Streams |-> None]
  /\ controller_id = [c \in Streams |-> None]
  /\ mappings = {}
  /\ active_requests = [c \in Streams |-> 0]
  /\ device_to_streams = [d \in Devices |-> {}]
  /\ controller_to_streams = [o \in Controllers |-> {}]
  /\ removing = [c \in Streams |-> "no"]
  /\ stale = {}
  /\ started = {}
  /\ unmapping = [t \in Teardowns |-> {}]
  /\ removed = [t \in Tasks |-> {}]
  /\ told = {}

Goto(c, p) == pc' = [pc EXCEPT ![c] = p]

-----------------------------------------------------------------------------
(* Mutant: the limit is off by one. *)
DeviceFullOffByOne(d) ==
  /\ device_to_streams[d] # {}
  /\ Cardinality(device_to_streams[d]) > max_active_streams

(* create_mapping.  The device's entry first: an absent entry is filled    *)
(* without looking at the limit.                                           *)
DeviceFull(d) ==
  /\ device_to_streams[d] # {}
  /\ Cardinality(device_to_streams[d]) >= max_active_streams

IndexByDevice(c, d, o) ==
  /\ pc[c] = "new"
  /\ device_id' = [device_id EXCEPT ![c] = d]
  /\ controller_id' = [controller_id EXCEPT ![c] = o]
  /\ IF DeviceFull(d)
     THEN Goto(c, "closed") /\ UNCHANGED device_to_streams
     ELSE /\ device_to_streams' = [device_to_streams EXCEPT ![d] = @ \cup {c}]
          /\ Goto(c, "indexed")
  /\ UNCHANGED <<mappings, active_requests, controller_to_streams, removing,
                 taskVars>>

(* Mutant: the limit is off by one. *)
ControllerFullOffByOne(o) ==
  /\ controller_to_streams[o] # {}
  /\ Cardinality(controller_to_streams[o]) > max_concurrent_streams_per_controller

(* Then the controller's entry; at its limit the device's is rolled back. *)
ControllerFull(o) ==
  /\ controller_to_streams[o] # {}
  /\ Cardinality(controller_to_streams[o]) >= max_concurrent_streams_per_controller

(* Mutant: the device's entry is not rolled back. *)
IndexByControllerNoRollback(c) ==
  LET o == controller_id[c] IN
  /\ pc[c] = "indexed"
  /\ IF ControllerFull(o)
     THEN Goto(c, "closed") /\ UNCHANGED indexVars
     ELSE /\ controller_to_streams' = [controller_to_streams EXCEPT ![o] = @ \cup {c}]
          /\ Goto(c, "tracked")
          /\ UNCHANGED device_to_streams
  /\ UNCHANGED <<device_id, controller_id, mappings, active_requests, removing,
                 taskVars>>

IndexByController(c) ==
  LET o == controller_id[c] IN
  /\ pc[c] = "indexed"
  /\ IF ControllerFull(o)
     THEN /\ device_to_streams' =
               [device_to_streams EXCEPT ![device_id[c]] = @ \ {c}]
          /\ Goto(c, "closed")
          /\ UNCHANGED controller_to_streams
     ELSE /\ controller_to_streams' = [controller_to_streams EXCEPT ![o] = @ \cup {c}]
          /\ Goto(c, "tracked")
          /\ UNCHANGED device_to_streams
  /\ UNCHANGED <<device_id, controller_id, mappings, active_requests, removing,
                 taskVars>>

InsertMapping(c) ==
  /\ pc[c] = "tracked"
  /\ mappings' = mappings \cup {c}
  /\ Goto(c, "idle")
  /\ UNCHANGED <<device_id, controller_id, active_requests, indexVars, removing,
                 taskVars>>

(* begin_request and finish_request do nothing once the mapping is gone;   *)
(* the handler goes on serving its stream.                                 *)
begin_request(c) ==
  /\ pc[c] = "idle"
  /\ active_requests' = IF c \in mappings
                        THEN [active_requests EXCEPT ![c] = @ + 1]
                        ELSE active_requests
  /\ Goto(c, "busy")
  /\ UNCHANGED <<device_id, controller_id, mappings, indexVars, removing, taskVars>>

finish_request(c) ==
  /\ pc[c] = "busy"
  /\ active_requests' = IF c \in mappings /\ active_requests[c] > 0
                        THEN [active_requests EXCEPT ![c] = @ - 1]
                        ELSE active_requests
  /\ Goto(c, "idle")
  /\ UNCHANGED <<device_id, controller_id, mappings, indexVars, removing, taskVars>>

-----------------------------------------------------------------------------
(* remove_mapping.  mappings.remove succeeds for one task only; that task  *)
(* then takes the stream out of its device's entry and its controller's.   *)
RemoveFrom(c, next) ==
  /\ mappings' = mappings \ {c}
  /\ removing' = IF c \in mappings THEN [removing EXCEPT ![c] = next] ELSE removing

UntrackDevice(c) ==
  /\ removing[c] = "device"
  /\ device_to_streams' = [device_to_streams EXCEPT ![device_id[c]] = @ \ {c}]
  /\ removing' = [removing EXCEPT ![c] = "controller"]
  /\ UNCHANGED <<streamVars, mappings, active_requests, controller_to_streams,
                 taskVars>>

UntrackController(c) ==
  /\ removing[c] = "controller"
  /\ controller_to_streams' =
       [controller_to_streams EXCEPT ![controller_id[c]] = @ \ {c}]
  /\ removing' = [removing EXCEPT ![c] = "done"]
  /\ UNCHANGED <<streamVars, mappings, active_requests, device_to_streams,
                 taskVars>>

(* The controller's stream ends and its handler removes the mapping. *)
Close(c) ==
  /\ pc[c] = "idle"
  /\ RemoveFrom(c, "device")
  /\ Goto(c, "closed")
  /\ UNCHANGED <<device_id, controller_id, active_requests, indexVars, taskVars>>

(* A task removes its mappings one at a time, and keeps those it removed. *)
Settled(t) == \A c \in removed[t] : removing[c] = "done"

Keep(t, c) ==
  removed' = IF c \in mappings THEN [removed EXCEPT ![t] = @ \cup {c}] ELSE removed

(* cleanup_stale: collect mappings without a request that have been idle   *)
(* for long enough (any may have been), then remove them; the cleanup task *)
(* tells the controllers of those it removed.                              *)
CollectStale(c) ==
  /\ removed[Cleanup] = {}
  /\ c \in mappings \ stale
  /\ active_requests[c] = 0
  /\ stale' = stale \cup {c}
  /\ UNCHANGED <<streamVars, mappings, active_requests, indexVars, removing,
                 started, unmapping, removed, told>>

RemoveStale(c) ==
  /\ c \in stale
  /\ Settled(Cleanup)
  /\ stale' = stale \ {c}
  /\ RemoveFrom(c, "device")
  /\ Keep(Cleanup, c)
  /\ UNCHANGED <<streamVars, active_requests, indexVars, started, unmapping, told>>

(* Mutant: the controllers of stale streams are not told. *)
TellStaleNobody ==
  /\ removed[Cleanup] # {}
  /\ stale = {}
  /\ Settled(Cleanup)
  /\ removed' = [removed EXCEPT ![Cleanup] = {}]
  /\ UNCHANGED <<streamVars, mappings, active_requests, indexVars, removing,
                 stale, started, unmapping, told>>

TellStale ==
  /\ removed[Cleanup] # {}
  /\ stale = {}
  /\ Settled(Cleanup)
  /\ told' = told \cup removed[Cleanup]
  /\ removed' = [removed EXCEPT ![Cleanup] = {}]
  /\ UNCHANGED <<streamVars, mappings, active_requests, indexVars, removing,
                 stale, started, unmapping>>

(* remove_all_for_device: the device's entry is taken whole, then the      *)
(* mappings are removed; controllers without a request are told.           *)
TakeDevice(t, d) ==
  /\ t \notin started
  /\ started' = started \cup {t}
  /\ unmapping' = [unmapping EXCEPT ![t] = device_to_streams[d]]
  /\ device_to_streams' = [device_to_streams EXCEPT ![d] = {}]
  /\ UNCHANGED <<streamVars, mappings, active_requests, controller_to_streams,
                 removing, stale, removed, told>>

Unmap(t, c) ==
  /\ c \in unmapping[t]
  /\ Settled(t)
  /\ unmapping' = [unmapping EXCEPT ![t] = @ \ {c}]
  /\ RemoveFrom(c, "controller")
  /\ Keep(t, c)
  /\ UNCHANGED <<streamVars, active_requests, indexVars, stale, started, told>>

TellIdle(t) ==
  /\ removed[t] # {}
  /\ unmapping[t] = {}
  /\ Settled(t)
  /\ told' = told \cup {c \in removed[t] : active_requests[c] = 0}
  /\ removed' = [removed EXCEPT ![t] = {}]
  /\ UNCHANGED <<streamVars, mappings, active_requests, indexVars, removing,
                 stale, started, unmapping>>

-----------------------------------------------------------------------------
StreamStep(c) ==
  \/ \E d \in Devices, o \in Controllers : IndexByDevice(c, d, o)
  \/ IndexByController(c) \/ InsertMapping(c)
  \/ begin_request(c) \/ finish_request(c) \/ Close(c)
  \/ UntrackDevice(c) \/ UntrackController(c)
  \/ CollectStale(c) \/ RemoveStale(c)

TeardownStep(t) ==
  \/ \E d \in Devices : TakeDevice(t, d)
  \/ \E c \in Streams : Unmap(t, c)
  \/ TellIdle(t)

Next ==
  \/ \E c \in Streams : StreamStep(c)
  \/ \E t \in Teardowns : TeardownStep(t)
  \/ TellStale

Spec == Init /\ [][Next]_vars

-----------------------------------------------------------------------------
(* Properties. *)

(* create_mapping's limit per controller holds at every moment, for the    *)
(* streams that are really mapped, not only for those indexed: whatever    *)
(* teardowns and the cleanup task remove concurrently, no controller has   *)
(* more than max_concurrent_streams_per_controller mappings.               *)
ControllerCap ==
  \A o \in Controllers :
    Cardinality({c \in mappings : controller_id[c] = o})
      <= max_concurrent_streams_per_controller

(* No stream leaks: once a stream has been refused or closed and no        *)
(* removal of it is under way, no map mentions it, so it no longer counts  *)
(* against a limit.                                                        *)
Gone(c) == pc[c] = "closed" /\ removing[c] \in {"no", "done"}
NoLeakedStream ==
  \A c \in Streams : Gone(c) =>
    /\ c \notin mappings
    /\ \A d \in Devices : c \notin device_to_streams[d]
    /\ \A o \in Controllers : c \notin controller_to_streams[o]

(* A controller whose mapping was removed while it had no request in       *)
(* progress, by a device's teardown or by the cleanup task, has been told  *)
(* with a DeviceOffline response of sequence number 0, or is about to be.  *)
IdleStreamTold ==
  \A c \in Streams :
    pc[c] \in {"idle", "busy"} /\ c \notin mappings /\ active_requests[c] = 0 =>
      c \in told \/ \E t \in Tasks : c \in removed[t]

(* The debug_assert at the end of create_mapping: the device's entry is    *)
(* within its limit when a stream has been added to it.                    *)
DeviceEntryCap ==
  \A d \in Devices : Cardinality(device_to_streams[d]) <= max_active_streams

(* Stated by documentation or comments, and not so in the code: *)

(* No device has more than max_active_streams concurrent streams           *)
(* (doc/action_plan.md, "per-device: 10 concurrent streams").              *)
DeviceCap ==
  \A d \in Devices :
    Cardinality({c \in mappings : device_id[c] = d}) <= max_active_streams

(* cleanup_stale removes streams that have been idle beyond the timeout,   *)
(* none that has a request in progress (its comment).                      *)
CleanupSparesActive ==
  \A c \in removed[Cleanup] : active_requests[c] = 0
=============================================================================
