-------------------------- MODULE StreamRouterProofs --------------------------
(* Proofs about StreamRouter, for any number of streams, devices,          *)
(* controllers and teardowns, and any limits.                              *)
EXTENDS StreamRouter, FiniteSetTheorems, TLAPS

(* How far a stream has come, and what that says of its mapping.           *)
StageInv ==
  /\ \A c \in Streams : pc[c] # "new" =>
       device_id[c] \in Devices /\ controller_id[c] \in Controllers
  /\ \A c \in mappings : pc[c] \in {"idle", "busy"} /\ removing[c] = "no"
  /\ \A c \in Streams : removing[c] # "no" => pc[c] \in {"idle", "busy", "closed"}

(* The two indexes: a stream is only in the entries of its own device and  *)
(* controller, and only while it is created, mapped or removed; and a      *)
(* stream that a teardown took out of its device's entry is not put back.  *)
DeviceIndexInv ==
  /\ \A c \in Streams, d \in Devices : c \in device_to_streams[d] =>
       /\ device_id[c] = d
       /\ \/ pc[c] \in {"indexed", "tracked"}
          \/ c \in mappings
          \/ removing[c] = "device"
  /\ \A t \in Teardowns : \A c \in unmapping[t] :
       pc[c] # "new" /\ \A d \in Devices : c \notin device_to_streams[d]

ControllerIndexInv ==
  /\ \A c \in Streams, o \in Controllers : c \in controller_to_streams[o] =>
       /\ controller_id[c] = o
       /\ \/ pc[c] = "tracked"
          \/ c \in mappings
          \/ removing[c] \in {"device", "controller"}
  /\ \A c \in Streams : pc[c] = "tracked" \/ c \in mappings =>
       c \in controller_to_streams[controller_id[c]]


(* The initial states satisfy all of it. *)
LEMMA InitRouter == Init => TypeOK /\ StageInv /\ DeviceIndexInv /\ ControllerIndexInv
BY RouterAssumption DEF Init, TypeOK, Tasks, StageInv, DeviceIndexInv, ControllerIndexInv

(* Types are kept. *)
LEMMA NextTypeOK ==
  TypeOK /\ [Next]_vars => TypeOK'
<1>s. SUFFICES ASSUME TypeOK, [Next]_vars PROVE TypeOK'
  OBVIOUS
<1> USE RouterAssumption DEF streamVars, indexVars, taskVars, Goto, RemoveFrom, Keep, Tasks, TypeOK
<1>1. ASSUME NEW c \in Streams, NEW d \in Devices, NEW o \in Controllers,
              IndexByDevice(c, d, o)
       PROVE  TypeOK'
  BY <1>s, <1>1 DEF IndexByDevice
<1>2. ASSUME NEW c \in Streams, IndexByController(c) PROVE TypeOK'
  BY <1>s, <1>2 DEF IndexByController
<1>3. ASSUME NEW c \in Streams, InsertMapping(c) PROVE TypeOK'
  BY <1>s, <1>3 DEF InsertMapping
<1>4. ASSUME NEW c \in Streams, begin_request(c) PROVE TypeOK'
  BY <1>s, <1>4 DEF begin_request
<1>5. ASSUME NEW c \in Streams, finish_request(c) PROVE TypeOK'
  BY <1>s, <1>5 DEF finish_request
<1>6. ASSUME NEW c \in Streams, Close(c) PROVE TypeOK'
  BY <1>s, <1>6 DEF Close
<1>7. ASSUME NEW c \in Streams, UntrackDevice(c) PROVE TypeOK'
  BY Zenon, <1>s, <1>7 DEF UntrackDevice
<1>8. ASSUME NEW c \in Streams, UntrackController(c) PROVE TypeOK'
  BY Zenon, <1>s, <1>8 DEF UntrackController
<1>9. ASSUME NEW c \in Streams, CollectStale(c) PROVE TypeOK'
  BY <1>s, <1>9 DEF CollectStale
<1>10. ASSUME NEW c \in Streams, RemoveStale(c) PROVE TypeOK'
  BY <1>s, <1>10 DEF RemoveStale
<1>11. ASSUME NEW t \in Teardowns, NEW d \in Devices, TakeDevice(t, d) PROVE TypeOK'
  BY <1>s, <1>11 DEF TakeDevice
<1>12. ASSUME NEW t \in Teardowns, NEW c \in Streams, Unmap(t, c) PROVE TypeOK'
  BY <1>s, <1>12 DEF Unmap
<1>13. ASSUME NEW t \in Teardowns, TellIdle(t) PROVE TypeOK'
  BY <1>s, <1>13 DEF TellIdle
<1>14. ASSUME TellStale PROVE TypeOK'
  BY <1>s, <1>14 DEF TellStale
<1>15. CASE UNCHANGED vars
  BY <1>s, <1>15 DEF vars
<1> QED
  BY Zenon, <1>s, <1>1, <1>2, <1>3, <1>4, <1>5, <1>6, <1>7, <1>8, <1>9,
     <1>10, <1>11, <1>12, <1>13, <1>14, <1>15
     DEF Next, StreamStep, TeardownStep

(* A stream advances, and its mapping with it. *)
LEMMA NextStageInv ==
  TypeOK /\ StageInv /\ [Next]_vars => StageInv'
<1>s. SUFFICES ASSUME TypeOK, StageInv, [Next]_vars PROVE StageInv'
  OBVIOUS
<1> USE RouterAssumption DEF streamVars, indexVars, taskVars, Goto, RemoveFrom, Keep, Tasks, TypeOK, StageInv
<1>1. ASSUME NEW c \in Streams, NEW d \in Devices, NEW o \in Controllers,
              IndexByDevice(c, d, o)
       PROVE  StageInv'
  BY <1>s, <1>1 DEF IndexByDevice
<1>2. ASSUME NEW c \in Streams, IndexByController(c) PROVE StageInv'
  BY <1>s, <1>2 DEF IndexByController
<1>3. ASSUME NEW c \in Streams, InsertMapping(c) PROVE StageInv'
  BY <1>s, <1>3 DEF InsertMapping
<1>4. ASSUME NEW c \in Streams, begin_request(c) PROVE StageInv'
  BY <1>s, <1>4 DEF begin_request
<1>5. ASSUME NEW c \in Streams, finish_request(c) PROVE StageInv'
  BY <1>s, <1>5 DEF finish_request
<1>6. ASSUME NEW c \in Streams, Close(c) PROVE StageInv'
  BY <1>s, <1>6 DEF Close
<1>7. ASSUME NEW c \in Streams, UntrackDevice(c) PROVE StageInv'
  BY <1>s, <1>7 DEF UntrackDevice
<1>8. ASSUME NEW c \in Streams, UntrackController(c) PROVE StageInv'
  BY <1>s, <1>8 DEF UntrackController
<1>9. ASSUME NEW c \in Streams, CollectStale(c) PROVE StageInv'
  BY <1>s, <1>9 DEF CollectStale
<1>10. ASSUME NEW c \in Streams, RemoveStale(c) PROVE StageInv'
  BY <1>s, <1>10 DEF RemoveStale
<1>11. ASSUME NEW t \in Teardowns, NEW d \in Devices, TakeDevice(t, d) PROVE StageInv'
  BY <1>s, <1>11 DEF TakeDevice
<1>12. ASSUME NEW t \in Teardowns, NEW c \in Streams, Unmap(t, c) PROVE StageInv'
  BY <1>s, <1>12 DEF Unmap
<1>13. ASSUME NEW t \in Teardowns, TellIdle(t) PROVE StageInv'
  BY <1>s, <1>13 DEF TellIdle
<1>14. ASSUME TellStale PROVE StageInv'
  BY <1>s, <1>14 DEF TellStale
<1>15. CASE UNCHANGED vars
  BY <1>s, <1>15 DEF vars
<1> QED
  BY Zenon, <1>s, <1>1, <1>2, <1>3, <1>4, <1>5, <1>6, <1>7, <1>8, <1>9,
     <1>10, <1>11, <1>12, <1>13, <1>14, <1>15
     DEF Next, StreamStep, TeardownStep

(* The device index follows the streams. *)
LEMMA NextDeviceIndexInv ==
  TypeOK /\ StageInv /\ DeviceIndexInv /\ [Next]_vars => DeviceIndexInv'
<1>s. SUFFICES ASSUME TypeOK, StageInv, DeviceIndexInv, [Next]_vars PROVE DeviceIndexInv'
  OBVIOUS
<1> USE RouterAssumption DEF streamVars, indexVars, taskVars, Goto, RemoveFrom, Keep, Tasks, TypeOK, StageInv, DeviceIndexInv
<1>1. ASSUME NEW c \in Streams, NEW d \in Devices, NEW o \in Controllers,
              IndexByDevice(c, d, o)
       PROVE  DeviceIndexInv'
  BY <1>s, <1>1 DEF IndexByDevice
<1>2. ASSUME NEW c \in Streams, IndexByController(c) PROVE DeviceIndexInv'
  BY <1>s, <1>2 DEF IndexByController
<1>3. ASSUME NEW c \in Streams, InsertMapping(c) PROVE DeviceIndexInv'
  BY <1>s, <1>3 DEF InsertMapping
<1>4. ASSUME NEW c \in Streams, begin_request(c) PROVE DeviceIndexInv'
  BY <1>s, <1>4 DEF begin_request
<1>5. ASSUME NEW c \in Streams, finish_request(c) PROVE DeviceIndexInv'
  BY <1>s, <1>5 DEF finish_request
<1>6. ASSUME NEW c \in Streams, Close(c) PROVE DeviceIndexInv'
  BY <1>s, <1>6 DEF Close
<1>7. ASSUME NEW c \in Streams, UntrackDevice(c) PROVE DeviceIndexInv'
  BY <1>s, <1>7 DEF UntrackDevice
<1>8. ASSUME NEW c \in Streams, UntrackController(c) PROVE DeviceIndexInv'
  BY <1>s, <1>8 DEF UntrackController
<1>9. ASSUME NEW c \in Streams, CollectStale(c) PROVE DeviceIndexInv'
  BY <1>s, <1>9 DEF CollectStale
<1>10. ASSUME NEW c \in Streams, RemoveStale(c) PROVE DeviceIndexInv'
  BY <1>s, <1>10 DEF RemoveStale
<1>11. ASSUME NEW t \in Teardowns, NEW d \in Devices, TakeDevice(t, d) PROVE DeviceIndexInv'
  BY <1>s, <1>11 DEF TakeDevice
<1>12. ASSUME NEW t \in Teardowns, NEW c \in Streams, Unmap(t, c) PROVE DeviceIndexInv'
  BY <1>s, <1>12 DEF Unmap
<1>13. ASSUME NEW t \in Teardowns, TellIdle(t) PROVE DeviceIndexInv'
  BY <1>s, <1>13 DEF TellIdle
<1>14. ASSUME TellStale PROVE DeviceIndexInv'
  BY <1>s, <1>14 DEF TellStale
<1>15. CASE UNCHANGED vars
  BY <1>s, <1>15 DEF vars
<1> QED
  BY Zenon, <1>s, <1>1, <1>2, <1>3, <1>4, <1>5, <1>6, <1>7, <1>8, <1>9,
     <1>10, <1>11, <1>12, <1>13, <1>14, <1>15
     DEF Next, StreamStep, TeardownStep

(* The controller index follows the streams. *)
LEMMA NextControllerIndexInv ==
  TypeOK /\ StageInv /\ DeviceIndexInv /\ ControllerIndexInv /\ [Next]_vars => ControllerIndexInv'
<1>s. SUFFICES ASSUME TypeOK, StageInv, DeviceIndexInv, ControllerIndexInv, [Next]_vars PROVE ControllerIndexInv'
  OBVIOUS
<1> USE RouterAssumption DEF streamVars, indexVars, taskVars, Goto, RemoveFrom, Keep, Tasks, TypeOK, StageInv, ControllerIndexInv
<1>1. ASSUME NEW c \in Streams, NEW d \in Devices, NEW o \in Controllers,
              IndexByDevice(c, d, o)
       PROVE  ControllerIndexInv'
  BY <1>s, <1>1 DEF IndexByDevice
<1>2. ASSUME NEW c \in Streams, IndexByController(c) PROVE ControllerIndexInv'
  BY <1>s, <1>2 DEF IndexByController
<1>3. ASSUME NEW c \in Streams, InsertMapping(c) PROVE ControllerIndexInv'
  BY <1>s, <1>3 DEF InsertMapping
<1>4. ASSUME NEW c \in Streams, begin_request(c) PROVE ControllerIndexInv'
  BY <1>s, <1>4 DEF begin_request
<1>5. ASSUME NEW c \in Streams, finish_request(c) PROVE ControllerIndexInv'
  BY <1>s, <1>5 DEF finish_request
<1>6. ASSUME NEW c \in Streams, Close(c) PROVE ControllerIndexInv'
  BY <1>s, <1>6 DEF Close
<1>7. ASSUME NEW c \in Streams, UntrackDevice(c) PROVE ControllerIndexInv'
  BY <1>s, <1>7 DEF UntrackDevice
<1>8. ASSUME NEW c \in Streams, UntrackController(c) PROVE ControllerIndexInv'
  BY <1>s, <1>8 DEF UntrackController
<1>9. ASSUME NEW c \in Streams, CollectStale(c) PROVE ControllerIndexInv'
  BY <1>s, <1>9 DEF CollectStale
<1>10. ASSUME NEW c \in Streams, RemoveStale(c) PROVE ControllerIndexInv'
  BY <1>s, <1>10 DEF RemoveStale
<1>11. ASSUME NEW t \in Teardowns, NEW d \in Devices, TakeDevice(t, d) PROVE ControllerIndexInv'
  BY <1>s, <1>11 DEF TakeDevice
<1>12. ASSUME NEW t \in Teardowns, NEW c \in Streams, Unmap(t, c) PROVE ControllerIndexInv'
  BY <1>s, <1>12 DEF Unmap
<1>13. ASSUME NEW t \in Teardowns, TellIdle(t) PROVE ControllerIndexInv'
  BY <1>s, <1>13 DEF TellIdle
<1>14. ASSUME TellStale PROVE ControllerIndexInv'
  BY <1>s, <1>14 DEF TellStale
<1>15. CASE UNCHANGED vars
  BY <1>s, <1>15 DEF vars
<1> QED
  BY Zenon, <1>s, <1>1, <1>2, <1>3, <1>4, <1>5, <1>6, <1>7, <1>8, <1>9,
     <1>10, <1>11, <1>12, <1>13, <1>14, <1>15
     DEF Next, StreamStep, TeardownStep

(* A stream removed while idle is told, or is on a list of those to tell. *)
LEMMA NextIdleStreamTold ==
  TypeOK /\ IdleStreamTold /\ [Next]_vars => IdleStreamTold'
<1>s. SUFFICES ASSUME TypeOK, IdleStreamTold, [Next]_vars PROVE IdleStreamTold'
  OBVIOUS
<1> USE RouterAssumption DEF streamVars, indexVars, taskVars, Goto, RemoveFrom, Keep, Tasks, TypeOK, IdleStreamTold
<1>1. ASSUME NEW c \in Streams, NEW d \in Devices, NEW o \in Controllers,
              IndexByDevice(c, d, o)
       PROVE  IdleStreamTold'
  BY <1>s, <1>1 DEF IndexByDevice
<1>2. ASSUME NEW c \in Streams, IndexByController(c) PROVE IdleStreamTold'
  BY <1>s, <1>2 DEF IndexByController
<1>3. ASSUME NEW c \in Streams, InsertMapping(c) PROVE IdleStreamTold'
  BY <1>s, <1>3 DEF InsertMapping
<1>4. ASSUME NEW c \in Streams, begin_request(c) PROVE IdleStreamTold'
  BY <1>s, <1>4 DEF begin_request
<1>5. ASSUME NEW c \in Streams, finish_request(c) PROVE IdleStreamTold'
  BY <1>s, <1>5 DEF finish_request
<1>6. ASSUME NEW c \in Streams, Close(c) PROVE IdleStreamTold'
  BY <1>s, <1>6 DEF Close
<1>7. ASSUME NEW c \in Streams, UntrackDevice(c) PROVE IdleStreamTold'
  BY <1>s, <1>7 DEF UntrackDevice
<1>8. ASSUME NEW c \in Streams, UntrackController(c) PROVE IdleStreamTold'
  BY <1>s, <1>8 DEF UntrackController
<1>9. ASSUME NEW c \in Streams, CollectStale(c) PROVE IdleStreamTold'
  BY <1>s, <1>9 DEF CollectStale
<1>10. ASSUME NEW c \in Streams, RemoveStale(c) PROVE IdleStreamTold'
  BY <1>s, <1>10 DEF RemoveStale
<1>11. ASSUME NEW t \in Teardowns, NEW d \in Devices, TakeDevice(t, d) PROVE IdleStreamTold'
  BY <1>s, <1>11 DEF TakeDevice
<1>12. ASSUME NEW t \in Teardowns, NEW c \in Streams, Unmap(t, c) PROVE IdleStreamTold'
  BY <1>s, <1>12 DEF Unmap
<1>13. ASSUME NEW t \in Teardowns, TellIdle(t) PROVE IdleStreamTold'
  BY <1>s, <1>13 DEF TellIdle
<1>14. ASSUME TellStale PROVE IdleStreamTold'
  BY <1>s, <1>14 DEF TellStale
<1>15. CASE UNCHANGED vars
  BY <1>s, <1>15 DEF vars
<1> QED
  BY Zenon, <1>s, <1>1, <1>2, <1>3, <1>4, <1>5, <1>6, <1>7, <1>8, <1>9,
     <1>10, <1>11, <1>12, <1>13, <1>14, <1>15
     DEF Next, StreamStep, TeardownStep

-----------------------------------------------------------------------------
(* A set of streams is finite, and one more stream adds one at most. *)
LEMMA OneMore ==
  ASSUME NEW S \in SUBSET Streams, NEW c \in Streams, NEW n \in Nat \ {0},
         S = {} \/ ~(Cardinality(S) >= n)
  PROVE  Cardinality(S \cup {c}) <= n
<1>1. IsFiniteSet(S)
  BY RouterAssumption, FS_Subset
<1>2. Cardinality(S) \in Nat /\ Cardinality({}) = 0
  BY <1>1, FS_CardinalityType, FS_EmptySet
<1>3. Cardinality(S \cup {c}) \in {Cardinality(S), Cardinality(S) + 1}
  BY <1>1, <1>2, FS_AddElement
<1> QED
  BY <1>2, <1>3

(* A part of a set of streams has no more members than it. *)
LEMMA Fewer ==
  ASSUME NEW S \in SUBSET Streams, NEW R \in SUBSET S, NEW n \in Nat,
         Cardinality(S) <= n
  PROVE  Cardinality(R) <= n
<1>1. IsFiniteSet(S)
  BY RouterAssumption, FS_Subset
<1>2. IsFiniteSet(R) /\ Cardinality(R) <= Cardinality(S)
  BY <1>1, FS_Subset
<1>3. Cardinality(R) \in Nat /\ Cardinality(S) \in Nat
  BY <1>1, <1>2, FS_CardinalityType
<1> QED
  BY <1>2, <1>3

(* What a step may do to an entry: add one stream to one that is not full, *)
(* or leave or shrink it.                                                  *)
DeviceEntryMoves(d) ==
  \/ device_to_streams'[d] \subseteq device_to_streams[d]
  \/ /\ ~DeviceFull(d)
     /\ \E c \in Streams : device_to_streams'[d] = device_to_streams[d] \cup {c}

ControllerEntryMoves(o) ==
  \/ controller_to_streams'[o] \subseteq controller_to_streams[o]
  \/ /\ ~ControllerFull(o)
     /\ \E c \in Streams :
          controller_to_streams'[o] = controller_to_streams[o] \cup {c}

(* Every step does that to a device's entry. *)
LEMMA DeviceEntryStep ==
  ASSUME TypeOK, [Next]_vars, NEW d \in Devices
  PROVE  DeviceEntryMoves(d)
<1> USE DEF streamVars, indexVars, taskVars, Goto, TypeOK, DeviceEntryMoves
<1>1. ASSUME NEW c \in Streams, NEW d1 \in Devices, NEW o1 \in Controllers,
              IndexByDevice(c, d1, o1) PROVE DeviceEntryMoves(d)
  BY <1>1, RouterAssumption DEF IndexByDevice
<1>2. ASSUME NEW c \in Streams, IndexByController(c) PROVE DeviceEntryMoves(d)
  BY <1>2, RouterAssumption DEF IndexByController
<1>3. ASSUME NEW c \in Streams, UntrackDevice(c) PROVE DeviceEntryMoves(d)
  BY <1>3, RouterAssumption DEF UntrackDevice
<1>4. ASSUME NEW t \in Teardowns, NEW d1 \in Devices,
              TakeDevice(t, d1) PROVE DeviceEntryMoves(d)
  BY <1>4, RouterAssumption DEF TakeDevice
<1>5. CASE UNCHANGED device_to_streams
  BY <1>5
<1> QED
  BY <1>1, <1>2, <1>3, <1>4, <1>5 DEF Next, StreamStep, TeardownStep, vars,
     InsertMapping, begin_request, finish_request, Close,
     UntrackController, CollectStale, RemoveStale, Unmap, TellIdle,
     TellStale

(* The same of a controller's entry. *)
LEMMA ControllerEntryStep ==
  ASSUME TypeOK, StageInv, [Next]_vars, NEW o \in Controllers
  PROVE  ControllerEntryMoves(o)
<1> USE DEF streamVars, indexVars, taskVars, Goto, TypeOK, ControllerEntryMoves
<1>1. ASSUME NEW c \in Streams, IndexByController(c) PROVE ControllerEntryMoves(o)
  BY <1>1, RouterAssumption DEF IndexByController, StageInv
<1>2. ASSUME NEW c \in Streams, UntrackController(c) PROVE ControllerEntryMoves(o)
  BY <1>2, RouterAssumption DEF UntrackController, StageInv
<1>3. CASE UNCHANGED controller_to_streams
  BY <1>3
<1> QED
  BY <1>1, <1>2, <1>3 DEF Next, StreamStep, TeardownStep, vars,
     IndexByDevice, InsertMapping, begin_request, finish_request, Close,
     UntrackDevice, CollectStale, RemoveStale, TakeDevice, Unmap, TellIdle,
     TellStale

(* A controller's entry stays within the limit. *)
ControllerEntryCap ==
  \A o \in Controllers :
    Cardinality(controller_to_streams[o]) <= max_concurrent_streams_per_controller

-----------------------------------------------------------------------------
RouterInv == TypeOK /\ StageInv /\ DeviceIndexInv /\ ControllerIndexInv

(* The invariant the theorems rest on. *)
LEMMA RouterInvariant == Spec => []RouterInv
<1>1. Init => RouterInv
  BY InitRouter DEF RouterInv
<1>2. RouterInv /\ [Next]_vars => RouterInv'
  BY NextTypeOK, NextStageInv, NextDeviceIndexInv, NextControllerIndexInv DEF RouterInv
<1> QED
  BY <1>1, <1>2, PTL DEF Spec

(* No stream leaks from StreamRouter's maps: a stream that was refused or  *)
(* closed, and is not being removed, is in no map and in no index, however *)
(* its remove_mapping raced a teardown or the cleanup task.                *)
THEOREM NothingLeaks == Spec => []NoLeakedStream
<1>1. RouterInv => NoLeakedStream
  BY DEF RouterInv, TypeOK, StageInv, DeviceIndexInv, ControllerIndexInv,
     NoLeakedStream, Gone
<1> QED
  BY <1>1, RouterInvariant, PTL

(* A controller whose mapping a teardown or the cleanup task removed while *)
(* it had no request has been sent DeviceOffline, or is about to be.       *)
THEOREM IdleControllersTold == Spec => []IdleStreamTold
<1>1. Init => IdleStreamTold
  BY DEF Init, IdleStreamTold
<1>2. TypeOK /\ IdleStreamTold /\ [Next]_vars => IdleStreamTold'
  BY NextIdleStreamTold
<1>3. RouterInv => TypeOK
  BY DEF RouterInv
<1> QED
  BY <1>1, <1>2, <1>3, RouterInvariant, PTL DEF Spec

(* create_mapping's check of the device's entry bounds that entry, as the  *)
(* debug_assert at its end says, when the limit is not 0.                  *)
THEOREM DeviceEntriesCapped ==
  ASSUME max_active_streams # 0
  PROVE  Spec => []DeviceEntryCap
<1>1. Init => DeviceEntryCap
  BY RouterAssumption, FS_EmptySet DEF Init, DeviceEntryCap
<1>2. RouterInv /\ DeviceEntryCap /\ [Next]_vars => DeviceEntryCap'
  <2> SUFFICES ASSUME RouterInv, DeviceEntryCap, [Next]_vars, NEW d \in Devices
               PROVE  Cardinality(device_to_streams'[d]) <= max_active_streams
    BY DEF DeviceEntryCap
  <2>1. TypeOK /\ device_to_streams[d] \in SUBSET Streams
    BY DEF RouterInv, TypeOK
  <2>2. CASE device_to_streams'[d] \subseteq device_to_streams[d]
    BY <2>1, <2>2, Fewer, RouterAssumption DEF DeviceEntryCap
  <2>3. ASSUME ~DeviceFull(d), NEW c \in Streams,
               device_to_streams'[d] = device_to_streams[d] \cup {c}
        PROVE  Cardinality(device_to_streams'[d]) <= max_active_streams
    BY <2>1, <2>3, OneMore, RouterAssumption DEF DeviceFull
  <2> QED
    BY <2>1, <2>2, <2>3, DeviceEntryStep DEF DeviceEntryMoves
<1> QED
  BY <1>1, <1>2, RouterInvariant, PTL DEF Spec

(* No controller has more mappings than its limit, when that is not 0:     *)
(* its entry is within the limit, and every mapping is in it until the     *)
(* mapping has been removed.                                               *)
THEOREM ControllersCapped ==
  ASSUME max_concurrent_streams_per_controller # 0
  PROVE  Spec => []ControllerCap
<1>1. Init => ControllerEntryCap
  BY RouterAssumption, FS_EmptySet DEF Init, ControllerEntryCap
<1>2. RouterInv /\ ControllerEntryCap /\ [Next]_vars => ControllerEntryCap'
  <2> SUFFICES ASSUME RouterInv, ControllerEntryCap, [Next]_vars,
                      NEW o \in Controllers
               PROVE  Cardinality(controller_to_streams'[o])
                        <= max_concurrent_streams_per_controller
    BY DEF ControllerEntryCap
  <2>1. TypeOK /\ StageInv /\ controller_to_streams[o] \in SUBSET Streams
    BY DEF RouterInv, TypeOK
  <2>2. CASE controller_to_streams'[o] \subseteq controller_to_streams[o]
    BY <2>1, <2>2, Fewer, RouterAssumption DEF ControllerEntryCap
  <2>3. ASSUME ~ControllerFull(o), NEW c \in Streams,
               controller_to_streams'[o] = controller_to_streams[o] \cup {c}
        PROVE  Cardinality(controller_to_streams'[o])
                 <= max_concurrent_streams_per_controller
    BY <2>1, <2>3, OneMore, RouterAssumption DEF ControllerFull
  <2> QED
    BY <2>1, <2>2, <2>3, ControllerEntryStep DEF ControllerEntryMoves
<1>3. RouterInv /\ ControllerEntryCap => ControllerCap
  <2> SUFFICES ASSUME RouterInv, ControllerEntryCap, NEW o \in Controllers
               PROVE  Cardinality({c \in mappings : controller_id[c] = o})
                        <= max_concurrent_streams_per_controller
    BY DEF ControllerCap
  <2>1. controller_to_streams[o] \in SUBSET Streams
    BY DEF RouterInv, TypeOK
  <2>2. {c \in mappings : controller_id[c] = o} \subseteq controller_to_streams[o]
    BY DEF RouterInv, TypeOK, ControllerIndexInv
  <2> QED
    BY <2>1, <2>2, Fewer, RouterAssumption DEF ControllerEntryCap
<1> QED
  BY <1>1, <1>2, <1>3, RouterInvariant, PTL DEF Spec
=============================================================================
