--------------------------- MODULE DeviceSessions ---------------------------
(***************************************************************************)
(* Device registration and session removal: sessions_by_device_id,         *)
(* connection_to_device_id, device_last_seen and the connection counter of *)
(* RelayState, under concurrent DeviceConnect handlers                     *)
(* (run_device_connect_stream).  Each operation on a map is one step.  A   *)
(* session is named by its connection id; in-flight requests and stream    *)
(* mappings, which teardown clears before it looks at the session, are in  *)
(* RequestRelay and StreamRouter.                                          *)
(***************************************************************************)
EXTENDS Naturals

CONSTANTS
  Links,            \* DeviceConnect streams: one handler task each
  Devices,
  MaxConnections,   \* bound: registrations in a behaviour
  MaySwitchDevice,  \* may a stream register as another device than before?
  None

Conns == 1..MaxConnections

ASSUME SessionsAssumption ==
  /\ MaxConnections \in Nat
  /\ MaySwitchDevice \in BOOLEAN
  /\ None \notin Devices \cup Nat \cup (Links \X Devices)
  /\ None \notin {"online", "offline"} \X Conns

VARIABLES
  sessions_by_device_id,     \* device -> connection id of its session
  connection_to_device_id,
  device_last_seen,          \* devices with an entry
  connection_id_counter,
  presence,                  \* device -> last event handed to MQTT
  pc, current_device_id, current_connection_id,  \* per link: locals
  connection_id, old,        \* locals of a registration or removal
  previous, resumed,         \* previous_connection_id and session_resumed
  owner                      \* connection id -> link and device it was made for

stateVars == <<sessions_by_device_id, connection_to_device_id, device_last_seen,
               connection_id_counter>>
loopVars == <<current_device_id, current_connection_id>>
registerVars == <<connection_id, previous, resumed, owner>>
vars == <<stateVars, presence, pc, loopVars, registerVars, old>>

PCs == {"loop", "insert", "unlink", "link", "announce", "touch",
        "check", "offline", "remove", "forget", "unsee", "closed"}

(* Every variable has its type. *)
TypeOK ==
  /\ sessions_by_device_id \in [Devices -> Conns \cup {None}]
  /\ connection_to_device_id \in [Conns -> Devices \cup {None}]
  /\ device_last_seen \in SUBSET Devices
  /\ connection_id_counter \in 1..(MaxConnections + 1)
  /\ presence \in [Devices -> ({"online", "offline"} \X Conns) \cup {None}]
  /\ pc \in [Links -> PCs]
  /\ current_device_id \in [Links -> Devices \cup {None}]
  /\ current_connection_id \in [Links -> Conns \cup {None}]
  /\ connection_id \in [Links -> Conns \cup {None}]
  /\ old \in [Links -> Conns \cup {None}]
  /\ previous \in [Links -> Conns \cup {None}]
  /\ resumed \in [Links -> BOOLEAN]
  /\ owner \in [Conns -> (Links \X Devices) \cup {None}]

Init ==
  /\ sessions_by_device_id = [d \in Devices |-> None]
  /\ connection_to_device_id = [n \in Conns |-> None]
  /\ device_last_seen = {}
  /\ connection_id_counter = 1
  /\ presence = [d \in Devices |-> None]
  /\ pc = [l \in Links |-> "loop"]
  /\ current_device_id = [l \in Links |-> None]
  /\ current_connection_id = [l \in Links |-> None]
  /\ connection_id = [l \in Links |-> None]
  /\ old = [l \in Links |-> None]
  /\ previous = [l \in Links |-> None]
  /\ resumed = [l \in Links |-> FALSE]
  /\ owner = [n \in Conns |-> None]

Goto(l, p) == pc' = [pc EXCEPT ![l] = p]
Session(l) == sessions_by_device_id[current_device_id[l]]

-----------------------------------------------------------------------------
(* Register.  Once the token is accepted the stream is the device's; the   *)
(* connection limiter or the resource monitor may still end the loop.      *)
MayRegister(l, d) ==
  /\ pc[l] = "loop"
  /\ current_device_id[l] \in {None, d} \/ MaySwitchDevice
  /\ current_device_id' = [current_device_id EXCEPT ![l] = d]

(* Mutant: a refused registration ends the handler without a teardown. *)
RegisterRefusedReturns(l, d) ==
  /\ MayRegister(l, d)
  /\ Goto(l, "closed")
  /\ UNCHANGED <<stateVars, presence, current_connection_id, registerVars, old>>

RegisterRefused(l, d) ==
  /\ MayRegister(l, d)
  /\ Goto(l, "check")
  /\ UNCHANGED <<stateVars, presence, current_connection_id, registerVars, old>>

(* next_connection_id, and session_resumed from the connection id p that   *)
(* the device presents.                                                    *)
Register(l, d, p) ==
  /\ MayRegister(l, d)
  /\ connection_id_counter <= MaxConnections
  /\ connection_id' = [connection_id EXCEPT ![l] = connection_id_counter]
  /\ connection_id_counter' = connection_id_counter + 1
  /\ owner' = [owner EXCEPT ![connection_id_counter] = <<l, d>>]
  /\ previous' = [previous EXCEPT ![l] = p]
  /\ resumed' = [resumed EXCEPT ![l] =
                   p # None /\ connection_to_device_id[p] = d]
  /\ Goto(l, "insert")
  /\ UNCHANGED <<sessions_by_device_id, connection_to_device_id,
                 device_last_seen, presence, current_connection_id, old>>

InsertSession(l) ==
  /\ pc[l] = "insert"
  /\ old' = [old EXCEPT ![l] = Session(l)]
  /\ sessions_by_device_id' =
       [sessions_by_device_id EXCEPT ![current_device_id[l]] = connection_id[l]]
  /\ Goto(l, IF Session(l) = None THEN "link" ELSE "unlink")
  /\ UNCHANGED <<connection_to_device_id, device_last_seen,
                 connection_id_counter, presence, loopVars, registerVars>>

(* Mutant: the device's session is looked up again for its connection. *)
RemovePreviousReread(l) ==
  /\ pc[l] = "unlink"
  /\ connection_to_device_id' = [connection_to_device_id EXCEPT ![Session(l)] = None]
  /\ Goto(l, "link")
  /\ UNCHANGED <<sessions_by_device_id, device_last_seen, connection_id_counter,
                 presence, loopVars, registerVars, old>>

RemovePrevious(l) ==
  /\ pc[l] = "unlink"
  /\ connection_to_device_id' = [connection_to_device_id EXCEPT ![old[l]] = None]
  /\ Goto(l, "link")
  /\ UNCHANGED <<sessions_by_device_id, device_last_seen, connection_id_counter,
                 presence, loopVars, registerVars, old>>

InsertConnection(l) ==
  /\ pc[l] = "link"
  /\ connection_to_device_id' =
       [connection_to_device_id EXCEPT ![connection_id[l]] = current_device_id[l]]
  /\ Goto(l, "announce")
  /\ UNCHANGED <<sessions_by_device_id, device_last_seen, connection_id_counter,
                 presence, loopVars, registerVars, old>>

(* The registration's own locals end with it. *)
PublishOnline(l) ==
  /\ pc[l] = "announce"
  /\ current_connection_id' = [current_connection_id EXCEPT ![l] = connection_id[l]]
  /\ presence' = [presence EXCEPT ![current_device_id[l]] = <<"online", connection_id[l]>>]
  /\ connection_id' = [connection_id EXCEPT ![l] = None]
  /\ old' = [old EXCEPT ![l] = None]
  /\ previous' = [previous EXCEPT ![l] = None]
  /\ resumed' = [resumed EXCEPT ![l] = FALSE]
  /\ Goto(l, "loop")
  /\ UNCHANGED <<stateVars, current_device_id, owner>>

-----------------------------------------------------------------------------
(* Any message of the registered device: has_active_device_connection,     *)
(* then touch_device.                                                      *)
OwnsSession(l) ==
  /\ current_connection_id[l] # None
  /\ Session(l) = current_connection_id[l]

Heartbeat(l) ==
  /\ pc[l] = "loop"
  /\ current_device_id[l] # None
  /\ OwnsSession(l)
  /\ Goto(l, "touch")
  /\ UNCHANGED <<stateVars, presence, loopVars, registerVars, old>>

TouchDevice(l) ==
  /\ pc[l] = "touch"
  /\ device_last_seen' = device_last_seen \cup {current_device_id[l]}
  /\ Goto(l, "loop")
  /\ UNCHANGED <<sessions_by_device_id, connection_to_device_id,
                 connection_id_counter, presence, loopVars, registerVars, old>>

-----------------------------------------------------------------------------
(* The loop ends, for whatever reason.  Without a device there is nothing  *)
(* to tear down.                                                           *)
StreamEnd(l) ==
  /\ pc[l] = "loop"
  /\ Goto(l, IF current_device_id[l] = None THEN "closed" ELSE "check")
  /\ UNCHANGED <<stateVars, presence, loopVars, registerVars, old>>

CheckSession(l) ==
  /\ pc[l] = "check"
  /\ Goto(l, IF OwnsSession(l) THEN "offline" ELSE "closed")
  /\ UNCHANGED <<stateVars, presence, loopVars, registerVars, old>>

PublishOffline(l) ==
  /\ pc[l] = "offline"
  /\ presence' = [presence EXCEPT ![current_device_id[l]] =
                    <<"offline", current_connection_id[l]>>]
  /\ Goto(l, "remove")
  /\ UNCHANGED <<stateVars, loopVars, registerVars, old>>

(* Mutant: the session of a device that has been seen is kept. *)
RemoveSessionUnseen(l) ==
  /\ pc[l] = "remove"
  /\ Goto(l, "closed")
  /\ sessions_by_device_id' =
       IF current_device_id[l] \in device_last_seen THEN sessions_by_device_id
       ELSE [sessions_by_device_id EXCEPT ![current_device_id[l]] = None]
  /\ UNCHANGED <<connection_to_device_id, device_last_seen, old,
                 connection_id_counter, presence, loopVars, registerVars>>

(* remove_device_session: the session the device has by now, if any, then  *)
(* its connection and the last-seen entry.                                 *)
RemoveSession(l) ==
  /\ pc[l] = "remove"
  /\ old' = [old EXCEPT ![l] = Session(l)]
  /\ sessions_by_device_id' =
       [sessions_by_device_id EXCEPT ![current_device_id[l]] = None]
  /\ Goto(l, IF Session(l) = None THEN "closed" ELSE "forget")
  /\ UNCHANGED <<connection_to_device_id, device_last_seen,
                 connection_id_counter, presence, loopVars, registerVars>>

ForgetConnection(l) ==
  /\ pc[l] = "forget"
  /\ connection_to_device_id' = [connection_to_device_id EXCEPT ![old[l]] = None]
  /\ Goto(l, "unsee")
  /\ UNCHANGED <<sessions_by_device_id, device_last_seen, connection_id_counter,
                 presence, loopVars, registerVars, old>>

ForgetLastSeen(l) ==
  /\ pc[l] = "unsee"
  /\ device_last_seen' = device_last_seen \ {current_device_id[l]}
  /\ Goto(l, "closed")
  /\ UNCHANGED <<sessions_by_device_id, connection_to_device_id,
                 connection_id_counter, presence, loopVars, registerVars, old>>

LinkStep(l) ==
  \/ \E d \in Devices : RegisterRefused(l, d)
  \/ \E d \in Devices, p \in Conns \cup {None} : Register(l, d, p)
  \/ InsertSession(l) \/ RemovePrevious(l) \/ InsertConnection(l)
  \/ PublishOnline(l)
  \/ Heartbeat(l) \/ TouchDevice(l)
  \/ StreamEnd(l) \/ CheckSession(l) \/ PublishOffline(l)
  \/ RemoveSession(l) \/ ForgetConnection(l) \/ ForgetLastSeen(l)

Next == \E l \in Links : LinkStep(l)

Spec == Init /\ [][Next]_vars

-----------------------------------------------------------------------------
(* Properties. *)

(* While a device's session exists, its connection id resolves to that     *)
(* device (device_id_for_connection, on which session resumption rests),   *)
(* unless the stream that inserted the session has yet to insert it.  So   *)
(* no concurrent registration or teardown takes away the connection of a   *)
(* session that is still there.                                            *)
SessionConnectionKnown ==
  \A d \in Devices : sessions_by_device_id[d] # None =>
    \/ connection_to_device_id[sessions_by_device_id[d]] = d
    \/ \E l \in Links : /\ pc[l] \in {"unlink", "link"}
                        /\ connection_id[l] = sessions_by_device_id[d]

(* No ghost: a session belongs to a stream whose handler has not finished. *)
(* A finished teardown leaves no session of its own stream behind, so a    *)
(* device is not listed as online, nor sent requests, after its stream.    *)
NoGhostSession ==
  \A d \in Devices : sessions_by_device_id[d] # None =>
    owner[sessions_by_device_id[d]] # None
    /\ pc[owner[sessions_by_device_id[d]][1]] # "closed"

(* A device whose session is open is not the subject of an offline event   *)
(* that names this session's connection, except while the stream that      *)
(* published it is about to remove the session.                            *)
OfflineIsFinal ==
  \A d \in Devices, n \in Conns :
    presence[d] = <<"offline", n>> /\ sessions_by_device_id[d] = n =>
      pc[owner[n][1]] = "remove"

(* session_resumed is only reported for a connection id that was made for  *)
(* the same device.                                                        *)
ResumedOwnConnection ==
  \A l \in Links : resumed[l] =>
    owner[previous[l]] # None /\ owner[previous[l]][2] = current_device_id[l]

(* Stated by documentation or tests, and not so in the code: *)

(* A registration replaces the connection of the session before it         *)
(* (tests duplicate_registration_replaces_old_session,                     *)
(* register_reports_resume_and_replaces_previous_connection_mapping): when *)
(* no handler is in the middle of a registration or a teardown, a          *)
(* connection id resolves to a device only if it is its session's.         *)
Quiet == \A l \in Links : pc[l] \in {"loop", "closed"}
OnlyCurrentConnections ==
  Quiet => \A n \in Conns : connection_to_device_id[n] # None =>
             sessions_by_device_id[connection_to_device_id[n]] = n

(* ListOnlineDevices lists every registered device                         *)
(* (doc/action_plan.md, test_list_returns_registered_devices): a device    *)
(* whose stream is registered and in its loop has a session, unless a      *)
(* later stream of the device took over, and may have ended since.         *)
LatestOf(d, n) == \A m \in Conns : owner[m] # None /\ owner[m][2] = d => m <= n
RegisteredIsListed ==
  \A l \in Links :
    /\ pc[l] = "loop" /\ current_connection_id[l] # None
    /\ LatestOf(current_device_id[l], current_connection_id[l])
    => Session(l) # None

(* A device that reconnects with the connection id it was given last       *)
(* resumes its session (README.md, reconnect; doc/action_plan.md,          *)
(* test_reconnect_within_window); nothing expires in this model.           *)
GivenAndEnded(n, d) ==
  \E l \in Links : /\ owner[n] = <<l, d>> /\ current_connection_id[l] = n
                   /\ pc[l] = "closed"
ReconnectResumes ==
  \A l \in Links, n \in Conns :
    /\ pc[l] = "insert" /\ previous[l] = n
    /\ GivenAndEnded(n, current_device_id[l])
    /\ \A m \in Conns : m > n /\ owner[m] # None /\ owner[m][2] = current_device_id[l]
                          => m = connection_id[l]
    => resumed[l]
=============================================================================
