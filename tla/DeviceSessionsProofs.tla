------------------------ MODULE DeviceSessionsProofs ------------------------
(* Proofs about DeviceSessions, for any number of streams, devices and     *)
(* registrations.                                                          *)
EXTENDS DeviceSessions, TLAPS

Registering == {"insert", "unlink", "link", "announce"}
Ended == {"remove", "forget", "unsee", "closed"}

(* Connection ids are made once: each belongs to one stream and device,    *)
(* and so do the locals and the sessions that hold it.                     *)
OwnerInv ==
  /\ \A n \in Conns : owner[n] # None <=> n < connection_id_counter
  /\ \A l \in Links : connection_id[l] # None <=> pc[l] \in Registering
  /\ \A l \in Links : connection_id[l] # None =>
       owner[connection_id[l]] = <<l, current_device_id[l]>>
  /\ \A l \in Links : current_connection_id[l] # None =>
       /\ current_device_id[l] # None
       /\ owner[current_connection_id[l]] # None
       /\ owner[current_connection_id[l]][1] = l
  /\ \A l \in Links : pc[l] \notin {"loop", "closed"} => current_device_id[l] # None
  /\ \A l \in Links : pc[l] \in {"offline", "remove"} => current_connection_id[l] # None
  /\ \A d \in Devices : sessions_by_device_id[d] # None =>
       /\ owner[sessions_by_device_id[d]] # None
       /\ owner[sessions_by_device_id[d]][2] = d

(* A connection id about to be inserted is no session yet, and one about   *)
(* to be forgotten is no session any more and will not be again.           *)
ReplacedInv ==
  /\ \A l \in Links : pc[l] = "insert" =>
       \A d \in Devices : sessions_by_device_id[d] # connection_id[l]
  /\ \A l \in Links : pc[l] \in {"unlink", "forget"} =>
       /\ old[l] # None
       /\ owner[old[l]] # None
       /\ \A d \in Devices : sessions_by_device_id[d] # old[l]
  /\ \A l, m \in Links : pc[l] = "insert" /\ pc[m] \in {"unlink", "forget"} =>
       old[m] # connection_id[l]

(* The stream of a session is still there, and will remove it: n is the    *)
(* connection it is registering, or the one it serves.                     *)
Serves(l, n) ==
  \/ connection_id[l] = n /\ pc[l] \in {"unlink", "link", "announce"}
  \/ /\ current_connection_id[l] = n
     /\ pc[l] \in {"loop", "touch", "insert", "check", "offline", "remove"}

(* For streams that stay with one device.                                  *)
ServedInv ==
  /\ \A l \in Links : current_connection_id[l] # None =>
       owner[current_connection_id[l]][2] = current_device_id[l]
  /\ \A d \in Devices, l \in Links, n \in Conns :
       sessions_by_device_id[d] = n /\ owner[n][1] = l => Serves(l, n)
  /\ \A d \in Devices, n \in Conns : presence[d] = <<"offline", n>> =>
       /\ owner[n] # None
       /\ pc[owner[n][1]] \in Ended

(* The initial state satisfies the invariants. *)
LEMMA InitInv ==
  Init => TypeOK /\ OwnerInv /\ ReplacedInv /\ ServedInv /\ SessionConnectionKnown
BY SessionsAssumption DEF Init, TypeOK, Conns, PCs, OwnerInv, ReplacedInv, ServedInv, Serves,
   Ended, Registering, SessionConnectionKnown

(* Types are kept. *)
LEMMA NextTypeOK ==
  TypeOK /\ OwnerInv /\ [Next]_vars
    => TypeOK'
<1>s. SUFFICES ASSUME TypeOK, OwnerInv, [Next]_vars
               PROVE  TypeOK'
  OBVIOUS
<1> USE SessionsAssumption DEF stateVars, loopVars, registerVars, Goto, Conns
<1>1. ASSUME NEW l \in Links, NEW d \in Devices, RegisterRefused(l, d) PROVE TypeOK'
  BY <1>s, <1>1 DEF RegisterRefused, MayRegister, TypeOK, PCs, OwnerInv, Registering
<1>2. ASSUME NEW l \in Links, NEW d \in Devices, NEW p \in Conns \cup {None},
             Register(l, d, p)
      PROVE  TypeOK'
  BY <1>s, <1>2 DEF Register, MayRegister, TypeOK, PCs, OwnerInv, Registering
<1>3. ASSUME NEW l \in Links, InsertSession(l) PROVE TypeOK'
  BY <1>s, <1>3 DEF InsertSession, Session, TypeOK, PCs, OwnerInv, Registering
<1>4. ASSUME NEW l \in Links, RemovePrevious(l) PROVE TypeOK'
  BY Zenon, <1>s, <1>4 DEF RemovePrevious, TypeOK, PCs, OwnerInv, Registering
<1>5. ASSUME NEW l \in Links, InsertConnection(l) PROVE TypeOK'
  BY <1>s, <1>5 DEF InsertConnection, TypeOK, PCs, OwnerInv, Registering
<1>6. ASSUME NEW l \in Links, PublishOnline(l) PROVE TypeOK'
  BY <1>s, <1>6 DEF PublishOnline, TypeOK, PCs, OwnerInv, Registering
<1>7. ASSUME NEW l \in Links, Heartbeat(l) PROVE TypeOK'
  BY <1>s, <1>7 DEF Heartbeat, TypeOK, PCs, OwnerInv, Registering
<1>8. ASSUME NEW l \in Links, TouchDevice(l) PROVE TypeOK'
  BY <1>s, <1>8 DEF TouchDevice, TypeOK, PCs, OwnerInv, Registering
<1>9. ASSUME NEW l \in Links, StreamEnd(l) PROVE TypeOK'
  BY <1>s, <1>9 DEF StreamEnd, TypeOK, PCs, OwnerInv, Registering
<1>10. ASSUME NEW l \in Links, CheckSession(l) PROVE TypeOK'
  BY <1>s, <1>10 DEF CheckSession, OwnsSession, TypeOK, PCs, OwnerInv, Registering
<1>11. ASSUME NEW l \in Links, PublishOffline(l) PROVE TypeOK'
  BY <1>s, <1>11 DEF PublishOffline, TypeOK, PCs, OwnerInv, Registering
<1>12. ASSUME NEW l \in Links, RemoveSession(l) PROVE TypeOK'
  BY <1>s, <1>12 DEF RemoveSession, Session, TypeOK, PCs, OwnerInv, Registering
<1>13. ASSUME NEW l \in Links, ForgetConnection(l) PROVE TypeOK'
  BY Zenon, <1>s, <1>13 DEF ForgetConnection, TypeOK, PCs, OwnerInv, Registering
<1>14. ASSUME NEW l \in Links, ForgetLastSeen(l) PROVE TypeOK'
  BY <1>s, <1>14 DEF ForgetLastSeen, TypeOK, PCs, OwnerInv, Registering
<1>15. CASE UNCHANGED vars
  BY <1>s, <1>15 DEF vars, TypeOK, PCs, OwnerInv, Registering
<1> QED
  BY Zenon, <1>s, <1>1, <1>2, <1>3, <1>4, <1>5, <1>6, <1>7,
     <1>8, <1>9, <1>10, <1>11, <1>12, <1>13, <1>14, <1>15 DEF Next, LinkStep

(* Connection ids stay with their stream and device. *)
LEMMA NextOwnerInv ==
  TypeOK /\ OwnerInv /\ [Next]_vars
    => OwnerInv'
<1>s. SUFFICES ASSUME TypeOK, OwnerInv, [Next]_vars
               PROVE  OwnerInv'
  OBVIOUS
<1> USE SessionsAssumption DEF stateVars, loopVars, registerVars, Goto, Conns
<1>1. ASSUME NEW l \in Links, NEW d \in Devices, RegisterRefused(l, d) PROVE OwnerInv'
  BY <1>s, <1>1 DEF RegisterRefused, MayRegister, TypeOK, OwnerInv, Registering
<1>2. ASSUME NEW l \in Links, NEW d \in Devices, NEW p \in Conns \cup {None},
             Register(l, d, p)
      PROVE  OwnerInv'
  <2>1. /\ connection_id_counter \in Conns
        /\ owner[connection_id_counter] = None
        /\ owner' = [owner EXCEPT ![connection_id_counter] = <<l, d>>]
        /\ <<l, d>> # None
    BY <1>s, <1>2 DEF Register, TypeOK, OwnerInv
  <2>2. \A n \in Conns : owner[n] # None => owner'[n] = owner[n]
    BY <1>s, <2>1 DEF TypeOK
  <2>3. \A n \in Conns : owner'[n] # None <=> n < connection_id_counter'
    BY <1>s, <1>2, <2>1 DEF Register, TypeOK, OwnerInv
  <2>4. /\ \A m \in Links : connection_id'[m] # None <=> pc'[m] \in Registering
        /\ \A m \in Links : pc'[m] \notin {"loop", "closed"} => current_device_id'[m] # None
        /\ \A m \in Links : pc'[m] \in {"offline", "remove"} => current_connection_id'[m] # None
    BY <1>s, <1>2 DEF Register, MayRegister, TypeOK, OwnerInv, Registering
  <2>5. ASSUME NEW m \in Links, connection_id'[m] # None
        PROVE  owner'[connection_id'[m]] = <<m, current_device_id'[m]>>
    <3>1. CASE m = l
      BY <1>s, <1>2, <2>1, <3>1 DEF Register, MayRegister, TypeOK
    <3>2. CASE m # l
      <4>1. /\ connection_id'[m] = connection_id[m] /\ connection_id[m] \in Conns
            /\ current_device_id'[m] = current_device_id[m]
        BY <1>s, <1>2, <2>5, <3>2 DEF Register, MayRegister, TypeOK
      <4>2. owner[connection_id[m]] = <<m, current_device_id[m]>>
        BY Zenon, <1>s, <2>5, <4>1 DEF OwnerInv
      <4>3. current_device_id[m] # None
        BY <1>s, <2>5, <4>1 DEF OwnerInv, Registering
      <4>4. <<m, current_device_id[m]>> # None
        BY <1>s, <4>3 DEF TypeOK
      <4>5. connection_id[m] # connection_id_counter
        BY <4>2, <4>4, <2>1
      <4> QED
        BY <4>1, <4>2, <4>5, <2>1, <1>s DEF TypeOK
    <3> QED
      BY <3>1, <3>2
  <2>6. ASSUME NEW m \in Links, current_connection_id'[m] # None
        PROVE  /\ current_device_id'[m] # None
               /\ owner'[current_connection_id'[m]] # None
               /\ owner'[current_connection_id'[m]][1] = m
    BY <1>s, <1>2, <2>2, <2>6 DEF Register, MayRegister, TypeOK, OwnerInv
  <2>7. ASSUME NEW e \in Devices, sessions_by_device_id'[e] # None
        PROVE  /\ owner'[sessions_by_device_id'[e]] # None
               /\ owner'[sessions_by_device_id'[e]][2] = e
    BY <1>s, <1>2, <2>2, <2>7 DEF Register, TypeOK, OwnerInv
  <2> QED
    BY <2>3, <2>4, <2>5, <2>6, <2>7 DEF OwnerInv
<1>3. ASSUME NEW l \in Links, InsertSession(l) PROVE OwnerInv'
  <2>a. connection_id[l] # None /\ current_device_id[l] # None
    BY <1>s, <1>3 DEF InsertSession, OwnerInv, Registering
  <2>b. connection_id[l] \in Conns /\ current_device_id[l] \in Devices
    BY <1>s, <2>a DEF TypeOK
  <2>1. /\ owner[connection_id[l]] = <<l, current_device_id[l]>>
        /\ <<l, current_device_id[l]>> \in Links \X Devices
    BY <1>s, <2>a, <2>b DEF OwnerInv
  <2>2. \A e \in Devices : sessions_by_device_id'[e] =
          IF e = current_device_id[l] THEN connection_id[l] ELSE sessions_by_device_id[e]
    BY <1>s, <1>3, <2>b DEF InsertSession, TypeOK
  <2>3. owner[connection_id[l]] # None /\ owner[connection_id[l]][2] = current_device_id[l]
    BY <2>1
  <2>4. ASSUME NEW e \in Devices, sessions_by_device_id'[e] # None
        PROVE  /\ owner[sessions_by_device_id'[e]] # None
               /\ owner[sessions_by_device_id'[e]][2] = e
    BY <1>s, <2>2, <2>3, <2>4 DEF OwnerInv
  <2> QED
    BY <1>s, <1>3, <2>4 DEF InsertSession, TypeOK, OwnerInv, Registering
<1>4. ASSUME NEW l \in Links, RemovePrevious(l) PROVE OwnerInv'
  BY <1>s, <1>4 DEF RemovePrevious, TypeOK, OwnerInv, Registering
<1>5. ASSUME NEW l \in Links, InsertConnection(l) PROVE OwnerInv'
  BY <1>s, <1>5 DEF InsertConnection, TypeOK, OwnerInv, Registering
<1>6. ASSUME NEW l \in Links, PublishOnline(l) PROVE OwnerInv'
  <2>a. connection_id[l] # None /\ current_device_id[l] # None
    BY <1>s, <1>6 DEF PublishOnline, OwnerInv, Registering
  <2>b. connection_id[l] \in Conns /\ current_device_id[l] \in Devices
    BY <1>s, <2>a DEF TypeOK
  <2>1. /\ owner[connection_id[l]] = <<l, current_device_id[l]>>
        /\ <<l, current_device_id[l]>> \in Links \X Devices
    BY <1>s, <2>a, <2>b DEF OwnerInv
  <2>2. owner[connection_id[l]] # None /\ owner[connection_id[l]][1] = l
    BY <2>1
  <2>3. ASSUME NEW m \in Links, current_connection_id'[m] # None
        PROVE  /\ current_device_id[m] # None
               /\ owner[current_connection_id'[m]] # None
               /\ owner[current_connection_id'[m]][1] = m
    BY <1>s, <1>6, <2>a, <2>b, <2>2, <2>3 DEF PublishOnline, TypeOK, OwnerInv
  <2> QED
    BY <1>s, <1>6, <2>3 DEF PublishOnline, TypeOK, OwnerInv, Registering
<1>7. ASSUME NEW l \in Links, Heartbeat(l) PROVE OwnerInv'
  BY <1>s, <1>7 DEF Heartbeat, TypeOK, OwnerInv, Registering
<1>8. ASSUME NEW l \in Links, TouchDevice(l) PROVE OwnerInv'
  BY <1>s, <1>8 DEF TouchDevice, TypeOK, OwnerInv, Registering
<1>9. ASSUME NEW l \in Links, StreamEnd(l) PROVE OwnerInv'
  BY <1>s, <1>9 DEF StreamEnd, TypeOK, OwnerInv, Registering
<1>10. ASSUME NEW l \in Links, CheckSession(l) PROVE OwnerInv'
  BY <1>s, <1>10 DEF CheckSession, OwnsSession, TypeOK, OwnerInv, Registering
<1>11. ASSUME NEW l \in Links, PublishOffline(l) PROVE OwnerInv'
  BY <1>s, <1>11 DEF PublishOffline, TypeOK, OwnerInv, Registering
<1>12. ASSUME NEW l \in Links, RemoveSession(l) PROVE OwnerInv'
  <2>1. \A e \in Devices : sessions_by_device_id'[e] \in {sessions_by_device_id[e], None}
    BY <1>s, <1>12 DEF RemoveSession, TypeOK
  <2>2. \A m \in Links : pc'[m] = pc[m] \/ (m = l /\ pc'[m] \in {"closed", "forget"})
    BY <1>s, <1>12 DEF RemoveSession, TypeOK
  <2>3. pc[l] = "remove"
    BY <1>12 DEF RemoveSession
  <2> QED
    BY <1>s, <1>12, <2>1, <2>2, <2>3 DEF RemoveSession, OwnerInv, Registering
<1>13. ASSUME NEW l \in Links, ForgetConnection(l) PROVE OwnerInv'
  BY <1>s, <1>13 DEF ForgetConnection, TypeOK, OwnerInv, Registering
<1>14. ASSUME NEW l \in Links, ForgetLastSeen(l) PROVE OwnerInv'
  BY <1>s, <1>14 DEF ForgetLastSeen, TypeOK, OwnerInv, Registering
<1>15. CASE UNCHANGED vars
  BY <1>s, <1>15 DEF vars, TypeOK, OwnerInv, Registering
<1> QED
  BY Zenon, <1>s, <1>1, <1>2, <1>3, <1>4, <1>5, <1>6, <1>7,
     <1>8, <1>9, <1>10, <1>11, <1>12, <1>13, <1>14, <1>15 DEF Next, LinkStep

(* A replaced or removed connection id never is a session again. *)
LEMMA NextReplacedInv ==
  TypeOK /\ OwnerInv /\ ReplacedInv /\ [Next]_vars
    => ReplacedInv'
<1>s. SUFFICES ASSUME TypeOK, OwnerInv, ReplacedInv, [Next]_vars
               PROVE  ReplacedInv'
  OBVIOUS
<1> USE SessionsAssumption DEF stateVars, loopVars, registerVars, Goto, Conns
<1>1. ASSUME NEW l \in Links, NEW d \in Devices, RegisterRefused(l, d) PROVE ReplacedInv'
  BY <1>s, <1>1 DEF RegisterRefused, MayRegister, TypeOK, OwnerInv, Registering, ReplacedInv
<1>2. ASSUME NEW l \in Links, NEW d \in Devices, NEW p \in Conns \cup {None},
             Register(l, d, p)
      PROVE  ReplacedInv'
  BY <1>s, <1>2 DEF Register, MayRegister, TypeOK, OwnerInv, Registering, ReplacedInv
<1>3. ASSUME NEW l \in Links, InsertSession(l) PROVE ReplacedInv'
  <2>d. current_device_id[l] \in Devices
    BY <1>s, <1>3 DEF InsertSession, TypeOK, OwnerInv
  <2>1. \A e \in Devices : sessions_by_device_id'[e] =
          IF e = current_device_id[l] THEN connection_id[l] ELSE sessions_by_device_id[e]
    BY <1>s, <1>3, <2>d DEF InsertSession, TypeOK

  <2>2. \A m \in Links : pc'[m] = "insert" => m # l /\ pc[m] = "insert"
    BY <1>s, <1>3 DEF InsertSession, TypeOK
  <2>3. \A m \in Links : connection_id[m] = connection_id[l] /\ pc[m] = "insert" => m = l
    BY <1>s, <1>3 DEF InsertSession, TypeOK, OwnerInv, Registering
  <2>4. \A m \in Links : pc'[m] \in {"unlink", "forget"} /\ m # l =>
          pc[m] \in {"unlink", "forget"} /\ old'[m] = old[m]
    BY <1>s, <1>3 DEF InsertSession, TypeOK
  <2>5. pc'[l] \in {"unlink", "forget"} =>
          /\ old'[l] = sessions_by_device_id[current_device_id[l]]
          /\ old'[l] # None
    BY <1>s, <1>3 DEF InsertSession, Session, TypeOK
  <2>6. \A m \in Links : pc'[m] = "insert" =>
          \A e \in Devices : sessions_by_device_id'[e] # connection_id[m]
    BY <1>s, <1>3, <2>1, <2>2, <2>3 DEF ReplacedInv
  <2>7. ASSUME NEW m \in Links, pc'[m] \in {"unlink", "forget"}
        PROVE  /\ old'[m] # None /\ owner[old'[m]] # None
               /\ \A e \in Devices : sessions_by_device_id'[e] # old'[m]
               /\ \A k \in Links : pc'[k] = "insert" => old'[m] # connection_id[k]
    <3>1. CASE m = l
      <4>1. owner[old'[m]] # None /\ owner[old'[m]][2] = current_device_id[l]
        BY <1>s, <2>d, <2>5, <2>7, <3>1 DEF OwnerInv
      <4>2. \A e \in Devices : sessions_by_device_id[e] = old'[m] => e = current_device_id[l]
        BY <1>s, <4>1, <2>5, <2>7, <3>1 DEF OwnerInv
      <4>3. old'[m] # connection_id[l]
        BY <1>s, <1>3, <2>d, <2>5, <2>7, <3>1 DEF InsertSession, ReplacedInv
      <4> QED
        BY <1>s, <2>1, <2>2, <2>d, <2>5, <2>7, <3>1, <4>1, <4>2, <4>3 DEF ReplacedInv
    <3>2. CASE m # l
      BY <1>s, <1>3, <2>1, <2>2, <2>4, <2>7, <3>2 DEF InsertSession, ReplacedInv
    <3> QED
      BY <3>1, <3>2
  <2> QED
    BY <1>3, <2>6, <2>7 DEF InsertSession, ReplacedInv
<1>4. ASSUME NEW l \in Links, RemovePrevious(l) PROVE ReplacedInv'
  BY <1>s, <1>4 DEF RemovePrevious, TypeOK, OwnerInv, Registering, ReplacedInv
<1>5. ASSUME NEW l \in Links, InsertConnection(l) PROVE ReplacedInv'
  BY <1>s, <1>5 DEF InsertConnection, TypeOK, OwnerInv, Registering, ReplacedInv
<1>6. ASSUME NEW l \in Links, PublishOnline(l) PROVE ReplacedInv'
  BY <1>s, <1>6 DEF PublishOnline, TypeOK, OwnerInv, Registering, ReplacedInv
<1>7. ASSUME NEW l \in Links, Heartbeat(l) PROVE ReplacedInv'
  BY <1>s, <1>7 DEF Heartbeat, TypeOK, OwnerInv, Registering, ReplacedInv
<1>8. ASSUME NEW l \in Links, TouchDevice(l) PROVE ReplacedInv'
  BY <1>s, <1>8 DEF TouchDevice, TypeOK, OwnerInv, Registering, ReplacedInv
<1>9. ASSUME NEW l \in Links, StreamEnd(l) PROVE ReplacedInv'
  BY <1>s, <1>9 DEF StreamEnd, TypeOK, OwnerInv, Registering, ReplacedInv
<1>10. ASSUME NEW l \in Links, CheckSession(l) PROVE ReplacedInv'
  BY <1>s, <1>10 DEF CheckSession, OwnsSession, TypeOK, OwnerInv, Registering, ReplacedInv
<1>11. ASSUME NEW l \in Links, PublishOffline(l) PROVE ReplacedInv'
  BY <1>s, <1>11 DEF PublishOffline, TypeOK, OwnerInv, Registering, ReplacedInv
<1>12. ASSUME NEW l \in Links, RemoveSession(l) PROVE ReplacedInv'
  <2>d. current_device_id[l] \in Devices
    BY <1>s, <1>12 DEF RemoveSession, TypeOK, OwnerInv
  <2>1. \A e \in Devices : sessions_by_device_id'[e] =
          IF e = current_device_id[l] THEN None ELSE sessions_by_device_id[e]
    BY <1>s, <1>12, <2>d DEF RemoveSession, TypeOK

  <2>2. \A m \in Links : pc'[m] = "insert" => pc[m] = "insert"
    BY <1>s, <1>12 DEF RemoveSession, TypeOK
  <2>3. \A m \in Links : connection_id[m] # None \/ pc[m] # "insert"
    BY <1>s DEF OwnerInv, Registering
  <2>4. \A m \in Links : pc'[m] \in {"unlink", "forget"} /\ m # l =>
          pc[m] \in {"unlink", "forget"} /\ old'[m] = old[m]
    BY <1>s, <1>12 DEF RemoveSession, TypeOK
  <2>5. pc'[l] \in {"unlink", "forget"} =>
          /\ old'[l] = sessions_by_device_id[current_device_id[l]]
          /\ old'[l] # None
    BY <1>s, <1>12 DEF RemoveSession, Session, TypeOK
  <2>6. \A m \in Links : pc'[m] = "insert" =>
          \A e \in Devices : sessions_by_device_id'[e] # connection_id[m]
    BY <1>s, <1>12, <2>1, <2>2, <2>3 DEF ReplacedInv
  <2>7. ASSUME NEW m \in Links, pc'[m] \in {"unlink", "forget"}
        PROVE  /\ old'[m] # None /\ owner[old'[m]] # None
               /\ \A e \in Devices : sessions_by_device_id'[e] # old'[m]
               /\ \A k \in Links : pc'[k] = "insert" => old'[m] # connection_id[k]
    <3>1. CASE m = l
      <4>1. owner[old'[m]] # None /\ owner[old'[m]][2] = current_device_id[l]
        BY <1>s, <2>d, <2>5, <2>7, <3>1 DEF OwnerInv
      <4>2. \A e \in Devices : sessions_by_device_id[e] = old'[m] => e = current_device_id[l]
        BY <1>s, <4>1, <2>5, <2>7, <3>1 DEF OwnerInv
      <4> QED
        BY <1>s, <2>1, <2>2, <2>d, <2>5, <2>7, <3>1, <4>1, <4>2 DEF ReplacedInv
    <3>2. CASE m # l
      BY <1>s, <1>12, <2>1, <2>2, <2>4, <2>7, <3>2 DEF RemoveSession, ReplacedInv
    <3> QED
      BY <3>1, <3>2
  <2> QED
    BY <1>12, <2>6, <2>7 DEF RemoveSession, ReplacedInv
<1>13. ASSUME NEW l \in Links, ForgetConnection(l) PROVE ReplacedInv'
  BY <1>s, <1>13 DEF ForgetConnection, TypeOK, OwnerInv, Registering, ReplacedInv
<1>14. ASSUME NEW l \in Links, ForgetLastSeen(l) PROVE ReplacedInv'
  BY <1>s, <1>14 DEF ForgetLastSeen, TypeOK, OwnerInv, Registering, ReplacedInv
<1>15. CASE UNCHANGED vars
  BY <1>s, <1>15 DEF vars, TypeOK, OwnerInv, Registering, ReplacedInv
<1> QED
  BY Zenon, <1>s, <1>1, <1>2, <1>3, <1>4, <1>5, <1>6, <1>7,
     <1>8, <1>9, <1>10, <1>11, <1>12, <1>13, <1>14, <1>15 DEF Next, LinkStep

(* The connection of a session is known. *)
LEMMA NextKnown ==
  TypeOK /\ OwnerInv /\ ReplacedInv /\ SessionConnectionKnown /\ [Next]_vars
    => SessionConnectionKnown'
<1>s. SUFFICES ASSUME TypeOK, OwnerInv, ReplacedInv, SessionConnectionKnown, [Next]_vars
               PROVE  SessionConnectionKnown'
  OBVIOUS
<1> USE SessionsAssumption DEF stateVars, loopVars, registerVars, Goto, Conns
<1>1. ASSUME NEW l \in Links, NEW d \in Devices, RegisterRefused(l, d) PROVE SessionConnectionKnown'
  BY <1>s, <1>1 DEF RegisterRefused, MayRegister, TypeOK, OwnerInv, Registering, ReplacedInv,
                     SessionConnectionKnown
<1>2. ASSUME NEW l \in Links, NEW d \in Devices, NEW p \in Conns \cup {None},
             Register(l, d, p)
      PROVE  SessionConnectionKnown'
  BY <1>s, <1>2 DEF Register, MayRegister, TypeOK, OwnerInv, Registering, ReplacedInv,
                     SessionConnectionKnown
<1>3. ASSUME NEW l \in Links, InsertSession(l) PROVE SessionConnectionKnown'
  BY <1>s, <1>3 DEF InsertSession, Session, TypeOK, OwnerInv, Registering, ReplacedInv,
                     SessionConnectionKnown
<1>4. ASSUME NEW l \in Links, RemovePrevious(l) PROVE SessionConnectionKnown'
  BY <1>s, <1>4 DEF RemovePrevious, TypeOK, OwnerInv, Registering, ReplacedInv,
                     SessionConnectionKnown
<1>5. ASSUME NEW l \in Links, InsertConnection(l) PROVE SessionConnectionKnown'
  BY <1>s, <1>5 DEF InsertConnection, TypeOK, OwnerInv, Registering, ReplacedInv,
                     SessionConnectionKnown
<1>6. ASSUME NEW l \in Links, PublishOnline(l) PROVE SessionConnectionKnown'
  BY <1>s, <1>6 DEF PublishOnline, TypeOK, OwnerInv, Registering, ReplacedInv,
                     SessionConnectionKnown
<1>7. ASSUME NEW l \in Links, Heartbeat(l) PROVE SessionConnectionKnown'
  BY <1>s, <1>7 DEF Heartbeat, TypeOK, OwnerInv, Registering, ReplacedInv,
                     SessionConnectionKnown
<1>8. ASSUME NEW l \in Links, TouchDevice(l) PROVE SessionConnectionKnown'
  BY <1>s, <1>8 DEF TouchDevice, TypeOK, OwnerInv, Registering, ReplacedInv,
                     SessionConnectionKnown
<1>9. ASSUME NEW l \in Links, StreamEnd(l) PROVE SessionConnectionKnown'
  BY <1>s, <1>9 DEF StreamEnd, TypeOK, OwnerInv, Registering, ReplacedInv,
                     SessionConnectionKnown
<1>10. ASSUME NEW l \in Links, CheckSession(l) PROVE SessionConnectionKnown'
  BY <1>s, <1>10 DEF CheckSession, OwnsSession, TypeOK, OwnerInv, Registering, ReplacedInv,
                     SessionConnectionKnown
<1>11. ASSUME NEW l \in Links, PublishOffline(l) PROVE SessionConnectionKnown'
  BY <1>s, <1>11 DEF PublishOffline, TypeOK, OwnerInv, Registering, ReplacedInv,
                     SessionConnectionKnown
<1>12. ASSUME NEW l \in Links, RemoveSession(l) PROVE SessionConnectionKnown'
  <2>1. \A e \in Devices : sessions_by_device_id'[e] \in {sessions_by_device_id[e], None}
    BY <1>s, <1>12 DEF RemoveSession, TypeOK
  <2>2. \A m \in Links : pc[m] \in {"unlink", "link"} => pc'[m] = pc[m]
    BY <1>s, <1>12 DEF RemoveSession, TypeOK
  <2>3. UNCHANGED <<connection_to_device_id, connection_id>>
    BY <1>12 DEF RemoveSession
  <2>4. ASSUME NEW e \in Devices, sessions_by_device_id'[e] # None
        PROVE  \/ connection_to_device_id'[sessions_by_device_id'[e]] = e
               \/ \E m \in Links : /\ pc'[m] \in {"unlink", "link"}
                                   /\ connection_id'[m] = sessions_by_device_id'[e]
    <3>1. sessions_by_device_id'[e] = sessions_by_device_id[e]
      BY <2>1, <2>4
    <3>2. \/ connection_to_device_id[sessions_by_device_id[e]] = e
          \/ \E m \in Links : /\ pc[m] \in {"unlink", "link"}
                              /\ connection_id[m] = sessions_by_device_id[e]
      BY <1>s, <2>4, <3>1 DEF SessionConnectionKnown
    <3> QED
      BY <2>2, <2>3, <3>1, <3>2
  <2> QED
    BY <2>4 DEF SessionConnectionKnown
<1>13. ASSUME NEW l \in Links, ForgetConnection(l) PROVE SessionConnectionKnown'
  <2>1. \A e \in Devices : sessions_by_device_id[e] # old[l]
    BY <1>s, <1>13 DEF ForgetConnection, ReplacedInv
  <2>2. \A e \in Devices : sessions_by_device_id[e] # None =>
          connection_to_device_id'[sessions_by_device_id[e]]
            = connection_to_device_id[sessions_by_device_id[e]]
    BY <1>s, <1>13, <2>1 DEF ForgetConnection, TypeOK
  <2>3. \A m \in Links : pc[m] \in {"unlink", "link"} => pc'[m] = pc[m]
    BY <1>s, <1>13 DEF ForgetConnection, TypeOK
  <2> QED
    BY <1>s, <1>13, <2>2, <2>3 DEF ForgetConnection, SessionConnectionKnown
<1>14. ASSUME NEW l \in Links, ForgetLastSeen(l) PROVE SessionConnectionKnown'
  BY <1>s, <1>14 DEF ForgetLastSeen, TypeOK, OwnerInv, Registering, ReplacedInv,
                     SessionConnectionKnown
<1>15. CASE UNCHANGED vars
  BY <1>s, <1>15 DEF vars, TypeOK, OwnerInv, Registering, ReplacedInv,
                     SessionConnectionKnown
<1> QED
  BY Zenon, <1>s, <1>1, <1>2, <1>3, <1>4, <1>5, <1>6, <1>7,
     <1>8, <1>9, <1>10, <1>11, <1>12, <1>13, <1>14, <1>15 DEF Next, LinkStep

(* A session is a connection of some stream, made for its device. *)
LEMMA SessionOwned ==
  ASSUME TypeOK, OwnerInv, NEW e \in Devices, sessions_by_device_id[e] # None
  PROVE  /\ sessions_by_device_id[e] \in Conns
         /\ owner[sessions_by_device_id[e]][1] \in Links
         /\ owner[sessions_by_device_id[e]][2] = e
BY DEF TypeOK, OwnerInv

(* A step that makes no connection, inserts no session and publishes       *)
(* nothing keeps ServedInv if the streams of the sessions that are left    *)
(* serve them still and the streams that have ended do not come back.      *)
LEMMA KeepsServed ==
  ASSUME TypeOK, ServedInv, UNCHANGED <<owner, presence>>,
         \A m \in Links : current_connection_id'[m] # None =>
           owner[current_connection_id'[m]][2] = current_device_id'[m],
         \A e \in Devices, m \in Links, n \in Conns :
           sessions_by_device_id'[e] = n /\ owner[n][1] = m => Serves(m, n)',
         \A m \in Links : pc[m] \in Ended => pc'[m] \in Ended
  PROVE  ServedInv'
<1>1. \A n \in Conns : owner[n] # None => owner[n][1] \in Links
  BY DEF TypeOK
<1>2. \A d \in Devices, n \in Conns : presence'[d] = <<"offline", n>> =>
        owner[n] # None /\ pc'[owner[n][1]] \in Ended
  BY <1>1 DEF ServedInv
<1> QED
  BY <1>2 DEF ServedInv

(* In particular a step of handlers that keep serving what they serve. *)
LEMMA MoveKeepsServed ==
  ASSUME TypeOK, ServedInv,
         UNCHANGED <<sessions_by_device_id, owner, presence, loopVars>>,
         \A m \in Links, n \in Conns : Serves(m, n) => Serves(m, n)',
         \A m \in Links : pc[m] \in Ended => pc'[m] \in Ended
  PROVE  ServedInv'
<1>1. \A e \in Devices, m \in Links, n \in Conns :
        sessions_by_device_id'[e] = n /\ owner[n][1] = m => Serves(m, n)'
  BY DEF ServedInv
<1>2. \A m \in Links : current_connection_id'[m] # None =>
        owner[current_connection_id'[m]][2] = current_device_id'[m]
  BY DEF ServedInv, loopVars
<1> QED
  BY <1>1, <1>2, KeepsServed

(* A session's stream is there to remove it. *)
LEMMA NextServedInv ==
  ~MaySwitchDevice /\ TypeOK /\ OwnerInv /\ ReplacedInv /\ ServedInv /\ [Next]_vars
    => ServedInv'
<1>s. SUFFICES ASSUME ~MaySwitchDevice, TypeOK, OwnerInv, ReplacedInv, ServedInv, [Next]_vars
               PROVE  ServedInv'
  OBVIOUS
<1> USE SessionsAssumption DEF stateVars, loopVars, registerVars, Goto, Conns
<1>1. ASSUME NEW l \in Links, NEW d \in Devices, RegisterRefused(l, d) PROVE ServedInv'
  <2>1. \A m \in Links, n \in Conns : Serves(m, n) => Serves(m, n)'
    BY <1>s, <1>1 DEF RegisterRefused, MayRegister, TypeOK, Serves
  <2>2. \A m \in Links : pc[m] \in Ended => pc'[m] \in Ended
    BY <1>s, <1>1 DEF RegisterRefused, MayRegister, TypeOK, Ended
  <2>3. \A m \in Links : current_connection_id[m] # None =>
          current_device_id'[m] = current_device_id[m]
    BY <1>s, <1>1 DEF RegisterRefused, MayRegister, TypeOK, OwnerInv
  <2>4. \A e \in Devices, m \in Links, n \in Conns :
          sessions_by_device_id'[e] = n /\ owner[n][1] = m => Serves(m, n)'
    BY <1>s, <1>1, <2>1 DEF RegisterRefused, ServedInv
  <2>5. \A m \in Links : current_connection_id'[m] # None =>
          owner[current_connection_id'[m]][2] = current_device_id'[m]
    BY <1>s, <1>1, <2>3 DEF RegisterRefused, ServedInv
  <2> QED
    BY <1>s, <1>1, <2>2, <2>4, <2>5, KeepsServed DEF RegisterRefused
<1>2. ASSUME NEW l \in Links, NEW d \in Devices, NEW p \in Conns \cup {None},
             Register(l, d, p)
      PROVE  ServedInv'
  <2>1. \A n \in Conns : owner[n] # None => owner'[n] = owner[n]
    BY <1>s, <1>2 DEF Register, TypeOK, OwnerInv
  <2>2. \A m \in Links, n \in Conns : Serves(m, n) => Serves(m, n)'
    BY <1>s, <1>2 DEF Register, MayRegister, TypeOK, Serves
  <2>3. \A m \in Links : pc[m] \in Ended => pc'[m] \in Ended
    BY <1>s, <1>2 DEF Register, MayRegister, TypeOK, Ended
  <2>4. \A m \in Links : current_connection_id[m] # None =>
          /\ current_device_id'[m] = current_device_id[m]
          /\ owner'[current_connection_id[m]] = owner[current_connection_id[m]]
    BY <1>s, <1>2, <2>1 DEF Register, MayRegister, TypeOK, OwnerInv
  <2>5. ASSUME NEW e \in Devices, NEW m \in Links, NEW n \in Conns,
               sessions_by_device_id[e] = n, owner'[n][1] = m
        PROVE  Serves(m, n)'
    <3>1. n # None /\ owner[n] # None
      BY <1>s, <2>5 DEF OwnerInv
    <3> QED
      BY <1>s, <2>1, <2>2, <2>5, <3>1 DEF ServedInv
  <2>6. ASSUME NEW e \in Devices, NEW n \in Conns, presence[e] = <<"offline", n>>
        PROVE  owner'[n] # None /\ pc'[owner'[n][1]] \in Ended
    <3>1. owner[n] # None /\ owner[n][1] \in Links /\ pc[owner[n][1]] \in Ended
      BY <1>s, <2>6 DEF ServedInv, TypeOK
    <3> QED
      BY <2>1, <2>3, <3>1
  <2> QED
    BY <1>s, <1>2, <2>4, <2>5, <2>6 DEF Register, ServedInv
<1>3. ASSUME NEW l \in Links, InsertSession(l) PROVE ServedInv'
  <2>a. connection_id[l] # None /\ current_device_id[l] # None
    BY <1>s, <1>3 DEF InsertSession, OwnerInv, Registering
  <2>b. /\ connection_id[l] \in Conns /\ current_device_id[l] \in Devices
        /\ owner[connection_id[l]] = <<l, current_device_id[l]>>
    BY <1>s, <2>a DEF TypeOK, OwnerInv
  <2>1. \A e \in Devices : sessions_by_device_id'[e] =
          IF e = current_device_id[l] THEN connection_id[l] ELSE sessions_by_device_id[e]
    BY <1>s, <1>3, <2>b DEF InsertSession, TypeOK
  <2>2. \A n \in Conns : n = connection_id[l] => Serves(l, n)'
    BY <1>s, <1>3 DEF InsertSession, TypeOK, Serves
  <2>3. \A m \in Links \ {l}, n \in Conns : Serves(m, n) => Serves(m, n)'
    BY <1>s, <1>3 DEF InsertSession, TypeOK, Serves
  (* The session that l served before, if any, was its device's, and is replaced. *)
  <2>5. ASSUME NEW e \in Devices, NEW m \in Links, NEW n \in Conns,
               sessions_by_device_id'[e] = n, owner[n][1] = m
        PROVE  Serves(m, n)'
    <3>1. CASE e = current_device_id[l]
      BY <2>1, <2>2, <2>5, <2>b, <3>1
    <3>2. CASE e # current_device_id[l]
      <4>1. sessions_by_device_id[e] = n /\ Serves(m, n)
        BY <1>s, <2>1, <2>5, <3>2 DEF ServedInv
      <4>2. n # None /\ owner[n][2] = e
        BY <1>s, <4>1 DEF OwnerInv
      <4>3. m # l
        BY <1>s, <1>3, <4>1, <4>2, <3>2 DEF InsertSession, Serves, ServedInv
      <4> QED
        BY <2>3, <4>1, <4>3
    <3> QED
      BY <3>1, <3>2
  <2>6. \A m \in Links : pc[m] \in Ended => pc'[m] \in Ended
    BY <1>s, <1>3 DEF InsertSession, TypeOK, Ended
  <2>7. \A e \in Devices, n \in Conns : presence[e] = <<"offline", n>> =>
          owner[n] # None /\ pc'[owner[n][1]] \in Ended
    BY <1>s, <2>6 DEF ServedInv, TypeOK
  <2> QED
    BY <1>s, <1>3, <2>5, <2>7 DEF InsertSession, ServedInv
<1>4. ASSUME NEW l \in Links, RemovePrevious(l) PROVE ServedInv'
  <2>1. \A m \in Links, n \in Conns : Serves(m, n) => Serves(m, n)'
    BY <1>s, <1>4 DEF RemovePrevious, TypeOK, Serves
  <2>2. \A m \in Links : pc[m] \in Ended => pc'[m] \in Ended
    BY <1>s, <1>4 DEF RemovePrevious, TypeOK, Ended
  <2> QED
    BY <1>s, <1>4, <2>1, <2>2, MoveKeepsServed DEF RemovePrevious
<1>5. ASSUME NEW l \in Links, InsertConnection(l) PROVE ServedInv'
  <2>1. \A m \in Links, n \in Conns : Serves(m, n) => Serves(m, n)'
    BY <1>s, <1>5 DEF InsertConnection, TypeOK, Serves
  <2>2. \A m \in Links : pc[m] \in Ended => pc'[m] \in Ended
    BY <1>s, <1>5 DEF InsertConnection, TypeOK, Ended
  <2> QED
    BY <1>s, <1>5, <2>1, <2>2, MoveKeepsServed DEF InsertConnection
<1>6. ASSUME NEW l \in Links, PublishOnline(l) PROVE ServedInv'
  <2>a. connection_id[l] # None /\ current_device_id[l] # None
    BY <1>s, <1>6 DEF PublishOnline, OwnerInv, Registering
  <2>b. /\ connection_id[l] \in Conns
        /\ owner[connection_id[l]] = <<l, current_device_id[l]>>
    BY <1>s, <2>a DEF TypeOK, OwnerInv
  <2>1. \A m \in Links : current_connection_id'[m] # None =>
          owner[current_connection_id'[m]][2] = current_device_id[m]
    BY <1>s, <1>6, <2>b DEF PublishOnline, TypeOK, ServedInv
  <2>2. \A m \in Links, n \in Conns : Serves(m, n) => Serves(m, n)'
    BY <1>s, <1>6 DEF PublishOnline, TypeOK, Serves
  <2>4. \A e \in Devices, m \in Links, n \in Conns :
          sessions_by_device_id[e] = n /\ owner[n][1] = m => Serves(m, n)'
    BY <1>s, <2>2 DEF ServedInv
  <2>5. ASSUME NEW e \in Devices, NEW n \in Conns, presence'[e] = <<"offline", n>>
        PROVE  /\ owner[n] # None
               /\ pc'[owner[n][1]] \in Ended
    <3>1. presence[e] = <<"offline", n>>
      BY <1>s, <1>6, <2>5 DEF PublishOnline, TypeOK
    <3>2. owner[n] # None /\ pc[owner[n][1]] \in Ended
      BY <1>s, <3>1 DEF ServedInv
    <3> QED
      BY <1>s, <1>6, <3>2 DEF PublishOnline, TypeOK, Ended, Ended
  <2> QED
    BY <1>6, <2>1, <2>4, <2>5 DEF PublishOnline, ServedInv
<1>7. ASSUME NEW l \in Links, Heartbeat(l) PROVE ServedInv'
  <2>1. \A m \in Links, n \in Conns : Serves(m, n) => Serves(m, n)'
    BY <1>s, <1>7 DEF Heartbeat, TypeOK, Serves
  <2>2. \A m \in Links : pc[m] \in Ended => pc'[m] \in Ended
    BY <1>s, <1>7 DEF Heartbeat, TypeOK, Ended
  <2> QED
    BY <1>s, <1>7, <2>1, <2>2, MoveKeepsServed DEF Heartbeat
<1>8. ASSUME NEW l \in Links, TouchDevice(l) PROVE ServedInv'
  <2>1. \A m \in Links, n \in Conns : Serves(m, n) => Serves(m, n)'
    BY <1>s, <1>8 DEF TouchDevice, TypeOK, Serves
  <2>2. \A m \in Links : pc[m] \in Ended => pc'[m] \in Ended
    BY <1>s, <1>8 DEF TouchDevice, TypeOK, Ended
  <2> QED
    BY <1>s, <1>8, <2>1, <2>2, MoveKeepsServed DEF TouchDevice
<1>9. ASSUME NEW l \in Links, StreamEnd(l) PROVE ServedInv'
  <2>1. \A m \in Links, n \in Conns : Serves(m, n) => Serves(m, n)'
    BY <1>s, <1>9 DEF StreamEnd, TypeOK, Serves, OwnerInv
  <2>2. \A m \in Links : pc[m] \in Ended => pc'[m] \in Ended
    BY <1>s, <1>9 DEF StreamEnd, TypeOK, Ended
  <2> QED
    BY <1>s, <1>9, <2>1, <2>2, MoveKeepsServed DEF StreamEnd
<1>10. ASSUME NEW l \in Links, CheckSession(l) PROVE ServedInv'
  <2>1. \A m \in Links \ {l}, n \in Conns : Serves(m, n) => Serves(m, n)'
    BY <1>s, <1>10 DEF CheckSession, TypeOK, Serves
  <2>2. \A m \in Links : pc[m] \in Ended => pc'[m] \in Ended
    BY <1>s, <1>10 DEF CheckSession, TypeOK, Ended
  (* A session that l serves is its device's, and l finds that it owns it. *)
  <2>3. ASSUME NEW e \in Devices, NEW m \in Links, NEW n \in Conns,
               sessions_by_device_id'[e] = n, owner[n][1] = m
        PROVE  Serves(m, n)'
    <3>1. sessions_by_device_id[e] = n /\ Serves(m, n)
      BY <1>s, <1>10, <2>3 DEF CheckSession, ServedInv
    <3>2. CASE m = l
      <4>1. current_connection_id[l] = n
        BY <1>10, <3>1, <3>2 DEF CheckSession, Serves
      <4>2. current_device_id[l] = e
        BY <1>s, <3>1, <4>1 DEF ServedInv, OwnerInv
      <4>3. pc'[l] = "offline"
        BY <1>s, <1>10, <3>1, <4>1, <4>2 DEF CheckSession, OwnsSession, Session, TypeOK
      <4> QED
        BY <1>10, <3>2, <4>1, <4>3 DEF CheckSession, Serves
    <3>3. CASE m # l
      BY <2>1, <3>1, <3>3
    <3> QED
      BY <3>2, <3>3
  <2>4. \A m \in Links : current_connection_id'[m] # None =>
          owner[current_connection_id'[m]][2] = current_device_id'[m]
    BY <1>s, <1>10 DEF CheckSession, ServedInv
  <2> QED
    BY <1>s, <1>10, <2>2, <2>3, <2>4, KeepsServed DEF CheckSession
<1>11. ASSUME NEW l \in Links, PublishOffline(l) PROVE ServedInv'
  <2>a. current_connection_id[l] # None /\ current_device_id[l] # None
    BY <1>s, <1>11 DEF PublishOffline, OwnerInv
  <2>b. /\ current_connection_id[l] \in Conns /\ current_device_id[l] \in Devices
        /\ owner[current_connection_id[l]] # None
        /\ owner[current_connection_id[l]][1] = l
    BY <1>s, <2>a DEF TypeOK, OwnerInv
  <2>1. \A m \in Links, n \in Conns : Serves(m, n) => Serves(m, n)'
    BY <1>s, <1>11 DEF PublishOffline, TypeOK, Serves
  <2>3. \A e \in Devices, m \in Links, n \in Conns :
          sessions_by_device_id[e] = n /\ owner[n][1] = m => Serves(m, n)'
    BY <1>s, <2>1 DEF ServedInv
  <2>4. ASSUME NEW e \in Devices, NEW n \in Conns, presence'[e] = <<"offline", n>>
        PROVE  /\ owner[n] # None
               /\ pc'[owner[n][1]] \in Ended
    <3>1. \/ presence[e] = <<"offline", n>>
          \/ n = current_connection_id[l]
      BY <1>s, <1>11, <2>4 DEF PublishOffline, TypeOK
    <3>2. CASE presence[e] = <<"offline", n>>
      <4>1. owner[n] # None /\ pc[owner[n][1]] \in Ended
        BY <1>s, <3>2 DEF ServedInv
      <4> QED
        BY <1>s, <1>11, <4>1 DEF PublishOffline, TypeOK, Ended
    <3>3. CASE n = current_connection_id[l]
      BY <1>s, <1>11, <2>b, <3>3 DEF PublishOffline, TypeOK, Ended
    <3> QED
      BY <3>1, <3>2, <3>3
  <2> QED
    BY <1>s, <1>11, <2>3, <2>4 DEF PublishOffline, ServedInv
<1>12. ASSUME NEW l \in Links, RemoveSession(l) PROVE ServedInv'
  <2>d. current_device_id[l] \in Devices
    BY <1>s, <1>12 DEF RemoveSession, TypeOK, OwnerInv
  <2>1. \A e \in Devices : sessions_by_device_id'[e] =
          IF e = current_device_id[l] THEN None ELSE sessions_by_device_id[e]
    BY <1>s, <1>12, <2>d DEF RemoveSession, TypeOK
  <2>2. \A m \in Links : pc[m] \in Ended => pc'[m] \in Ended
    BY <1>s, <1>12 DEF RemoveSession, TypeOK, Ended
  <2>3. \A m \in Links \ {l}, n \in Conns : Serves(m, n) => Serves(m, n)'
    BY <1>s, <1>12 DEF RemoveSession, TypeOK, Serves
  <2>4. ASSUME NEW e \in Devices, NEW m \in Links, NEW n \in Conns,
               sessions_by_device_id'[e] = n, owner[n][1] = m
        PROVE  Serves(m, n)'
    <3>1. e # current_device_id[l] /\ sessions_by_device_id[e] = n /\ Serves(m, n)
      BY <1>s, <2>1, <2>4 DEF ServedInv
    <3>2. n # None /\ owner[n][2] = e
      BY <1>s, <3>1 DEF OwnerInv
    <3>3. m # l
      BY <1>s, <1>12, <3>1, <3>2 DEF RemoveSession, Serves, ServedInv
    <3> QED
      BY <2>3, <3>1, <3>3
  <2>5. \A m \in Links : current_connection_id'[m] # None =>
          owner[current_connection_id'[m]][2] = current_device_id'[m]
    BY <1>s, <1>12 DEF RemoveSession, ServedInv
  <2> QED
    BY <1>s, <1>12, <2>2, <2>4, <2>5, KeepsServed DEF RemoveSession
<1>13. ASSUME NEW l \in Links, ForgetConnection(l) PROVE ServedInv'
  <2>1. \A m \in Links, n \in Conns : Serves(m, n) => Serves(m, n)'
    BY <1>s, <1>13 DEF ForgetConnection, TypeOK, Serves
  <2>2. \A m \in Links : pc[m] \in Ended => pc'[m] \in Ended
    BY <1>s, <1>13 DEF ForgetConnection, TypeOK, Ended
  <2> QED
    BY <1>s, <1>13, <2>1, <2>2, MoveKeepsServed DEF ForgetConnection
<1>14. ASSUME NEW l \in Links, ForgetLastSeen(l) PROVE ServedInv'
  <2>1. \A m \in Links, n \in Conns : Serves(m, n) => Serves(m, n)'
    BY <1>s, <1>14 DEF ForgetLastSeen, TypeOK, Serves
  <2>2. \A m \in Links : pc[m] \in Ended => pc'[m] \in Ended
    BY <1>s, <1>14 DEF ForgetLastSeen, TypeOK, Ended
  <2> QED
    BY <1>s, <1>14, <2>1, <2>2, MoveKeepsServed DEF ForgetLastSeen
<1>15. CASE UNCHANGED vars
  BY <1>s, <1>15, MoveKeepsServed DEF vars, Serves
<1> QED
  BY Zenon, <1>s, <1>1, <1>2, <1>3, <1>4, <1>5, <1>6, <1>7,
     <1>8, <1>9, <1>10, <1>11, <1>12, <1>13, <1>14, <1>15 DEF Next, LinkStep

(* While a device's session exists, its connection id resolves to that     *)
(* device, or its stream is about to insert it: no concurrent registration *)
(* or teardown takes it away (state.rs, register and                       *)
(* remove_device_session).  Streams may even switch devices.               *)
THEOREM SessionsAreConnected == Spec => []SessionConnectionKnown
<1> DEFINE I == TypeOK /\ OwnerInv /\ ReplacedInv /\ SessionConnectionKnown
<1>1. Init => I
  BY InitInv
<1>2. I /\ [Next]_vars => I'
  BY NextTypeOK, NextOwnerInv, NextReplacedInv, NextKnown
<1>3. I => SessionConnectionKnown
  OBVIOUS
<1> HIDE DEF I
<1> QED
  BY <1>1, <1>2, <1>3, PTL DEF Spec

(* The invariants of streams that stay with their device. *)
LEMMA ServedInvariant ==
  ASSUME ~MaySwitchDevice
  PROVE  Spec => [](TypeOK /\ OwnerInv /\ ServedInv)
<1> DEFINE I == TypeOK /\ OwnerInv /\ ReplacedInv /\ ServedInv
<1>1. Init => I
  BY InitInv
<1>2. I /\ [Next]_vars => I'
  BY NextTypeOK, NextOwnerInv, NextReplacedInv, NextServedInv
<1>3. I => TypeOK /\ OwnerInv /\ ServedInv
  OBVIOUS
<1> HIDE DEF I
<1> QED
  BY <1>1, <1>2, <1>3, PTL DEF Spec

(* If no stream switches devices, a finished handler                       *)
(* (run_device_connect_stream) leaves no session of its own behind,        *)
(* whatever other streams of the device do meanwhile.                      *)
THEOREM NoSessionOutlives ==
  ASSUME ~MaySwitchDevice
  PROVE  Spec => []NoGhostSession
<1>1. TypeOK /\ OwnerInv /\ ServedInv => NoGhostSession
  <2>1. SUFFICES ASSUME TypeOK, OwnerInv, ServedInv,
                        NEW d \in Devices, sessions_by_device_id[d] # None
                 PROVE  /\ owner[sessions_by_device_id[d]] # None
                        /\ pc[owner[sessions_by_device_id[d]][1]] # "closed"
    BY DEF NoGhostSession
  <2>2. Serves(owner[sessions_by_device_id[d]][1], sessions_by_device_id[d])
    BY <2>1, SessionOwned DEF ServedInv
  <2> QED
    BY <2>1, <2>2 DEF OwnerInv, Serves
<1> QED
  BY <1>1, ServedInvariant, PTL

(* If no stream switches devices, an offline event names the connection of *)
(* an open session only while the stream that published it is about to     *)
(* remove that session.                                                    *)
THEOREM OfflineStays ==
  ASSUME ~MaySwitchDevice
  PROVE  Spec => []OfflineIsFinal
<1>1. TypeOK /\ OwnerInv /\ ServedInv => OfflineIsFinal
  <2>1. SUFFICES ASSUME TypeOK, OwnerInv, ServedInv,
                        NEW d \in Devices, NEW n \in Conns,
                        presence[d] = <<"offline", n>>, sessions_by_device_id[d] = n
                 PROVE  pc[owner[n][1]] = "remove"
    BY DEF OfflineIsFinal
  <2>2. n # None
    BY SessionsAssumption DEF Conns
  <2>3. Serves(owner[n][1], n) /\ pc[owner[n][1]] \in Ended
    BY <2>1, <2>2, SessionOwned DEF ServedInv
  <2> QED
    BY <2>3 DEF Serves, Ended
<1> QED
  BY <1>1, ServedInvariant, PTL
=============================================================================
