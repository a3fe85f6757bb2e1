------------------------ MODULE ConnectToDeviceProofs ------------------------
(* Proofs about the two ends of ConnectToDevice: Admission, for any tasks, *)
(* controllers, tokens, devices and messages, and ControllerSession, for   *)
(* any calls and sequence numbers and any capacity of its channel.         *)
EXTENDS ConnectToDevice, FiniteSetTheorems, SequenceTheorems, TLAPS

-----------------------------------------------------------------------------
(* Admission *)

Listings == [controller : Controllers, token : Tokens, device : {"*"}]

(* The types the proofs use. *)
TypeInv ==
  /\ pc \in [Tasks -> {"idle", "reading", "allow", "create", "list", "serve"}]
  /\ msg \in [Tasks -> Messages \cup Listings \cup {None}]
  /\ stream_binding \in [Tasks -> {Binding(m) : m \in Messages} \cup {None}]
  /\ controller_connected \in [Tasks -> BOOLEAN]

(* The controller of a message may use its method on its device. *)
MayUse(m) == Authorised(m.controller, m.device, m.method)

(* A message that has been admitted is authorised, and so is every message *)
(* that a stream with a mapping would take.                                *)
AdmittedInv ==
  /\ \A t \in Tasks, m \in Messages : msg[t] = m /\ ~Listing(m) => MayUse(m)
  /\ \A t \in Tasks, m \in Messages :
       stream_binding[t] # None /\ stream_binding[t] = Binding(m) => MayUse(m)
  /\ \A t \in Tasks : pc[t] = "allow" => msg[t] \in Messages \/ Listing(msg[t])
  /\ \A t \in Tasks : pc[t] = "create" => msg[t] \in Messages /\ ~Listing(msg[t])
  /\ \A t \in Tasks : pc[t] = "serve" => stream_binding[t] = Binding(msg[t])

(* The initial states satisfy both. *)
LEMMA InitAdmitted == Init => TypeInv /\ AdmittedInv
BY AdmissionAssumption DEF Init, TypeInv, AdmittedInv

(* Types are kept. *)
LEMMA NextTypeInv == TypeInv /\ AdmittedInv /\ [Next]_vars => TypeInv'
<1>s. SUFFICES ASSUME TypeInv, AdmittedInv, [Next]_vars PROVE TypeInv'
  OBVIOUS
<1> USE DEF authVars, taskVars, Goto, Refuse, Admit, EndListing, TypeInv
<1>1. ASSUME NEW t \in Tasks, OpenStream(t) PROVE TypeInv'
  BY <1>s, <1>1 DEF OpenStream
<1>2. ASSUME NEW t \in Tasks, Allow(t) PROVE TypeInv'
  BY <1>s, <1>2 DEF Allow
<1>3. ASSUME NEW t \in Tasks, CreateMapping(t) PROVE TypeInv'
  <2>1. msg[t] \in Messages
    BY <1>s, <1>3 DEF CreateMapping, AdmittedInv
  <2> QED
    BY <1>s, <1>3, <2>1 DEF CreateMapping
<1>4. ASSUME NEW t \in Tasks, Serve(t) PROVE TypeInv'
  BY <1>s, <1>4 DEF Serve
<1>5. ASSUME NEW t \in Tasks, EndStream(t) PROVE TypeInv'
  BY <1>s, <1>5 DEF EndStream
<1>6. ASSUME NEW t \in Tasks, List(t) PROVE TypeInv'
  BY <1>s, <1>6 DEF List
<1>7. ASSUME NEW t \in Tasks, NEW m \in Messages, ReceiveInvalid(t, m) PROVE TypeInv'
  BY <1>s, <1>7 DEF ReceiveInvalid
<1>8. ASSUME NEW t \in Tasks, NEW m \in Messages, ReceiveFirst(t, m) PROVE TypeInv'
  <2>1. /\ pc' = [pc EXCEPT ![t] = "reading"] \/ pc' = [pc EXCEPT ![t] = "allow"]
        /\ msg' = [msg EXCEPT ![t] = None] \/ msg' = [msg EXCEPT ![t] = m]
        /\ \/ controller_connected' = controller_connected
           \/ controller_connected' = [controller_connected EXCEPT ![t] = TRUE]
        /\ UNCHANGED stream_binding
    BY <1>8 DEF ReceiveFirst, Connect
  <2>2. pc' \in [Tasks -> {"idle", "reading", "allow", "create", "list", "serve"}]
    BY <1>s, <2>1
  <2>3. msg' \in [Tasks -> Messages \cup Listings \cup {None}]
    BY <1>s, <2>1
  <2>4. controller_connected' \in [Tasks -> BOOLEAN]
    BY Zenon, <1>s, <2>1
  <2> QED
    BY <1>s, <2>1, <2>2, <2>3, <2>4
<1>9. ASSUME NEW t \in Tasks, NEW m \in Messages, ReceiveNext(t, m) PROVE TypeInv'
  BY <1>s, <1>9 DEF ReceiveNext
<1>10. ASSUME NEW t \in Tasks, NEW c \in Controllers, NEW token \in Tokens,
              StartListing(t, c, token)
       PROVE  TypeInv'
  BY <1>s, <1>10 DEF StartListing, Listings
<1>11. ASSUME NEW c \in Controllers, NEW token \in Tokens, NEW matching \in SUBSET Tokens,
              RevokeToken(c, token, matching)
       PROVE  TypeInv'
  BY <1>s, <1>11 DEF RevokeToken
<1>12. CASE UNCHANGED vars
  BY <1>s, <1>12 DEF vars
<1> QED
  BY Zenon, <1>s, <1>1, <1>2, <1>3, <1>4, <1>5, <1>6, <1>7, <1>8, <1>9,
     <1>10, <1>11, <1>12 DEF Next, TaskStep

(* Messages of one binding may be used alike. *)
LEMMA SameBinding ==
  ASSUME NEW m, NEW n, Binding(n) = Binding(m), MayUse(m)
  PROVE  MayUse(n)
<1>1. n.device = m.device /\ n.controller = m.controller /\ n.method = m.method
  BY DEF Binding
<1> QED
  BY <1>1 DEF MayUse

(* A message that authenticates and passes authorisation may be used. *)
LEMMA FirstIsAuthorised ==
  ASSUME NEW m \in Messages, Authenticates(m.controller, m.token),
         AuthorizationError(m) = None
  PROVE  MayUse(m)
<1>1. SUFFICES ASSUME enabled PROVE \E token \in Tokens :
        /\ controller_tokens[token].controller_id = m.controller
        /\ KnownDevice(m.device)
        /\ authorize_controller_to_device(Principal(token), m.device, m.method)
  BY DEF MayUse, Authorised
<1>2. m.token \in Tokens /\ controller_tokens[m.token].controller_id = m.controller
  BY <1>1 DEF Authenticates
<1>3. /\ KnownDevice(m.device)
      /\ authorize_controller_to_device(Principal(m.token), m.device, m.method)
  BY AdmissionAssumption DEF AuthorizationError
<1> QED
  BY <1>2, <1>3

(* What may be used does not change while the relay runs. *)
LEMMA UseIsFixed ==
  ASSUME UNCHANGED enabled, NEW m, MayUse(m)
  PROVE  MayUse(m)'
BY DEF MayUse, Authorised, KnownDevice, authorize_controller_to_device, Principal,
       is_method_allowed, OwnsDevice

(* Only what is authorised is admitted. *)
LEMMA NextAdmittedInv == TypeInv /\ AdmittedInv /\ [Next]_vars => AdmittedInv'
<1>s. SUFFICES ASSUME TypeInv, AdmittedInv, [Next]_vars PROVE AdmittedInv'
  OBVIOUS
<1> USE DEF authVars, taskVars, Goto, Refuse, Admit, EndListing
<1>t. /\ pc \in [Tasks -> {"idle", "reading", "allow", "create", "list", "serve"}]
      /\ msg \in [Tasks -> Messages \cup Listings \cup {None}]
      /\ stream_binding \in [Tasks -> {Binding(m) : m \in Messages} \cup {None}]
  BY <1>s DEF TypeInv
<1>f. ASSUME UNCHANGED enabled PROVE \A m \in Messages : MayUse(m) => MayUse(m)'
  BY <1>f, UseIsFixed
<1>1. ASSUME NEW t \in Tasks, OpenStream(t) PROVE AdmittedInv'
  BY <1>s, <1>t, <1>1, <1>f, AdmissionAssumption DEF OpenStream, AdmittedInv, Listing
<1>2. ASSUME NEW t \in Tasks, Allow(t) PROVE AdmittedInv'
  BY <1>s, <1>t, <1>2, <1>f, AdmissionAssumption DEF Allow, AdmittedInv, Listing
<1>3. ASSUME NEW t \in Tasks, CreateMapping(t) PROVE AdmittedInv'
  <2>1. \/ /\ pc' = [pc EXCEPT ![t] = "reading"] /\ msg' = [msg EXCEPT ![t] = None]
           /\ UNCHANGED stream_binding
        \/ /\ pc' = [pc EXCEPT ![t] = "serve"] /\ UNCHANGED msg
           /\ stream_binding' = [stream_binding EXCEPT ![t] = Binding(msg[t])]
    BY <1>3 DEF CreateMapping
  <2>2. pc[t] = "create" /\ UNCHANGED enabled
    BY <1>3 DEF CreateMapping
  <2>3. msg[t] \in Messages /\ MayUse(msg[t])
    BY <1>s, <2>2 DEF AdmittedInv
  <2>4. \A n \in Messages : Binding(n) = Binding(msg[t]) => MayUse(n)
    BY <2>3, SameBinding
  <2> QED
    BY <1>s, <1>t, <2>1, <2>2, <2>3, <2>4, <1>f, AdmissionAssumption DEF AdmittedInv
<1>4. ASSUME NEW t \in Tasks, Serve(t) PROVE AdmittedInv'
  BY <1>s, <1>t, <1>4, <1>f, AdmissionAssumption DEF Serve, AdmittedInv, Listing
<1>5. ASSUME NEW t \in Tasks, EndStream(t) PROVE AdmittedInv'
  BY <1>s, <1>t, <1>5, <1>f, AdmissionAssumption DEF EndStream, AdmittedInv, Listing
<1>6. ASSUME NEW t \in Tasks, List(t) PROVE AdmittedInv'
  BY <1>s, <1>t, <1>6, <1>f, AdmissionAssumption DEF List, AdmittedInv, Listing
<1>7. ASSUME NEW t \in Tasks, NEW m \in Messages, ReceiveInvalid(t, m) PROVE AdmittedInv'
  BY <1>s, <1>t, <1>7, <1>f, AdmissionAssumption DEF ReceiveInvalid, AdmittedInv, Listing
<1>8. ASSUME NEW t \in Tasks, NEW m \in Messages, ReceiveFirst(t, m) PROVE AdmittedInv'
  <2>1. \/ /\ pc' = [pc EXCEPT ![t] = "reading"] /\ msg' = [msg EXCEPT ![t] = None]
        \/ /\ pc' = [pc EXCEPT ![t] = "allow"] /\ msg' = [msg EXCEPT ![t] = m]
           /\ Authenticates(m.controller, m.token) /\ AuthorizationError(m) = None
    BY <1>8 DEF ReceiveFirst
  <2>2. UNCHANGED <<enabled, stream_binding>> /\ pc[t] = "reading"
    BY <1>8 DEF ReceiveFirst
  <2>3. Authenticates(m.controller, m.token) /\ AuthorizationError(m) = None => MayUse(m)
    BY FirstIsAuthorised
  <2> QED
    BY <1>s, <1>t, <2>1, <2>2, <2>3, <1>f, AdmissionAssumption DEF AdmittedInv
<1>9. ASSUME NEW t \in Tasks, NEW m \in Messages, ReceiveNext(t, m) PROVE AdmittedInv'
  <2>1. \/ /\ pc' = [pc EXCEPT ![t] = "reading"] /\ msg' = [msg EXCEPT ![t] = None]
        \/ /\ pc' = [pc EXCEPT ![t] = "serve"] /\ msg' = [msg EXCEPT ![t] = m]
           /\ stream_binding[t] = Binding(m)
    BY <1>9 DEF ReceiveNext
  <2>2. UNCHANGED <<enabled, stream_binding>> /\ stream_binding[t] # None
    BY <1>9 DEF ReceiveNext
  <2>3. stream_binding[t] = Binding(m) => MayUse(m)
    BY <1>s, <2>2 DEF AdmittedInv
  <2> QED
    BY <1>s, <1>t, <2>1, <2>2, <2>3, <1>f, AdmissionAssumption DEF AdmittedInv
<1>10. ASSUME NEW t \in Tasks, NEW c \in Controllers, NEW token \in Tokens,
              StartListing(t, c, token)
       PROVE  AdmittedInv'
  BY <1>s, <1>t, <1>10, <1>f, AdmissionAssumption DEF StartListing, AdmittedInv, Listing
<1>11. ASSUME NEW c \in Controllers, NEW token \in Tokens, NEW matching \in SUBSET Tokens,
              RevokeToken(c, token, matching)
       PROVE  AdmittedInv'
  BY <1>s, <1>t, <1>11, <1>f, AdmissionAssumption DEF RevokeToken, AdmittedInv, Listing
<1>12. CASE UNCHANGED vars
  BY <1>s, <1>12, <1>f DEF vars, AdmittedInv
<1> QED
  BY Zenon, <1>s, <1>1, <1>2, <1>3, <1>4, <1>5, <1>6, <1>7, <1>8, <1>9,
     <1>10, <1>11, <1>12 DEF Next, TaskStep

(* Only an authorised message gets past ReceiveFirst, and a stream serves  *)
(* only what its mapping was opened for (run_connect_to_device_stream).    *)
THEOREM OnlyAuthorisedServed == Spec => []ServedIsAuthorised
<1>1. TypeInv /\ AdmittedInv /\ [Next]_vars => (TypeInv /\ AdmittedInv)'
  BY NextTypeInv, NextAdmittedInv
<1>2. TypeInv /\ AdmittedInv => ServedIsAuthorised
  <2>1. SUFFICES ASSUME TypeInv, AdmittedInv, NEW t \in Tasks
                 PROVE  /\ msg[t] # None /\ ~Listing(msg[t]) =>
                             Authorised(msg[t].controller, msg[t].device, msg[t].method)
                        /\ pc[t] = "serve" => stream_binding[t] = Binding(msg[t])
    BY DEF ServedIsAuthorised
  <2>2. msg[t] # None /\ ~Listing(msg[t]) => msg[t] \in Messages
    BY <2>1 DEF TypeInv, Listings, Listing
  <2>3. msg[t] # None /\ ~Listing(msg[t]) => MayUse(msg[t])
    BY <2>1, <2>2 DEF AdmittedInv
  <2> QED
    BY <2>1, <2>3 DEF AdmittedInv, MayUse
<1> QED
  BY <1>1, <1>2, InitAdmitted, PTL DEF Spec

(* A task without a mapping is given no new message with a revoked token.  *)
NewIsUnrevoked ==
  \A t \in Tasks :
    enabled /\ stream_binding[t] = None /\ msg'[t] # None /\ msg'[t] # msg[t]
      => msg'[t].token \notin revoked_controller_tokens

(* Every step that gives such a task a message has authenticated it. *)
LEMMA NextUnrevoked == TypeInv /\ [Next]_vars => NewIsUnrevoked \/ UNCHANGED vars
<1>s. SUFFICES ASSUME TypeInv, Next PROVE NewIsUnrevoked
  OBVIOUS
<1> USE DEF authVars, taskVars, Goto, Refuse, Admit, EndListing
<1>t. msg \in [Tasks -> Messages \cup Listings \cup {None}]
  BY <1>s DEF TypeInv
<1>a. ASSUME \A t \in Tasks : msg'[t] \in {msg[t], None} PROVE NewIsUnrevoked
  BY <1>a DEF NewIsUnrevoked
<1>1. ASSUME NEW t \in Tasks,
             \/ OpenStream(t) \/ Allow(t) \/ CreateMapping(t) \/ Serve(t)
             \/ EndStream(t) \/ List(t)
      PROVE  NewIsUnrevoked
  BY <1>t, <1>1, <1>a
     DEF OpenStream, Allow, CreateMapping, Serve, EndStream, List
<1>2. ASSUME NEW t \in Tasks, NEW m \in Messages, ReceiveInvalid(t, m) PROVE NewIsUnrevoked
  BY <1>t, <1>2, <1>a DEF ReceiveInvalid
<1>3. ASSUME NEW t \in Tasks, NEW m \in Messages, ReceiveFirst(t, m) PROVE NewIsUnrevoked
  <2>1. \/ msg' = [msg EXCEPT ![t] = None]
        \/ msg' = [msg EXCEPT ![t] = m] /\ Authenticates(m.controller, m.token)
    BY <1>3 DEF ReceiveFirst
  <2> QED
    BY <1>t, <2>1 DEF NewIsUnrevoked, Authenticates
<1>4. ASSUME NEW t \in Tasks, NEW m \in Messages, ReceiveNext(t, m) PROVE NewIsUnrevoked
  <2>1. /\ stream_binding[t] # None
        /\ msg' = [msg EXCEPT ![t] = None] \/ msg' = [msg EXCEPT ![t] = m]
    BY <1>4 DEF ReceiveNext
  <2> QED
    BY <1>t, <2>1 DEF NewIsUnrevoked
<1>5. ASSUME NEW t \in Tasks, NEW c \in Controllers, NEW token \in Tokens,
             StartListing(t, c, token)
      PROVE  NewIsUnrevoked
  BY <1>t, <1>5 DEF StartListing, NewIsUnrevoked, Authenticates
<1>6. ASSUME NEW c \in Controllers, NEW token \in Tokens, NEW matching \in SUBSET Tokens,
             RevokeToken(c, token, matching)
      PROVE  NewIsUnrevoked
  BY <1>6, <1>a DEF RevokeToken
<1> QED
  BY Zenon, <1>s, <1>1, <1>2, <1>3, <1>4, <1>5, <1>6 DEF Next, TaskStep

(* Once a token is revoked, no listing starts with it and no message with  *)
(* it opens a stream (authenticate_controller, revoke_token).              *)
THEOREM RevokedStaysOut == Spec => RevokedIsRefused
<1>1. TypeInv /\ AdmittedInv /\ [Next]_vars => (TypeInv /\ AdmittedInv)'
  BY NextTypeInv, NextAdmittedInv
<1>2. TypeInv /\ [Next]_vars => [NewIsUnrevoked]_vars
  BY NextUnrevoked
<1>3. [][NewIsUnrevoked]_vars => RevokedIsRefused
  BY PTL DEF RevokedIsRefused, NewIsUnrevoked
<1> QED
  BY <1>1, <1>2, <1>3, InitAdmitted, PTL DEF Spec

(* The streams that count as connected. *)
Connected == {t \in Tasks : controller_connected[t]}

(* Counting up on the first authentication of a stream, and down when it   *)
(* ends, keeps the count.                                                  *)
LEMMA NextCounted ==
  TypeInv /\ ConnectionsCounted /\ [Next]_vars => ConnectionsCounted'
<1>s. SUFFICES ASSUME TypeInv, ConnectionsCounted, [Next]_vars PROVE ConnectionsCounted'
  OBVIOUS
<1> USE DEF authVars, taskVars
<1>c. controller_connection_count = Cardinality(Connected)
  BY <1>s DEF ConnectionsCounted, Connected
<1>t. controller_connected \in [Tasks -> BOOLEAN]
  BY <1>s DEF TypeInv
<1>f. IsFiniteSet(Connected) /\ Cardinality(Connected) \in Nat
  BY AdmissionAssumption, FS_Subset, FS_CardinalityType DEF Connected
<1>g. SUFFICES controller_connection_count' = Cardinality(Connected')
  BY DEF ConnectionsCounted, Connected
<1>u. ASSUME UNCHANGED <<controller_connection_count, controller_connected>>
      PROVE  controller_connection_count' = Cardinality(Connected')
  BY <1>u, <1>c DEF Connected
<1>1. ASSUME NEW t \in Tasks, Connect(t)
      PROVE  controller_connection_count' = Cardinality(Connected')
  <2>1. Connected' = Connected \cup {t}
    BY <1>t, <1>1 DEF Connect, Connected
  <2>2. CASE controller_connected[t]
    <3>1. Connected' = Connected
      BY <2>1, <2>2 DEF Connected
    <3> QED
      BY <1>1, <1>c, <1>f, <2>2, <3>1 DEF Connect
  <2>3. CASE ~controller_connected[t]
    <3>1. t \notin Connected
      BY <2>3 DEF Connected
    <3>2. Cardinality(Connected') = Cardinality(Connected) + 1
      BY <1>f, <2>1, <3>1, FS_AddElement
    <3> QED
      BY <1>1, <1>c, <2>3, <3>2 DEF Connect
  <2> QED
    BY <2>2, <2>3
<1>2. ASSUME NEW t \in Tasks, EndStream(t)
      PROVE  controller_connection_count' = Cardinality(Connected')
  <2>1. Connected' = Connected \ {t}
    BY <1>t, <1>2 DEF EndStream, Connected
  <2>2. CASE controller_connected[t]
    <3>1. t \in Connected
      BY <2>2 DEF Connected
    <3>2. Cardinality(Connected') = Cardinality(Connected) - 1
      BY <1>f, <2>1, <3>1, FS_RemoveElement
    <3>3. Cardinality(Connected) # 0
      BY <1>f, <3>1, FS_EmptySet
    <3> QED
      BY <1>2, <1>c, <1>f, <2>2, <3>2, <3>3 DEF EndStream
  <2>3. CASE ~controller_connected[t]
    <3>1. Connected' = Connected
      BY <2>1, <2>3 DEF Connected
    <3> QED
      BY <1>2, <1>c, <2>3, <3>1 DEF EndStream
  <2> QED
    BY <2>2, <2>3
<1>3. ASSUME NEW t \in Tasks, NEW m \in Messages, ReceiveFirst(t, m)
      PROVE  controller_connection_count' = Cardinality(Connected')
  BY <1>3, <1>1, <1>u DEF ReceiveFirst
<1>4. ASSUME NEW t \in Tasks,
             \/ OpenStream(t) \/ Allow(t) \/ CreateMapping(t) \/ Serve(t) \/ List(t)
             \/ \E m \in Messages : ReceiveInvalid(t, m) \/ ReceiveNext(t, m)
             \/ \E c \in Controllers, token \in Tokens : StartListing(t, c, token)
      PROVE  controller_connection_count' = Cardinality(Connected')
  BY <1>4, <1>u DEF OpenStream, Allow, CreateMapping, Serve, List, ReceiveInvalid,
                    ReceiveNext, StartListing
<1>5. ASSUME NEW c \in Controllers, NEW token \in Tokens, NEW matching \in SUBSET Tokens,
             RevokeToken(c, token, matching)
      PROVE  controller_connection_count' = Cardinality(Connected')
  BY <1>5, <1>u DEF RevokeToken
<1>6. CASE UNCHANGED vars
  BY <1>6, <1>u DEF vars
<1> QED
  BY Zenon, <1>s, <1>2, <1>3, <1>4, <1>5, <1>6 DEF Next, TaskStep

(* The relay reports as connected exactly the open streams that have       *)
(* authenticated (controller_connection_count), however often they did and *)
(* whether or not they got a mapping.                                      *)
THEOREM ConnectionsAreCounted == Spec => []ConnectionsCounted
<1>1. Init => ConnectionsCounted
  <2>1. SUFFICES ASSUME Init PROVE ConnectionsCounted
    OBVIOUS
  <2>2. {t \in Tasks : controller_connected[t]} = {}
    BY <2>1 DEF Init
  <2> QED
    BY <2>1, <2>2, FS_EmptySet DEF Init, ConnectionsCounted
<1>2. TypeInv /\ AdmittedInv /\ ConnectionsCounted /\ [Next]_vars
        => (TypeInv /\ AdmittedInv /\ ConnectionsCounted)'
  BY NextTypeInv, NextAdmittedInv, NextCounted
<1> QED
  BY <1>1, <1>2, InitAdmitted, PTL DEF Spec

-----------------------------------------------------------------------------
(* Some token and method let controller c use device d, if tokens count. *)
Reaches(authenticating, c, d) ==
  authenticating => \E token \in Tokens, m \in Messages :
    /\ controller_tokens[token].controller_id = c
    /\ method_whitelist = {} \/ m.method \in method_whitelist
    /\ d \in DOMAIN device_by_id
    /\ \/ controller_tokens[token].role = "admin"
       \/ device_by_id[d] \in controller_tokens[token].allowed_project_ids

(* A listing is made with a token that the relay knows, and shows what its *)
(* controller may reach.                                                   *)
ListedInv ==
  /\ listed = [t \in Tasks |-> listed[t]]
  /\ enabled => \A t \in Tasks : pc[t] \in {"allow", "list"} => msg[t].token \in Tokens
  /\ \A t \in Tasks : listed[t] # None =>
       \A d \in listed[t].devices :
         Reaches(enabled, controller_tokens[listed[t].token].controller_id, d)

(* The filter of a listing leaves what RBAC allows. *)
LEMMA VisibleIsReachable ==
  ASSUME NEW token, enabled => token \in Tokens, NEW online,
         \A d \in online : KnownDevice(d), NEW d \in Visible(Principal(token), online)
  PROVE  Reaches(enabled, controller_tokens[token].controller_id, d)
<1>1. SUFFICES ASSUME enabled
               PROVE  Reaches(enabled, controller_tokens[token].controller_id, d)
  BY DEF Reaches
<1>2. PICK m \in Messages : method_whitelist = {} \/ m.method \in method_whitelist
  BY AdmissionAssumption
<1>3. d \in DOMAIN device_by_id /\ Principal(token) = controller_tokens[token]
  BY <1>1 DEF Visible, KnownDevice, Principal
<1>4. \/ controller_tokens[token].role = "admin"
      \/ device_by_id[d] \in controller_tokens[token].allowed_project_ids
  BY <1>3 DEF Visible
<1> QED
  BY <1>1, <1>2, <1>3, <1>4 DEF Reaches

(* What a token and a method allow is what authorisation allows. *)
LEMMA ReachesIsAuthorised ==
  ASSUME NEW c, NEW d, Reaches(enabled, c, d)
  PROVE  \E method \in {m.method : m \in Messages} : Authorised(c, d, method)
<1>1. CASE ~enabled
  <2>1. PICK m \in Messages : TRUE
    BY AdmissionAssumption
  <2>2. Authorised(c, d, m.method)
    BY <1>1 DEF Authorised
  <2> QED
    BY <2>2
<1>2. CASE enabled
  <2>1. PICK token \in Tokens, m \in Messages :
          /\ controller_tokens[token].controller_id = c
          /\ method_whitelist = {} \/ m.method \in method_whitelist
          /\ d \in DOMAIN device_by_id
          /\ \/ controller_tokens[token].role = "admin"
             \/ device_by_id[d] \in controller_tokens[token].allowed_project_ids
    BY <1>2 DEF Reaches
  <2>2. authorize_controller_to_device(Principal(token), d, m.method)
    BY <1>2, <2>1 DEF authorize_controller_to_device, Principal, is_method_allowed, OwnsDevice
  <2>3. Authorised(c, d, m.method)
    BY <2>1, <2>2 DEF Authorised, KnownDevice
  <2> QED
    BY <2>3
<1> QED
  BY <1>1, <1>2

(* A listing shows what may be reached. *)
LEMMA NextListedInv ==
  TypeInv /\ ListedInv /\ [Next]_vars => ListedInv'
<1>s. SUFFICES ASSUME TypeInv, ListedInv, [Next]_vars PROVE ListedInv'
  OBVIOUS
<1> USE DEF authVars, taskVars, Goto, Refuse, Admit, EndListing
<1>t. /\ pc \in [Tasks -> {"idle", "reading", "allow", "create", "list", "serve"}]
      /\ msg \in [Tasks -> Messages \cup Listings \cup {None}]
  BY <1>s DEF TypeInv
<1>l. /\ listed = [t \in Tasks |-> listed[t]]
      /\ enabled => \A t \in Tasks : pc[t] \in {"allow", "list"} => msg[t].token \in Tokens
  BY <1>s DEF ListedInv
<1>r. \A t \in Tasks : listed[t] # None =>
        \A d \in listed[t].devices :
          Reaches(enabled, controller_tokens[listed[t].token].controller_id, d)
  BY <1>s DEF ListedInv
<1>p. ASSUME UNCHANGED enabled, listed' = [t \in Tasks |-> listed'[t]],
             enabled => \A t \in Tasks :
                          pc'[t] \in {"allow", "list"} => msg'[t].token \in Tokens,
             \A t \in Tasks : listed'[t] # None =>
               \A d \in listed'[t].devices :
                 Reaches(enabled, controller_tokens[listed'[t].token].controller_id, d)
      PROVE  ListedInv'
  BY <1>p DEF ListedInv, Reaches
<1>1. ASSUME NEW t \in Tasks, OpenStream(t) PROVE ListedInv'
  <2>1. /\ UNCHANGED enabled /\ (UNCHANGED listed \/ listed' = [listed EXCEPT ![t] = None])
    BY <1>1 DEF OpenStream
  <2>2. enabled => \A u \in Tasks : pc'[u] \in {"allow", "list"} => msg'[u].token \in Tokens
    BY <1>t, <1>l, <1>1 DEF OpenStream
  <2>3. /\ listed' = [u \in Tasks |-> listed'[u]]
        /\ \A u \in Tasks : listed'[u] = listed[u] \/ listed'[u] = None
    BY <1>l, <2>1
  <2> QED
    BY <1>r, <1>p, <2>1, <2>2, <2>3
<1>2. ASSUME NEW t \in Tasks, Allow(t) PROVE ListedInv'
  <2>1. /\ UNCHANGED enabled /\ (UNCHANGED listed \/ listed' = [listed EXCEPT ![t] = None])
    BY <1>2 DEF Allow
  <2>2. enabled => \A u \in Tasks : pc'[u] \in {"allow", "list"} => msg'[u].token \in Tokens
    BY <1>t, <1>l, <1>2 DEF Allow
  <2>3. /\ listed' = [u \in Tasks |-> listed'[u]]
        /\ \A u \in Tasks : listed'[u] = listed[u] \/ listed'[u] = None
    BY <1>l, <2>1
  <2> QED
    BY <1>r, <1>p, <2>1, <2>2, <2>3
<1>3. ASSUME NEW t \in Tasks, CreateMapping(t) PROVE ListedInv'
  <2>1. /\ UNCHANGED enabled /\ (UNCHANGED listed \/ listed' = [listed EXCEPT ![t] = None])
    BY <1>3 DEF CreateMapping
  <2>2. enabled => \A u \in Tasks : pc'[u] \in {"allow", "list"} => msg'[u].token \in Tokens
    BY <1>t, <1>l, <1>3 DEF CreateMapping
  <2>3. /\ listed' = [u \in Tasks |-> listed'[u]]
        /\ \A u \in Tasks : listed'[u] = listed[u] \/ listed'[u] = None
    BY <1>l, <2>1
  <2> QED
    BY <1>r, <1>p, <2>1, <2>2, <2>3
<1>4. ASSUME NEW t \in Tasks, Serve(t) PROVE ListedInv'
  <2>1. /\ UNCHANGED enabled /\ (UNCHANGED listed \/ listed' = [listed EXCEPT ![t] = None])
    BY <1>4 DEF Serve
  <2>2. enabled => \A u \in Tasks : pc'[u] \in {"allow", "list"} => msg'[u].token \in Tokens
    BY <1>t, <1>l, <1>4 DEF Serve
  <2>3. /\ listed' = [u \in Tasks |-> listed'[u]]
        /\ \A u \in Tasks : listed'[u] = listed[u] \/ listed'[u] = None
    BY <1>l, <2>1
  <2> QED
    BY <1>r, <1>p, <2>1, <2>2, <2>3
<1>5. ASSUME NEW t \in Tasks, EndStream(t) PROVE ListedInv'
  <2>1. /\ UNCHANGED enabled /\ (UNCHANGED listed \/ listed' = [listed EXCEPT ![t] = None])
    BY <1>5 DEF EndStream
  <2>2. enabled => \A u \in Tasks : pc'[u] \in {"allow", "list"} => msg'[u].token \in Tokens
    BY <1>t, <1>l, <1>5 DEF EndStream
  <2>3. /\ listed' = [u \in Tasks |-> listed'[u]]
        /\ \A u \in Tasks : listed'[u] = listed[u] \/ listed'[u] = None
    BY <1>l, <2>1
  <2> QED
    BY <1>r, <1>p, <2>1, <2>2, <2>3
<1>6. ASSUME NEW t \in Tasks, List(t) PROVE ListedInv'
  <2>1. PICK online \in SUBSET {d \in Devices : KnownDevice(d)} :
          listed' = [listed EXCEPT ![t] =
                       [token |-> msg[t].token,
                        devices |-> Visible(Principal(msg[t].token), online)]]
    BY Zenon, <1>6 DEF List
  <2>2. UNCHANGED enabled /\ pc[t] = "list" /\ (enabled => msg[t].token \in Tokens)
    BY <1>t, <1>l, <1>6 DEF List
  <2>3. enabled => \A u \in Tasks : pc'[u] \in {"allow", "list"} => msg'[u].token \in Tokens
    BY <1>t, <1>l, <1>6 DEF List
  <2>4. /\ listed' = [u \in Tasks |-> listed'[u]]
        /\ listed'[t].token = msg[t].token
        /\ listed'[t].devices = Visible(Principal(msg[t].token), online)
        /\ \A u \in Tasks \ {t} : listed'[u] = listed[u]
    BY <1>l, <2>1
  <2>5. ASSUME NEW u \in Tasks, listed'[u] # None, NEW d \in listed'[u].devices
        PROVE  Reaches(enabled, controller_tokens[listed'[u].token].controller_id, d)
    <3>1. CASE u = t
      <4>1. d \in Visible(Principal(msg[t].token), online)
        BY <2>4, <2>5, <3>1
      <4>2. Reaches(enabled, controller_tokens[msg[t].token].controller_id, d)
        BY <2>1, <2>2, <4>1, VisibleIsReachable
      <4> QED
        BY <2>4, <3>1, <4>2
    <3>2. CASE u # t
      BY <1>r, <2>4, <2>5, <3>2
    <3> QED
      BY <3>1, <3>2
  <2> QED
    BY <1>p, <2>2, <2>3, <2>4, <2>5
<1>7. ASSUME NEW t \in Tasks, NEW m \in Messages, ReceiveInvalid(t, m)
       PROVE  ListedInv'
  <2>1. /\ UNCHANGED enabled /\ (UNCHANGED listed \/ listed' = [listed EXCEPT ![t] = None])
    BY <1>7 DEF ReceiveInvalid
  <2>2. enabled => \A u \in Tasks : pc'[u] \in {"allow", "list"} => msg'[u].token \in Tokens
    BY <1>t, <1>l, <1>7 DEF ReceiveInvalid
  <2>3. /\ listed' = [u \in Tasks |-> listed'[u]]
        /\ \A u \in Tasks : listed'[u] = listed[u] \/ listed'[u] = None
    BY <1>l, <2>1
  <2> QED
    BY <1>r, <1>p, <2>1, <2>2, <2>3
<1>8. ASSUME NEW t \in Tasks, NEW m \in Messages, ReceiveFirst(t, m)
       PROVE  ListedInv'
  <2>1. /\ UNCHANGED enabled /\ (UNCHANGED listed \/ listed' = [listed EXCEPT ![t] = None])
    BY <1>8 DEF ReceiveFirst
  <2>2. enabled => \A u \in Tasks : pc'[u] \in {"allow", "list"} => msg'[u].token \in Tokens
    BY <1>t, <1>l, <1>8 DEF ReceiveFirst, Authenticates
  <2>3. /\ listed' = [u \in Tasks |-> listed'[u]]
        /\ \A u \in Tasks : listed'[u] = listed[u] \/ listed'[u] = None
    BY <1>l, <2>1
  <2> QED
    BY <1>r, <1>p, <2>1, <2>2, <2>3
<1>9. ASSUME NEW t \in Tasks, NEW m \in Messages, ReceiveNext(t, m)
       PROVE  ListedInv'
  <2>1. /\ UNCHANGED enabled /\ (UNCHANGED listed \/ listed' = [listed EXCEPT ![t] = None])
    BY <1>9 DEF ReceiveNext
  <2>2. enabled => \A u \in Tasks : pc'[u] \in {"allow", "list"} => msg'[u].token \in Tokens
    BY <1>t, <1>l, <1>9 DEF ReceiveNext
  <2>3. /\ listed' = [u \in Tasks |-> listed'[u]]
        /\ \A u \in Tasks : listed'[u] = listed[u] \/ listed'[u] = None
    BY <1>l, <2>1
  <2> QED
    BY <1>r, <1>p, <2>1, <2>2, <2>3
<1>10. ASSUME NEW t \in Tasks, NEW c \in Controllers, NEW token \in Tokens,
              StartListing(t, c, token)
       PROVE  ListedInv'
  <2>1. /\ UNCHANGED enabled /\ (UNCHANGED listed \/ listed' = [listed EXCEPT ![t] = None])
    BY <1>10 DEF StartListing
  <2>2. enabled => \A u \in Tasks : pc'[u] \in {"allow", "list"} => msg'[u].token \in Tokens
    BY <1>t, <1>l, <1>10 DEF StartListing
  <2>3. /\ listed' = [u \in Tasks |-> listed'[u]]
        /\ \A u \in Tasks : listed'[u] = listed[u] \/ listed'[u] = None
    BY <1>l, <2>1
  <2> QED
    BY <1>r, <1>p, <2>1, <2>2, <2>3
<1>11. ASSUME NEW c \in Controllers, NEW token \in Tokens, NEW matching \in
              SUBSET Tokens, RevokeToken(c, token, matching)
       PROVE  ListedInv'
  BY <1>l, <1>r, <1>p, <1>11 DEF RevokeToken
<1>12. CASE UNCHANGED vars
  BY <1>l, <1>r, <1>p, <1>12 DEF vars
<1> QED
  BY Zenon, <1>s, <1>1, <1>2, <1>3, <1>4, <1>5, <1>6, <1>7, <1>8, <1>9,
     <1>10, <1>11, <1>12 DEF Next, TaskStep

(* A controller can open a stream to every device a listing shows to it    *)
(* (list_online_devices and authorize_controller_to_device agree).         *)
THEOREM ListedDevicesReachable == Spec => []ListedIsReachable
<1>1. Init => TypeInv /\ AdmittedInv /\ ListedInv
  BY InitAdmitted, AdmissionAssumption DEF Init, ListedInv
<1>2. TypeInv /\ AdmittedInv /\ ListedInv /\ [Next]_vars
        => (TypeInv /\ AdmittedInv /\ ListedInv)'
  BY NextTypeInv, NextAdmittedInv, NextListedInv
<1>3. ListedInv => ListedIsReachable
  BY ReachesIsAuthorised DEF ListedInv, ListedIsReachable
<1> QED
  BY <1>1, <1>2, <1>3, PTL DEF Spec

-----------------------------------------------------------------------------
(* The controller's session *)

(* The type invariant as the proofs use it: all but the channel's length.  *)
SessionTypes ==
  /\ call_pc \in [Calls -> {"new", "send", "wait", "remove", "returned"}]
  /\ seq \in [Calls -> Seqs \cup {None}]
  /\ rx \in [Calls -> Calls \cup {None, "Closed", "UnknownCode"}]
  /\ result \in [Calls -> Calls \cup {None, "StreamClosed", "SequenceResponseNotFound"}]
  /\ pending \in [Seqs -> Calls \cup {None}]
  /\ outbound \in Seq(Calls)
  /\ unanswered \in SUBSET Calls

(* A call has a sequence number, and may have been sent, answered or told, *)
(* only once it has begun.                                                 *)
BegunInv ==
  /\ \A c \in Calls : call_pc[c] = "new" <=> seq[c] = None
  /\ \A c \in Calls : call_pc[c] = "new" => rx[c] = None /\ result[c] = None
  /\ \A i \in 1..Len(outbound) : call_pc[outbound[i]] # "new"
  /\ \A c \in unanswered : call_pc[c] # "new"

(* The table and the channels: an entry belongs to a call that has its     *)
(* sequence number, has not been told and has not returned; and a call     *)
(* that is not told is in the table until it is about to remove itself.    *)
PendingInv ==
  /\ \A s \in Seqs : pending[s] # None =>
       /\ seq[pending[s]] = s
       /\ rx[pending[s]] = None
       /\ call_pc[pending[s]] \in {"send", "wait", "remove"}
  /\ \A c \in Calls : call_pc[c] \in {"send", "wait"} /\ rx[c] = None => pending[seq[c]] = c

(* Responses are of the call's own sequence number, and a channel is       *)
(* closed under a call only by another call of that number.                *)
Twin(c) == \E d \in Calls \ {c} : seq[d] = seq[c]
ToldInv ==
  /\ \A c \in Calls : rx[c] \in Calls => seq[rx[c]] = seq[c]
  /\ \A c \in Calls : result[c] \in Calls => seq[result[c]] = seq[c]
  /\ \A c \in Calls : rx[c] = "Closed" /\ call_pc[c] # "returned" => Twin(c)
  /\ \A c \in Calls : result[c] = "StreamClosed" => ~open \/ Twin(c) \/ rx[c] = "UnknownCode"

SessionInv == SessionTypes /\ BegunInv /\ PendingInv /\ ToldInv

(* The initial state satisfies the invariant. *)
LEMMA InitSessionInv == C!Init => SessionInv
BY SessionAssumption DEF C!SessionParameters, C!Init, SessionInv, SessionTypes, BegunInv, PendingInv, ToldInv, Twin

(* Types are kept. *)
LEMMA NextSessionTypes == SessionInv /\ [C!Next]_C!vars => SessionTypes'
<1>s. SUFFICES ASSUME SessionInv, [C!Next]_C!vars PROVE SessionTypes'
  OBVIOUS
<1> USE SessionAssumption DEF C!SessionParameters, C!callVars, C!streamVars, C!Goto
<1>i. SessionTypes /\ BegunInv /\ PendingInv /\ ToldInv
  BY <1>s DEF SessionInv
<1>1. ASSUME NEW c \in Calls, NEW s \in Seqs, C!Insert(c, s) PROVE SessionTypes'
  BY <1>i, <1>1 DEF C!Insert, C!DropSender, SessionTypes
<1>2. ASSUME NEW c \in Calls, C!Send(c) PROVE SessionTypes'
  <2>o. outbound' = outbound \/ outbound' = Append(outbound, c)
    BY <1>2 DEF C!Send
  <2>1. outbound' \in Seq(Calls)
    BY <1>i, <1>2, <2>o, AppendProperties DEF SessionTypes
  <2>2. /\ call_pc' \in [Calls -> {"new", "send", "wait", "remove", "returned"}]
        /\ result' \in [Calls -> Calls \cup {None, "StreamClosed", "SequenceResponseNotFound"}]
    BY <1>i, <1>2 DEF C!Send, SessionTypes
  <2> QED
    BY <1>i, <1>2, <2>1, <2>2 DEF C!Send, SessionTypes
<1>3. ASSUME NEW c \in Calls, C!Received(c) PROVE SessionTypes'
  BY <1>i, <1>3 DEF C!Received, SessionTypes
<1>4. ASSUME NEW c \in Calls, C!Timeout(c) PROVE SessionTypes'
  BY <1>i, <1>4 DEF C!Timeout, SessionTypes
<1>5. ASSUME NEW c \in Calls, C!Remove(c) PROVE SessionTypes'
  BY Zenon, <1>i, <1>5 DEF C!Remove, C!DropSender, SessionTypes
<1>6. ASSUME NEW c \in Calls, C!Complete(c) PROVE SessionTypes'
  <2>1. PICK response \in {c, "UnknownCode"} :
          rx' = [d \in Calls |-> IF d = pending[seq[c]] /\ rx[d] = None
                                 THEN response ELSE rx[d]]
    BY <1>6 DEF C!Complete
  <2>2. response \in Calls \cup {None, "Closed", "UnknownCode"}
    OBVIOUS
  <2> QED
    BY Zenon, <1>i, <1>6, <2>1, <2>2 DEF C!Complete, SessionTypes
<1>7. ASSUME C!ReaderEnds PROVE SessionTypes'
  BY <1>i, <1>7 DEF C!ReaderEnds, SessionTypes
<1>8. ASSUME C!RelayReads PROVE SessionTypes'
  BY <1>i, <1>8 DEF C!RelayReads, SessionTypes
<1>9. ASSUME C!StreamCloses PROVE SessionTypes'
  BY <1>i, <1>9 DEF C!StreamCloses, SessionTypes
<1>10. CASE UNCHANGED C!vars
  BY <1>i, <1>10 DEF C!vars, SessionTypes
<1> QED
  BY Zenon, <1>s, <1>1, <1>2, <1>3, <1>4, <1>5, <1>6, <1>7, <1>8, <1>9, <1>10 DEF C!Next, C!CallStep

(* A call that has not begun is unknown to everything. *)
LEMMA NextBegunInv == SessionInv /\ [C!Next]_C!vars => BegunInv'
<1>s. SUFFICES ASSUME SessionInv, [C!Next]_C!vars PROVE BegunInv'
  OBVIOUS
<1> USE SessionAssumption DEF C!SessionParameters, C!callVars, C!streamVars, C!Goto
<1>i. SessionTypes /\ BegunInv /\ PendingInv /\ ToldInv
  BY <1>s DEF SessionInv
<1>1. ASSUME NEW c \in Calls, NEW s \in Seqs, C!Insert(c, s) PROVE BegunInv'
  BY <1>i, <1>1 DEF C!Insert, C!DropSender, SessionTypes, BegunInv, PendingInv
<1>2. ASSUME NEW c \in Calls, C!Send(c) PROVE BegunInv'
  <2>o. outbound' = outbound \/ outbound' = Append(outbound, c)
    BY <1>2 DEF C!Send
  <2>1. \A i \in 1..Len(outbound') :
          outbound'[i] = c \/ (i \in 1..Len(outbound) /\ outbound'[i] = outbound[i])
    BY <1>i, <1>2, <2>o, AppendProperties DEF SessionTypes
  <2>2. \A i \in 1..Len(outbound) : outbound[i] \in Calls
    BY <1>i DEF SessionTypes
  <2>3. \A d \in Calls : call_pc'[d] = "new" <=> call_pc[d] = "new"
    BY <1>i, <1>2 DEF C!Send, SessionTypes
  <2>4. \A d \in Calls : call_pc[d] = "new" => result'[d] = result[d]
    BY <1>i, <1>2 DEF C!Send, SessionTypes
  <2>5. \A i \in 1..Len(outbound') : call_pc'[outbound'[i]] # "new"
    BY <1>i, <1>2, <2>1, <2>2, <2>3 DEF C!Send, BegunInv
  <2> QED
    BY <1>i, <1>2, <2>3, <2>4, <2>5 DEF C!Send, SessionTypes, BegunInv
<1>3. ASSUME NEW c \in Calls, C!Received(c) PROVE BegunInv'
  BY <1>i, <1>3 DEF C!Received, SessionTypes, BegunInv
<1>4. ASSUME NEW c \in Calls, C!Timeout(c) PROVE BegunInv'
  BY <1>i, <1>4 DEF C!Timeout, SessionTypes, BegunInv
<1>5. ASSUME NEW c \in Calls, C!Remove(c) PROVE BegunInv'
  BY <1>i, <1>5 DEF C!Remove, C!DropSender, SessionTypes, BegunInv, PendingInv
<1>6. ASSUME NEW c \in Calls, C!Complete(c) PROVE BegunInv'
  BY <1>i, <1>6 DEF C!Complete, SessionTypes, BegunInv, PendingInv
<1>7. ASSUME C!ReaderEnds PROVE BegunInv'
  BY <1>i, <1>7 DEF C!ReaderEnds, SessionTypes, BegunInv
<1>8. ASSUME C!RelayReads PROVE BegunInv'
  BY <1>i, <1>8 DEF C!RelayReads, SessionTypes, BegunInv
<1>9. ASSUME C!StreamCloses PROVE BegunInv'
  BY <1>i, <1>9 DEF C!StreamCloses, SessionTypes, BegunInv
<1>10. CASE UNCHANGED C!vars
  BY <1>i, <1>10 DEF C!vars, BegunInv
<1> QED
  BY Zenon, <1>s, <1>1, <1>2, <1>3, <1>4, <1>5, <1>6, <1>7, <1>8, <1>9, <1>10 DEF C!Next, C!CallStep

(* The table names exactly the calls to be told. *)
LEMMA NextPendingInv == SessionInv /\ [C!Next]_C!vars => PendingInv'
<1>s. SUFFICES ASSUME SessionInv, [C!Next]_C!vars PROVE PendingInv'
  OBVIOUS
<1> USE SessionAssumption DEF C!SessionParameters, C!callVars, C!streamVars, C!Goto
<1>i. SessionTypes /\ BegunInv /\ PendingInv /\ ToldInv
  BY <1>s DEF SessionInv
<1>1. ASSUME NEW c \in Calls, NEW s \in Seqs, C!Insert(c, s) PROVE PendingInv'
  BY <1>i, <1>1 DEF C!Insert, C!DropSender, SessionTypes, BegunInv, PendingInv
<1>2. ASSUME NEW c \in Calls, C!Send(c) PROVE PendingInv'
  <2>1. /\ rx' = rx /\ seq' = seq /\ pending' = pending /\ call_pc[c] = "send"
        /\ \A d \in Calls : IF d = c THEN call_pc'[d] \in {"wait", "remove"}
                                    ELSE call_pc'[d] = call_pc[d]
    BY <1>i, <1>2 DEF C!Send, SessionTypes
  <2> QED
    BY <1>i, <2>1 DEF SessionTypes, PendingInv
<1>3. ASSUME NEW c \in Calls, C!Received(c) PROVE PendingInv'
  <2>1. /\ rx' = rx /\ seq' = seq /\ pending' = pending /\ rx[c] # None
        /\ \A d \in Calls : IF d = c THEN call_pc'[d] \in {"returned", "remove"}
                                    ELSE call_pc'[d] = call_pc[d]
    BY <1>i, <1>3 DEF C!Received, SessionTypes
  <2> QED
    BY <1>i, <2>1 DEF SessionTypes, PendingInv
<1>4. ASSUME NEW c \in Calls, C!Timeout(c) PROVE PendingInv'
  BY <1>i, <1>4 DEF C!Timeout, SessionTypes, BegunInv, PendingInv
<1>5. ASSUME NEW c \in Calls, C!Remove(c) PROVE PendingInv'
  BY <1>i, <1>5 DEF C!Remove, C!DropSender, SessionTypes, BegunInv, PendingInv
<1>6. ASSUME NEW c \in Calls, C!Complete(c) PROVE PendingInv'
  BY <1>i, <1>6 DEF C!Complete, SessionTypes, BegunInv, PendingInv
<1>7. ASSUME C!ReaderEnds PROVE PendingInv'
  BY <1>i, <1>7 DEF C!ReaderEnds, SessionTypes, BegunInv, PendingInv
<1>8. ASSUME C!RelayReads PROVE PendingInv'
  BY <1>i, <1>8 DEF C!RelayReads, SessionTypes, BegunInv, PendingInv
<1>9. ASSUME C!StreamCloses PROVE PendingInv'
  BY <1>i, <1>9 DEF C!StreamCloses, SessionTypes, BegunInv, PendingInv
<1>10. CASE UNCHANGED C!vars
  BY <1>i, <1>10 DEF C!vars, PendingInv
<1> QED
  BY Zenon, <1>s, <1>1, <1>2, <1>3, <1>4, <1>5, <1>6, <1>7, <1>8, <1>9, <1>10 DEF C!Next, C!CallStep

(* What a call is told is of its own sequence number. *)
LEMMA NextToldInv == SessionInv /\ [C!Next]_C!vars => ToldInv'
<1>s. SUFFICES ASSUME SessionInv, [C!Next]_C!vars PROVE ToldInv'
  OBVIOUS
<1> USE SessionAssumption DEF C!SessionParameters, C!callVars, C!streamVars, C!Goto
<1>i. SessionTypes /\ BegunInv /\ PendingInv /\ ToldInv
  BY <1>s DEF SessionInv
<1>1. ASSUME NEW c \in Calls, NEW s \in Seqs, C!Insert(c, s) PROVE ToldInv'
  <2>1. /\ seq[c] = None /\ rx[c] = None /\ result[c] = None
        /\ \A d \in Calls : rx[d] \in Calls \/ result[d] = "StreamClosed" \/ rx[d] = "Closed"
             \/ result[d] \in Calls => d # c /\ seq[d] # None
    BY <1>i, <1>1 DEF C!Insert, SessionTypes, BegunInv
  <2>2. /\ seq'[c] = s /\ \A d \in Calls : d # c => seq'[d] = seq[d] /\ call_pc'[d] = call_pc[d]
        /\ result' = result /\ open' = open
    BY <1>i, <1>1 DEF C!Insert, SessionTypes
  <2>3. \A d \in Calls : rx'[d] = rx[d] \/ (rx'[d] = "Closed" /\ seq[d] = s /\ d # c)
    <3>1. \A d \in Calls : rx'[d] = IF d = pending[s] /\ rx[d] = None THEN "Closed" ELSE rx[d]
      BY Zenon, <1>1 DEF C!Insert, C!DropSender
    <3>2. \A d \in Calls : d = pending[s] => seq[d] = s
      BY <1>i DEF PendingInv
    <3>3. seq[c] # s
      BY <2>1
    <3>4. \A d \in Calls : d = pending[s] => seq[d] = s /\ d # c
      BY Zenon, <3>2, <3>3
    <3> QED
      BY Zenon, <3>1, <3>4
  <2>4. \A d \in Calls : d # c /\ seq[d] # None /\ Twin(d) => Twin(d)'
    BY <2>1, <2>2 DEF Twin
  <2>5. \A d \in Calls : d # c /\ seq[d] = s => Twin(d)'
    BY <2>2 DEF Twin
  <2>6. \A d, e \in Calls : d # c /\ seq[d] # None /\ seq[e] = seq[d] => seq'[e] = seq'[d]
    BY <2>1, <2>2
  <2>7. \A d \in Calls : rx'[d] \in Calls => seq'[rx'[d]] = seq'[d]
    BY <1>i, <2>1, <2>3, <2>6 DEF ToldInv
  <2>8. \A d \in Calls : result'[d] \in Calls => seq'[result'[d]] = seq'[d]
    BY <1>i, <2>1, <2>2, <2>6 DEF ToldInv
  <2>9. \A d \in Calls : rx'[d] = "Closed" /\ call_pc'[d] # "returned" => Twin(d)'
    BY <1>i, <2>1, <2>2, <2>3, <2>4, <2>5 DEF ToldInv
  <2>10. \A d \in Calls : result'[d] = "StreamClosed" =>
            ~open' \/ Twin(d)' \/ rx'[d] = "UnknownCode"
    <3>1. \A d \in Calls : rx[d] = "UnknownCode" => rx'[d] = "UnknownCode"
      BY <1>i, <1>1 DEF C!Insert, C!DropSender, SessionTypes
    <3> QED
      BY <1>i, <3>1, <2>1, <2>2, <2>4 DEF ToldInv
  <2> QED
    BY Zenon, <2>7, <2>8, <2>9, <2>10 DEF ToldInv
<1>2. ASSUME NEW c \in Calls, C!Send(c) PROVE ToldInv'
  BY <1>i, <1>2 DEF C!Send, SessionTypes, BegunInv, PendingInv, ToldInv, Twin
<1>3. ASSUME NEW c \in Calls, C!Received(c) PROVE ToldInv'
  BY <1>i, <1>3 DEF C!Received, SessionTypes, BegunInv, PendingInv, ToldInv, Twin
<1>4. ASSUME NEW c \in Calls, C!Timeout(c) PROVE ToldInv'
  BY <1>i, <1>4 DEF C!Timeout, SessionTypes, BegunInv, PendingInv, ToldInv, Twin
<1>5. ASSUME NEW c \in Calls, C!Remove(c) PROVE ToldInv'
  BY <1>i, <1>5 DEF C!Remove, C!DropSender, SessionTypes, BegunInv, PendingInv, ToldInv, Twin
<1>6. ASSUME NEW c \in Calls, C!Complete(c) PROVE ToldInv'
  BY <1>i, <1>6 DEF C!Complete, SessionTypes, BegunInv, PendingInv, ToldInv, Twin
<1>7. ASSUME C!ReaderEnds PROVE ToldInv'
  BY <1>i, <1>7 DEF C!ReaderEnds, SessionTypes, BegunInv, PendingInv, ToldInv, Twin
<1>8. ASSUME C!RelayReads PROVE ToldInv'
  BY <1>i, <1>8 DEF C!RelayReads, SessionTypes, BegunInv, PendingInv, ToldInv, Twin
<1>9. ASSUME C!StreamCloses PROVE ToldInv'
  BY <1>i, <1>9 DEF C!StreamCloses, SessionTypes, BegunInv, PendingInv, ToldInv, Twin
<1>10. CASE UNCHANGED C!vars
  BY <1>i, <1>10 DEF C!vars, ToldInv, Twin
<1> QED
  BY Zenon, <1>s, <1>1, <1>2, <1>3, <1>4, <1>5, <1>6, <1>7, <1>8, <1>9, <1>10 DEF C!Next, C!CallStep

(* The invariant holds throughout. *)
LEMMA SessionInvariant == C!Spec => []SessionInv
<1>1. SessionInv /\ [C!Next]_C!vars => SessionInv'
  BY NextSessionTypes, NextBegunInv, NextPendingInv, NextToldInv DEF SessionInv
<1> QED
  BY <1>1, InitSessionInv, PTL DEF C!Spec

(* A call that returns data got the response to a message of its own       *)
(* sequence number, whatever was retried, timed out or answered late       *)
(* (PendingRequests::complete).                                            *)
THEOREM OwnSequenceAnswered == C!Spec => []OwnSequence
<1>1. SessionInv => OwnSequence
  BY DEF SessionInv, ToldInv, OwnSequence, C!OwnSequence
<1> QED
  BY <1>1, SessionInvariant, PTL

(* No way for send_request to return leaves an entry in PendingRequests. *)
THEOREM NoEntryLeaked == C!Spec => []NoLeakedEntry
<1>1. SessionInv => NoLeakedEntry
  BY DEF SessionInv, PendingInv, NoLeakedEntry, C!NoLeakedEntry
<1> QED
  BY <1>1, SessionInvariant, PTL

(* A call that waits in send_request can still be told. *)
THEOREM WaitersAreKnown == C!Spec => []WaiterIsKnown
<1>1. SessionInv => WaiterIsKnown
  BY DEF SessionInv, PendingInv, WaiterIsKnown, C!WaiterIsKnown
<1> QED
  BY <1>1, SessionInvariant, PTL

(* send_request fails with StreamClosed only if the stream did close, the  *)
(* application used the sequence number for another call, or the response  *)
(* had an error code the SDK does not know.                                *)
THEOREM ClosedIsClosed == C!Spec => []ClosedMeansClosed
<1>1. SessionInv => ClosedMeansClosed
  BY DEF SessionInv, ToldInv, Twin, ClosedMeansClosed, C!ClosedMeansClosed
<1> QED
  BY <1>1, SessionInvariant, PTL
=============================================================================
