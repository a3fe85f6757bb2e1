----------------------------- MODULE Admission -----------------------------
(***************************************************************************)
(* What a controller's message has to pass before it is forwarded          *)
(* (run_connect_to_device_stream up to begin_request): validation,         *)
(* authentication, authorisation, the rate limiter and the creation of the *)
(* stream's mapping; and the two unary calls that share these checks,      *)
(* ListOnlineDevices and RevokeToken.                                      *)
(*                                                                         *)
(* A task serves one stream or one listing at a time.  Forwarding itself   *)
(* is module RequestRelay, the limiter RateLimits, and the mappings are in *)
(* StreamRouter: here a message is served, and a limit lets it through or  *)
(* does not.                                                               *)
(***************************************************************************)
EXTENDS Naturals, FiniteSets

CONSTANTS
  Tasks, Controllers, Devices, None,
  Messages,             \* what controllers may send
  controller_tokens,    \* token -> [controller_id, role, allowed_project_ids]
  device_by_id,         \* configured device -> its project
  method_whitelist

ASSUME AdmissionAssumption ==
  /\ IsFiniteSet(Tasks)
  /\ None \notin Messages
  /\ None \notin {"Unauthorized", "DeviceNotFound"}
  \* controllers may name any method, so also one that is allowed
  /\ \E m \in Messages : method_whitelist = {} \/ m.method \in method_whitelist

VARIABLES
  enabled,                      \* AuthConfig::enabled
  revoked_controller_tokens,
  controller_connection_count,  \* RelayState
  pc, msg, answer,              \* per task: the message at hand, the last error
  controller_connected, stream_binding,
  listed                        \* its last listing: by whom, and which devices

authVars == <<enabled, revoked_controller_tokens>>
taskVars == <<pc, msg, answer, controller_connected, stream_binding, listed>>
vars == <<authVars, controller_connection_count, taskVars>>

Tokens == DOMAIN controller_tokens
Errors == {"Unauthorized", "DeviceNotFound", "InternalError", "RateLimited"}
Binding(m) == <<m.device, m.controller, m.method>>
Listing(m) == m.device = "*"

(* Every variable has its type. *)
TypeOK ==
  /\ enabled \in BOOLEAN
  /\ revoked_controller_tokens \subseteq Tokens
  /\ controller_connection_count \in 0..Cardinality(Tasks)
  /\ pc \in [Tasks -> {"idle", "reading", "allow", "create", "list", "serve"}]
  /\ \A t \in Tasks : msg[t] = None \/ Listing(msg[t]) \/ msg[t] \in Messages
  /\ answer \in [Tasks -> Errors \cup {None}]
  /\ controller_connected \in [Tasks -> BOOLEAN]
  /\ \A t \in Tasks : stream_binding[t] \in {None} \cup {Binding(m) : m \in Messages}
  /\ \A t \in Tasks : \/ listed[t] = None
                     \/ /\ listed[t].token \in Tokens
                        /\ listed[t].devices \subseteq Devices

Init ==
  /\ enabled \in BOOLEAN
  /\ revoked_controller_tokens = {}
  /\ controller_connection_count = 0
  /\ pc = [t \in Tasks |-> "idle"]
  /\ msg = [t \in Tasks |-> None]
  /\ answer = [t \in Tasks |-> None]
  /\ controller_connected = [t \in Tasks |-> FALSE]
  /\ stream_binding = [t \in Tasks |-> None]
  /\ listed = [t \in Tasks |-> None]

-----------------------------------------------------------------------------
(* validate_controller_message: the first malformed field decides. *)
ValidationError(m) ==
  CASE m.malformed = "controller_id" -> "Unauthorized"
    [] m.malformed = "target_device_id" -> "DeviceNotFound"
    [] m.malformed \in {"method_name", "payload", "sequence_number"} -> "InternalError"
    [] OTHER -> None

(* authenticate_controller, and the principal it returns.  (A JWT stands   *)
(* for its claims; its signature and expiry are the JWT library's matter.) *)
Authenticates(c, token) ==
  \/ ~enabled
  \/ /\ token \notin revoked_controller_tokens
     /\ token \in Tokens
     /\ controller_tokens[token].controller_id = c

Principal(token) ==
  IF enabled THEN controller_tokens[token]
  ELSE [role |-> "admin", allowed_project_ids |-> {}]

(* get_device_principal_by_id, is_method_allowed, and the rest of          *)
(* authorize_controller_to_device.                                         *)
KnownDevice(d) == ~enabled \/ d \in DOMAIN device_by_id
is_method_allowed(method) ==
  ~enabled \/ method_whitelist = {} \/ method \in method_whitelist
OwnsDevice(p, d) ==
  p.role = "admin" \/ device_by_id[d] \in p.allowed_project_ids
authorize_controller_to_device(p, d, method) ==
  ~enabled \/ (is_method_allowed(method) /\ OwnsDevice(p, d))

(* What an authenticated message that would open the stream is refused for. *)
AuthorizationError(m) ==
  CASE ~KnownDevice(m.device) -> "DeviceNotFound"
    [] KnownDevice(m.device) /\ ~authorize_controller_to_device(
         Principal(m.token), m.device, m.method) -> "Unauthorized"
    [] OTHER -> None

-----------------------------------------------------------------------------
Goto(t, p) == pc' = [pc EXCEPT ![t] = p]

OpenStream(t) ==
  /\ pc[t] = "idle"
  /\ Goto(t, "reading")
  /\ listed' = [listed EXCEPT ![t] = None]
  /\ UNCHANGED <<authVars, controller_connection_count, msg, answer,
                 controller_connected, stream_binding>>

(* send_error_response, and on to the next message. *)
Refuse(t, error) ==
  /\ Goto(t, "reading")
  /\ msg' = [msg EXCEPT ![t] = None]
  /\ answer' = [answer EXCEPT ![t] = error]

Admit(t, m, p) ==
  /\ Goto(t, p)
  /\ msg' = [msg EXCEPT ![t] = m]
  /\ answer' = [answer EXCEPT ![t] = None]

(* The next message of a stream, up to the rate limiter: refused as        *)
(* malformed or without a token, ...                                       *)
ReceiveInvalid(t, m) ==
  /\ pc[t] = "reading"
  /\ \/ ValidationError(m) # None /\ Refuse(t, ValidationError(m))
     \/ ValidationError(m) = None /\ m.token = None /\ Refuse(t, "Unauthorized")
  /\ UNCHANGED <<authVars, controller_connection_count,
                 controller_connected, stream_binding, listed>>

Valid(m) == ValidationError(m) = None /\ m.token # None

(* Mutant: the connection is counted at every authentication. *)
ConnectEveryTime(t) ==
  /\ controller_connection_count' = controller_connection_count + 1
  /\ controller_connected' = [controller_connected EXCEPT ![t] = TRUE]

Connect(t) ==
  /\ controller_connection_count' =
       controller_connection_count + (IF controller_connected[t] THEN 0 ELSE 1)
  /\ controller_connected' = [controller_connected EXCEPT ![t] = TRUE]

(* Mutant: a stream that has authenticated does so for good. *)
ReceiveFirstOnce(t, m) ==
  /\ pc[t] = "reading"
  /\ Valid(m)
  /\ stream_binding[t] = None
  /\ ~enabled \/ controller_tokens[m.token].controller_id = m.controller
  /\ controller_connected[t] \/ Authenticates(m.controller, m.token)
  /\ Connect(t)
  /\ AuthorizationError(m) = None
  /\ Admit(t, m, "allow")
  /\ UNCHANGED <<authVars, stream_binding, listed>>

(* ... on a stream without a mapping, authenticated and authorised, ...    *)
ReceiveFirst(t, m) ==
  /\ pc[t] = "reading"
  /\ Valid(m)
  /\ stream_binding[t] = None
  /\ \/ /\ ~Authenticates(m.controller, m.token)
        /\ Refuse(t, "Unauthorized")
        /\ UNCHANGED <<controller_connection_count, controller_connected>>
     \/ /\ Authenticates(m.controller, m.token)
        /\ Connect(t)
        /\ \/ AuthorizationError(m) # None /\ Refuse(t, AuthorizationError(m))
           \/ AuthorizationError(m) = None /\ Admit(t, m, "allow")
  /\ UNCHANGED <<authVars, stream_binding, listed>>

(* Mutant: a stream with a mapping takes any message. *)
ReceiveNextAny(t, m) ==
  /\ pc[t] = "reading"
  /\ Valid(m)
  /\ stream_binding[t] # None
  /\ Admit(t, m, "serve")
  /\ UNCHANGED <<authVars, controller_connection_count,
                 controller_connected, stream_binding, listed>>

(* ... and on one with a mapping, compared with what the mapping is for.   *)
ReceiveNext(t, m) ==
  /\ pc[t] = "reading"
  /\ Valid(m)
  /\ stream_binding[t] # None
  /\ \/ stream_binding[t] = Binding(m) /\ Admit(t, m, "serve")
     \/ stream_binding[t] # Binding(m) /\ Refuse(t, "InternalError")
  /\ UNCHANGED <<authVars, controller_connection_count,
                 controller_connected, stream_binding, listed>>

-----------------------------------------------------------------------------
(* RateLimiter::allow, for a stream or for a listing. *)
EndListing(t) ==
  /\ Goto(t, "idle")
  /\ msg' = [msg EXCEPT ![t] = None]
  /\ UNCHANGED answer

Allow(t) ==
  /\ pc[t] = "allow"
  /\ \/ Goto(t, IF Listing(msg[t]) THEN "list" ELSE "create") /\ UNCHANGED <<msg, answer>>
     \/ Listing(msg[t]) /\ EndListing(t)
     \/ ~Listing(msg[t]) /\ Refuse(t, "RateLimited")
  /\ UNCHANGED <<authVars, controller_connection_count, controller_connected,
                 stream_binding, listed>>

-----------------------------------------------------------------------------
(* The router creates the mapping, or has no room for it, its only error. *)
CreateMapping(t) ==
  /\ pc[t] = "create"
  /\ \/ /\ stream_binding' = [stream_binding EXCEPT ![t] = Binding(msg[t])]
        /\ Goto(t, "serve")
        /\ UNCHANGED <<msg, answer>>
     \/ Refuse(t, "RateLimited") /\ UNCHANGED stream_binding
  /\ UNCHANGED <<authVars, controller_connection_count,
                 controller_connected, listed>>

(* The request path deals with the message (module RequestRelay). *)
Serve(t) ==
  /\ pc[t] = "serve"
  /\ Goto(t, "reading")
  /\ msg' = [msg EXCEPT ![t] = None]
  /\ UNCHANGED <<authVars, controller_connection_count, answer,
                 controller_connected, stream_binding, listed>>

(* The stream ends: its mapping is removed, and its connection counted     *)
(* down, never below zero.                                                 *)
EndStream(t) ==
  /\ pc[t] = "reading"
  /\ Goto(t, "idle")
  /\ answer' = [answer EXCEPT ![t] = None]
  /\ stream_binding' = [stream_binding EXCEPT ![t] = None]
  /\ controller_connected' = [controller_connected EXCEPT ![t] = FALSE]
  /\ controller_connection_count' =
       IF controller_connected[t] /\ controller_connection_count > 0
       THEN controller_connection_count - 1 ELSE controller_connection_count
  /\ UNCHANGED <<authVars, msg, listed>>

-----------------------------------------------------------------------------
(* list_online_devices: authenticated, then limited, then filtered.  (One  *)
(* without credentials, or that does not authenticate, changes nothing.)   *)
StartListing(t, c, token) ==
  /\ pc[t] = "idle"
  /\ Authenticates(c, token)
  /\ Goto(t, "allow")
  /\ msg' = [msg EXCEPT ![t] = [controller |-> c, token |-> token, device |-> "*"]]
  /\ listed' = [listed EXCEPT ![t] = None]
  /\ UNCHANGED <<authVars, controller_connection_count, answer,
                 controller_connected, stream_binding>>

(* Mutant: any project will do. *)
VisibleAnyProject(p, online) ==
  {d \in online : \/ p.role = "admin"
                  \/ d \in DOMAIN device_by_id /\ p.allowed_project_ids # {}}

(* The devices of a listing: an admin's are all online ones; other         *)
(* controllers see those of their projects, and an error if they have none.*)
Visible(p, online) ==
  {d \in online : \/ p.role = "admin"
                  \/ /\ d \in DOMAIN device_by_id
                     /\ device_by_id[d] \in p.allowed_project_ids}

(* Devices that are online have registered, with a token of their own; the *)
(* region filter leaves some of them.                                      *)
List(t) ==
  /\ pc[t] = "list"
  /\ \E online \in SUBSET {d \in Devices : KnownDevice(d)} :
       listed' = [listed EXCEPT ![t] =
                    [token |-> msg[t].token,
                     devices |-> Visible(Principal(msg[t].token), online)]]
  /\ EndListing(t)
  /\ UNCHANGED <<authVars, controller_connection_count,
                 controller_connected, stream_binding>>

(* revoke_token: an admin revokes the tokens with some prefix. *)
RevokeToken(c, token, matching) ==
  /\ Authenticates(c, token)
  /\ Principal(token).role = "admin"
  /\ revoked_controller_tokens' = revoked_controller_tokens \cup matching
  /\ UNCHANGED <<enabled, controller_connection_count, taskVars>>

-----------------------------------------------------------------------------
TaskStep(t) ==
  \/ OpenStream(t) \/ Allow(t)
  \/ CreateMapping(t) \/ Serve(t) \/ EndStream(t) \/ List(t)
  \/ \E m \in Messages : ReceiveInvalid(t, m) \/ ReceiveFirst(t, m) \/ ReceiveNext(t, m)
  \/ \E c \in Controllers, token \in Tokens : StartListing(t, c, token)

Next ==
  \/ \E t \in Tasks : TaskStep(t)
  \/ \E c \in Controllers, token \in Tokens, matching \in SUBSET Tokens :
       RevokeToken(c, token, matching)

Spec == Init /\ [][Next]_vars

-----------------------------------------------------------------------------
(* Properties. *)

(* Some token lets controller c use the method on the device. *)
Authorised(c, d, method) ==
  enabled => \E token \in Tokens :
    /\ controller_tokens[token].controller_id = c
    /\ KnownDevice(d)
    /\ authorize_controller_to_device(Principal(token), d, method)

(* Only an authorised message gets to the rate limiter, opens a mapping or *)
(* is served; and what a stream serves is what its mapping was opened for, *)
(* although only the message that opened it was authorised                 *)
(* (stream_binding in run_connect_to_device_stream).                       *)
ServedIsAuthorised ==
  \A t \in Tasks :
    /\ msg[t] # None /\ ~Listing(msg[t]) =>
         Authorised(msg[t].controller, msg[t].device, msg[t].method)
    /\ pc[t] = "serve" => stream_binding[t] = Binding(msg[t])

(* Once a token is revoked, no listing starts with it and no message with  *)
(* it opens a stream, not even on a stream that authenticated before and   *)
(* was then refused by a limit ("Relay rejects later authentication",      *)
(* protocol_spec.md).  Streams that have their mapping go on.              *)
RevokedIsRefused ==
  [][\A t \in Tasks :
       enabled /\ stream_binding[t] = None /\ msg'[t] # None /\ msg'[t] # msg[t]
         => msg'[t].token \notin revoked_controller_tokens]_vars

(* The number of connected controllers that the relay reports is the       *)
(* number of open streams that have authenticated, however often they      *)
(* authenticated, and whether or not they ever got a mapping.              *)
ConnectionsCounted ==
  controller_connection_count = Cardinality({t \in Tasks : controller_connected[t]})

(* A controller can open a stream to every device that a listing shows to  *)
(* it: the filter of list_online_devices and RBAC agree.                   *)
ListedIsReachable ==
  \A t \in Tasks : listed[t] # None =>
    \A d \in listed[t].devices :
      \E method \in {m.method : m \in Messages} :
        Authorised(controller_tokens[listed[t].token].controller_id, d, method)
=============================================================================
