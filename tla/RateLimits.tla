----------------------------- MODULE RateLimits -----------------------------
(***************************************************************************)
(* The request rate limiter (RateLimiter): token buckets, one for all      *)
(* requests and one per device and per controller, made on first use and   *)
(* removed by whichever caller finds them long unused.                     *)
(*                                                                         *)
(* Time advances in ticks, of which a second has TicksPerSecond; a token   *)
(* is TokenUnits units, so that rates below one per tick are whole         *)
(* numbers of units.  An operation on one bucket is one step; callers      *)
(* (ConnectToDevice handlers and listings) run concurrently.               *)
(***************************************************************************)
EXTENDS Integers, FiniteSets

CONSTANTS
  Callers,
  Devices, Controllers,     \* ids; listings ask in the name of device "*"
  global_rate, device_rate, controller_rate,  \* units per tick
  TokenUnits, TicksPerSecond,
  CLEANUP_EVERY, bucket_ttl,                  \* calls, and ticks
  MaxTime,                                    \* bound: ticks in a behaviour
  None

ASSUME RateAssumption ==
  /\ {global_rate, device_rate, controller_rate, MaxTime} \subseteq Nat
  /\ {TokenUnits, TicksPerSecond, CLEANUP_EVERY, bucket_ttl} \subseteq Nat \ {0}
  /\ IsFiniteSet(Callers)
  /\ None \notin [tokens : Nat, last : Nat]

VARIABLES
  now,
  buckets, cleanup_counter,   \* RateLimiter; the counter modulo CLEANUP_EVERY
  pc, device, controller,     \* per caller: whom it asks for
  stale,                      \* and the keys its cleanup has still to remove
  granted                     \* tokens handed out so far, by key

callerVars == <<pc, device, controller, stale>>
vars == <<now, buckets, cleanup_counter, granted, callerVars>>

GlobalKey == <<"global">>
DeviceKey(d) == <<"device", d>>
ControllerKey(c) == <<"controller", c>>

Keys == {GlobalKey} \cup {DeviceKey(d) : d \in Devices}
        \cup {ControllerKey(c) : c \in Controllers}

RateOf(k) == CASE k[1] = "global" -> global_rate
               [] k[1] = "device" -> device_rate
               [] k[1] = "controller" -> controller_rate

Capacity(k) == TicksPerSecond * RateOf(k)

(* Every variable has its type, and no bucket holds more than one second's *)
(* worth of tokens.                                                        *)
TypeOK ==
  /\ now \in 0..MaxTime
  /\ \A k \in Keys : \/ buckets[k] = None
                     \/ /\ buckets[k].tokens \in 0..Capacity(k)
                        /\ buckets[k].last \in 0..now
  /\ cleanup_counter \in 0..(CLEANUP_EVERY - 1)
  /\ granted \in [Keys -> Nat]
  /\ pc \in [Callers -> {"idle", "count", "cleanup", "global", "device", "controller"}]
  /\ device \in [Callers -> Devices \cup {None}]
  /\ controller \in [Callers -> Controllers \cup {None}]
  /\ stale \in [Callers -> SUBSET Keys]

Init ==
  /\ now = 0
  /\ buckets = [k \in Keys |-> None]
  /\ cleanup_counter = 0
  /\ granted = [k \in Keys |-> 0]
  /\ pc = [i \in Callers |-> "idle"]
  /\ device = [i \in Callers |-> None]
  /\ controller = [i \in Callers |-> None]
  /\ stale = [i \in Callers |-> {}]

-----------------------------------------------------------------------------
(* check_key: take a token of k's bucket, after topping it up.             *)
Put(k, tokens) == buckets' = [buckets EXCEPT ![k] = [tokens |-> tokens, last |-> now]]
Grant(k) == granted' = [granted EXCEPT ![k] = @ + 1]

Refilled(k) ==
  LET full == buckets[k].tokens + (now - buckets[k].last) * RateOf(k)
  IN IF full > Capacity(k) THEN Capacity(k) ELSE full

(* Mutant: the time of the refill is not noted. *)
TakeTokenKeepsLast(k) ==
  /\ Refilled(k) >= TokenUnits
  /\ buckets' = [buckets EXCEPT ![k].tokens = Refilled(k) - TokenUnits]
  /\ Grant(k)

TakeToken(k) ==
  /\ Refilled(k) >= TokenUnits
  /\ Put(k, Refilled(k) - TokenUnits)
  /\ Grant(k)

check_key(k, allowed) ==
  \/ /\ RateOf(k) = 0
     /\ ~allowed
     /\ UNCHANGED <<buckets, granted>>
  \/ /\ RateOf(k) > 0
     /\ buckets[k] = None
     /\ allowed
     /\ Put(k, IF Capacity(k) > TokenUnits THEN Capacity(k) - TokenUnits ELSE 0)
     /\ Grant(k)
  \/ /\ RateOf(k) > 0
     /\ buckets[k] # None
     /\ \/ allowed /\ TakeToken(k)
        \/ /\ ~allowed
           /\ Refilled(k) < TokenUnits
           /\ Put(k, Refilled(k))
           /\ UNCHANGED granted

-----------------------------------------------------------------------------
(* RateLimiter::allow, in steps. *)
Goto(i, p) == pc' = [pc EXCEPT ![i] = p]

Call(i, d, c) ==
  /\ pc[i] = "idle"
  /\ Goto(i, "count")
  /\ device' = [device EXCEPT ![i] = d]
  /\ controller' = [controller EXCEPT ![i] = c]
  /\ UNCHANGED <<now, buckets, cleanup_counter, granted, stale>>

(* maybe_cleanup: every CLEANUP_EVERY-th call collects the stale keys, ... *)
StaleKeys == {k \in Keys : buckets[k] # None /\ now - buckets[k].last >= bucket_ttl}

Count(i) ==
  /\ pc[i] = "count"
  /\ cleanup_counter' = (cleanup_counter + 1) % CLEANUP_EVERY
  /\ stale' = [stale EXCEPT ![i] = IF cleanup_counter' = 0 THEN StaleKeys ELSE {}]
  /\ Goto(i, "cleanup")
  /\ UNCHANGED <<now, buckets, granted, device, controller>>

(* ... and removes them one by one, without looking at them again. *)
CleanUp(i) ==
  /\ pc[i] = "cleanup"
  /\ \/ \E k \in stale[i] :
          /\ buckets' = [buckets EXCEPT ![k] = None]
          /\ stale' = [stale EXCEPT ![i] = @ \ {k}]
          /\ UNCHANGED pc
     \/ /\ stale[i] = {}
        /\ Goto(i, "global")
        /\ UNCHANGED <<buckets, stale>>
  /\ UNCHANGED <<now, cleanup_counter, granted, device, controller>>

Return(i) ==
  /\ Goto(i, "idle")
  /\ device' = [device EXCEPT ![i] = None]
  /\ controller' = [controller EXCEPT ![i] = None]

(* A refusal ends the call; what was taken before is not given back. *)
CheckGlobal(i) ==
  /\ pc[i] = "global"
  /\ \/ check_key(GlobalKey, TRUE) /\ Goto(i, "device") /\ UNCHANGED <<device, controller>>
     \/ check_key(GlobalKey, FALSE) /\ Return(i)
  /\ UNCHANGED <<now, cleanup_counter, stale>>

CheckDevice(i) ==
  /\ pc[i] = "device"
  /\ \/ /\ check_key(DeviceKey(device[i]), TRUE)
        /\ Goto(i, "controller")
        /\ UNCHANGED <<device, controller>>
     \/ check_key(DeviceKey(device[i]), FALSE) /\ Return(i)
  /\ UNCHANGED <<now, cleanup_counter, stale>>

CheckController(i) ==
  /\ pc[i] = "controller"
  /\ \E allowed \in BOOLEAN : check_key(ControllerKey(controller[i]), allowed)
  /\ Return(i)
  /\ UNCHANGED <<now, cleanup_counter, stale>>

Tick ==
  /\ now < MaxTime
  /\ now' = now + 1
  /\ UNCHANGED <<buckets, cleanup_counter, granted, callerVars>>

Next ==
  \/ \E i \in Callers :
       \/ \E d \in Devices, c \in Controllers : Call(i, d, c)
       \/ Count(i) \/ CleanUp(i)
       \/ CheckGlobal(i) \/ CheckDevice(i) \/ CheckController(i)
  \/ Tick

Spec == Init /\ [][Next]_vars

-----------------------------------------------------------------------------
(* In the long run a key gets no more than its rate and one bucketful      *)
(* (RateLimiter::allow), although removing a bucket forgets what was taken *)
(* from it, and a cleanup may remove a bucket that another caller used     *)
(* since it was found stale.                                               *)
RateHeld ==
  \A k \in Keys :
    LET bucketful == IF Capacity(k) > TokenUnits THEN Capacity(k) ELSE TokenUnits
    IN granted[k] * TokenUnits <= bucketful + RateOf(k) * now
=============================================================================
