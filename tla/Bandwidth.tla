----------------------------- MODULE Bandwidth ------------------------------
(***************************************************************************)
(* BandwidthTracker: bytes are counted per key (the relay as a whole, the  *)
(* device, the controller) in windows of one second.  A connect handler    *)
(* records each message under its three keys one after the other, so       *)
(* handlers interleave, and forwards it if no key is over its limit: what  *)
(* passes a key's check bounds what is forwarded under that key.           *)
(*                                                                         *)
(* The tracker shares nothing with the request limiter but the second and  *)
(* its ticks; its specification is BandwidthSpec.                          *)
(*                                                                         *)
(* A window's start is kept as its age by the wall clock (SystemTime), an  *)
(* age of a second standing for that and more.  The clock may be set in    *)
(* either direction at any time; what the checks let pass is kept by the   *)
(* time that really passed.  A handler that is held up between reading the *)
(* clock and locking its window sees the clock as set back, and the others *)
(* see it as set forward again.                                            *)
(***************************************************************************)
EXTENDS RateLimits, Sequences

CONSTANTS
  Handlers,       \* concurrent messages
  ByteKeys,       \* "global", devices and controllers
  limit,          \* key -> bytes per second
  KeysOf,         \* handler -> the sequence of its keys: these three, in this order
  Sizes,          \* sizes of messages
  MaxCount,       \* the largest count: u64::MAX
  MaxBack,        \* bound: ticks the clock falls behind a window's start
  MaxLeaps        \* bound: times in a second the clock is set forward

Recent == 0..(TicksPerSecond - 1)
LastSecond == TicksPerSecond - 1
Windows == [count : 0..MaxCount, age : (-MaxBack)..TicksPerSecond]

(* Limits are u64, and a message has keys. *)
BandwidthParameters ==
  /\ {MaxCount, MaxBack, MaxLeaps} \subseteq Nat
  /\ limit \in [ByteKeys -> 0..MaxCount]
  /\ Sizes \subseteq Nat
  /\ \A h \in Handlers : KeysOf[h] \in Seq(ByteKeys) /\ Len(KeysOf[h]) > 0
  /\ None \notin [count : Nat, age : Int] \cup ByteKeys \cup Nat

ASSUME BandwidthAssumption == BandwidthParameters

VARIABLES
  windows,        \* key -> count and age of its window
  step, bytes,    \* handler -> the key it is at, and its message's size
  passed,         \* key -> t -> bytes its check let pass in the last t + 1 ticks
  offered,        \* key -> t -> bytes recorded (up to a limit and one), likewise
  refused,        \* the key that refuses a message in this step
  set_back,       \* keys in whose window the clock has been set back
  leaps           \* t -> times the clock was set forward in the last t + 1 ticks

clockVars == <<set_back, leaps>>
bandwidthVars == <<windows, step, bytes, passed, offered, refused, clockVars>>

(* Every variable has its type. *)
BandwidthTypeOK ==
  /\ windows \in [ByteKeys -> Windows \cup {None}]
  /\ \A h \in Handlers : step[h] \in 0..Len(KeysOf[h])
  /\ bytes \in [Handlers -> Sizes \cup {None}]
  /\ passed \in [ByteKeys -> [Recent -> 0..((2 + MaxLeaps) * MaxCount)]]
  /\ offered \in [ByteKeys -> [Recent -> 0..(MaxCount + 1)]]
  /\ refused \in ByteKeys \cup {None}
  /\ set_back \in SUBSET ByteKeys
  /\ leaps \in [Recent -> 0..MaxLeaps]

BandwidthInit ==
  /\ windows = [k \in ByteKeys |-> None]
  /\ step = [h \in Handlers |-> 0]
  /\ bytes = [h \in Handlers |-> None]
  /\ passed = [k \in ByteKeys |-> [t \in Recent |-> 0]]
  /\ offered = passed
  /\ refused = None
  /\ set_back = {}
  /\ leaps = [t \in Recent |-> 0]

Receive(h) ==
  /\ step[h] = 0
  /\ step' = [step EXCEPT ![h] = 1]
  /\ \E n \in Sizes : bytes' = [bytes EXCEPT ![h] = n]
  /\ refused' = None
  /\ UNCHANGED <<windows, passed, offered, clockVars>>

(* Mutant: the new window keeps the old count. *)
RotatedKeepingCount(k) ==
  IF windows[k] = None THEN [count |-> 0, age |-> 0]
  ELSE IF windows[k].age >= TicksPerSecond THEN [windows[k] EXCEPT !.age = 0]
  ELSE windows[k]

(* The window of k that a recording at this moment counts in: a new one,   *)
(* the present one, or a fresh one once a second has passed.               *)
Rotates(k) == windows[k] = None \/ windows[k].age >= TicksPerSecond

Rotated(k) == IF Rotates(k) THEN [count |-> 0, age |-> 0] ELSE windows[k]

AtMost(n, most) == IF n < most THEN n ELSE most

(* Mutant: the addition wraps. *)
wrapping_add(count, n) == (count + n) % (MaxCount + 1)

checked_add(count, n) == IF count + n <= MaxCount THEN count + n ELSE None

(* record_key, for the next key of h: a count that would overflow refuses  *)
(* the message and does not count it; a refused message counts otherwise.  *)
record_key(h) ==
  LET k == KeysOf[h][step[h]]
      n == bytes[h]
      w == Rotated(k)
      total == checked_add(w.count, n)
      ok == total # None /\ total <= limit[k]
  IN /\ step[h] # 0
     /\ windows' = [windows EXCEPT ![k] =
                      IF total = None THEN w ELSE [w EXCEPT !.count = total]]
     /\ offered' = [offered EXCEPT ![k] =
                      [t \in Recent |-> AtMost(@[t] + n, limit[k] + 1)]]
     /\ passed' = [passed EXCEPT ![k] =
                     IF ok THEN [t \in Recent |-> @[t] + n] ELSE @]
     /\ refused' = IF ok THEN None ELSE k
     /\ step' = [step EXCEPT ![h] = IF @ = Len(KeysOf[h]) THEN 0 ELSE @ + 1]
     /\ bytes' = [bytes EXCEPT ![h] = IF step[h] = Len(KeysOf[h]) THEN None ELSE @]
     /\ set_back' = IF Rotates(k) THEN set_back \ {k} ELSE set_back
     /\ UNCHANGED leaps

(* A tick later, what the last t ticks brought came in the last t + 1. *)
Shift(sums) == [t \in Recent |-> IF t = 0 THEN 0 ELSE sums[t - 1]]

BandwidthTick ==
  /\ windows' = [k \in ByteKeys |->
                   IF windows[k] = None \/ windows[k].age = TicksPerSecond
                   THEN windows[k] ELSE [windows[k] EXCEPT !.age = @ + 1]]
  /\ passed' = [k \in ByteKeys |-> Shift(passed[k])]
  /\ offered' = [k \in ByteKeys |-> Shift(offered[k])]
  /\ leaps' = Shift(leaps)
  /\ refused' = None
  /\ UNCHANGED <<step, bytes, set_back>>

(* External: the wall clock is set back by d ticks, or by as much less as  *)
(* a window was older than a second.  now_ns.saturating_sub(start) is then *)
(* zero until the clock has caught up.                                     *)
ClockSetBack ==
  /\ \E d \in 1..MaxBack, over \in [ByteKeys -> 0..MaxBack] :
       windows' = [k \in ByteKeys |->
                     IF windows[k] = None THEN None
                     ELSE [windows[k] EXCEPT !.age =
                             IF @ = TicksPerSecond
                             THEN AtMost(@ + over[k] - d, TicksPerSecond) ELSE @ - d]]
  /\ \A k \in ByteKeys : windows'[k] # None => windows'[k].age >= -MaxBack
  /\ set_back' = {k \in ByteKeys : windows[k] # None}
  /\ refused' = None
  /\ UNCHANGED <<step, bytes, passed, offered, leaps>>

(* External: it is set forward, which may end every window at once. *)
ClockSetForward ==
  /\ leaps[LastSecond] < MaxLeaps
  /\ \E d \in 1..(TicksPerSecond + MaxBack) :
       windows' = [k \in ByteKeys |->
                     IF windows[k] = None THEN None
                     ELSE [windows[k] EXCEPT !.age = AtMost(@ + d, TicksPerSecond)]]
  /\ leaps' = [t \in Recent |-> leaps[t] + 1]
  /\ refused' = None
  /\ UNCHANGED <<step, bytes, passed, offered, set_back>>

BandwidthNext ==
  \/ \E h \in Handlers : Receive(h) \/ record_key(h)
  \/ BandwidthTick \/ ClockSetBack \/ ClockSetForward

BandwidthSpec == BandwidthInit /\ [][BandwidthNext]_bandwidthVars

-----------------------------------------------------------------------------
(* Within any second no key's check lets more than twice its limit pass,   *)
(* and the limit once more for each time the clock was set forward in that *)
(* second: two windows can meet in a second, whatever the order in which   *)
(* handlers record under their three keys; setting the clock back adds     *)
(* none, and setting it forward ends one window early at most.             *)
BandwidthHeld ==
  \A k \in ByteKeys : passed[k][LastSecond] <= (2 + leaps[LastSecond]) * limit[k]

(* record_key refuses a message only if more than the limit was recorded   *)
(* under its key within the last second, so what an old window counted is  *)
(* not held against later messages, unless the clock was set back during   *)
(* the window that counts.                                                 *)
RefusalJustified ==
  refused # None => offered[refused][LastSecond] > limit[refused] \/ refused \in set_back
=============================================================================
