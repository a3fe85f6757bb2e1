-------------------------- MODULE RateLimitsProofs --------------------------
(* Proofs about RateLimits: for any rates, callers, devices and            *)
(* controllers, with buckets that live long enough; and about Bandwidth,   *)
(* for any limits, keys, handlers and sizes of messages.                   *)
EXTENDS Bandwidth, FiniteSetTheorems, TLAPS

Buckets == [tokens : Nat, last : Nat]
Bucketful(k) == IF Capacity(k) > TokenUnits THEN Capacity(k) ELSE TokenUnits

(* The callers that are about to remove the bucket of k. *)
Removers(k) == {i \in Callers : k \in stale[i]}

(* A bucket that is found stale has been left alone for long enough to     *)
(* earn a bucketful for each caller that may remove it, and one more.      *)
LongLived(k) ==
  RateOf(k) * bucket_ttl >= (Cardinality(Callers) + 1) * Bucketful(k)

TypeInv ==
  /\ now \in Nat
  /\ buckets \in [Keys -> Buckets \cup {None}]
  /\ \A k \in Keys : buckets[k] # None =>
       buckets[k].tokens <= Capacity(k) /\ buckets[k].last <= now
  /\ granted \in [Keys -> Nat]
  /\ pc \in [Callers -> {"idle", "count", "cleanup", "global", "device", "controller"}]
  /\ device \in [Callers -> Devices \cup {None}]
  /\ controller \in [Callers -> Controllers \cup {None}]
  /\ stale \in [Callers -> SUBSET Keys]
  /\ \A i \in Callers : pc[i] # "idle" =>
       device[i] \in Devices /\ controller[i] \in Controllers
  /\ \A i \in Callers : pc[i] # "cleanup" => stale[i] = {}

-----------------------------------------------------------------------------
(* The constants, one by one. *)
LEMMA ConstantFacts ==
  /\ TokenUnits \in Nat /\ TokenUnits > 0 /\ bucket_ttl \in Nat /\ bucket_ttl > 0
  /\ TicksPerSecond \in Nat
  /\ global_rate \in Nat /\ device_rate \in Nat /\ controller_rate \in Nat
  /\ IsFiniteSet(Callers) /\ None \notin Buckets
BY RateAssumption DEF Buckets

(* Rates and capacities are numbers. *)
LEMMA RateFacts ==
  ASSUME NEW k \in Keys
  PROVE  /\ RateOf(k) \in Nat /\ Capacity(k) \in Nat /\ Bucketful(k) \in Nat
         /\ Capacity(k) <= Bucketful(k)
<1>1. k[1] \in {"global", "device", "controller"}
  BY DEF Keys, GlobalKey, DeviceKey, ControllerKey
<1>2. RateOf(k) \in Nat
  BY <1>1, ConstantFacts DEF RateOf
<1>3. Capacity(k) \in Nat
  BY <1>2, ConstantFacts DEF Capacity
<1> QED
  BY <1>2, <1>3, ConstantFacts DEF Bucketful

-----------------------------------------------------------------------------
(* The account of a key: what has been handed out, what is in the bucket   *)
(* and a bucketful for each caller about to remove it have been earned by  *)
(* the time of the last use, or by now if there is no bucket.  A stale     *)
(* bucket has had the time to earn what its removals may cost.             *)
Earned(r, full, b, g, s, t) ==
  \/ b = None /\ ((g = 0 /\ s = 0) \/ g * TokenUnits + s * full <= r * t)
  \/ /\ b # None /\ t - b.last < bucket_ttl
     /\ g * TokenUnits + b.tokens + s * full <= full + r * b.last
  \/ /\ b # None /\ t - b.last >= bucket_ttl
     /\ g * TokenUnits + b.tokens <= full + r * b.last

(* A stale bucket has earned what its use and its removals may cost. *)
LEMMA EarnedByTtl ==
  ASSUME NEW r \in Nat, NEW full \in Nat, NEW n \in Nat, NEW s \in Nat, NEW last \in Nat,
         NEW t \in Nat, s <= n, t - last >= bucket_ttl, r * bucket_ttl >= (n + 1) * full
  PROVE  r * last + full + s * full <= r * t
<1> USE ConstantFacts
<1>1. PICK d \in Nat : t = last + bucket_ttl + d
  <2>1. t - last - bucket_ttl \in Nat /\ t = last + bucket_ttl + (t - last - bucket_ttl)
    OBVIOUS
  <2> QED
    BY <2>1
<1>2. r * t = r * last + r * bucket_ttl + r * d /\ r * d \in Nat
      /\ r * last \in Nat /\ r * bucket_ttl \in Nat
  BY <1>1
<1>3. (n + 1) * full = n * full + full /\ s * full <= n * full
  <2>1. PICK e \in Nat : n = s + e
    <3>1. n - s \in Nat /\ n = s + (n - s)
      OBVIOUS
    <3> QED
      BY <3>1
  <2>2. n * full = s * full + e * full /\ e * full \in Nat /\ s * full \in Nat
    BY <2>1
  <2> QED
    BY <2>2
<1>4. s * full \in Nat /\ n * full \in Nat
  OBVIOUS
<1> QED
  BY <1>2, <1>3, <1>4


(* The first use makes a bucket, which starts full. *)
LEMMA EarnedCreate ==
  ASSUME NEW k \in Keys, NEW g \in Nat, NEW s \in Nat, NEW t \in Nat,
         Earned(RateOf(k), Bucketful(k), None, g, s, t),
         NEW b \in Buckets, b.last = t,
         b.tokens = (IF Capacity(k) > TokenUnits THEN Capacity(k) - TokenUnits ELSE 0)
  PROVE  Earned(RateOf(k), Bucketful(k), b, g + 1, s, t)
<1> DEFINE r == RateOf(k)
           full == Bucketful(k)
<1>1. /\ r \in Nat /\ full \in Nat /\ Capacity(k) \in Nat /\ b # None
      /\ b.tokens \in Nat /\ b.tokens + TokenUnits = full
  BY RateFacts, ConstantFacts DEF Bucketful, Buckets
<1>2. Earned(r, full, None, g, s, t)
  OBVIOUS
<1> HIDE DEF r, full
<1>3. /\ (g + 1) * TokenUnits = g * TokenUnits + TokenUnits
      /\ g * TokenUnits \in Nat /\ s * full \in Nat /\ r * t \in Nat
  BY <1>1, ConstantFacts
<1>4. t - b.last < bucket_ttl
  BY ConstantFacts
<1>5. CASE g = 0 /\ s = 0
  <2>1. g * TokenUnits = 0 /\ s * full = 0
    BY <1>1, <1>5, ConstantFacts
  <2>2. (g + 1) * TokenUnits + b.tokens + s * full <= full + r * b.last
    BY <1>1, <1>3, <2>1, ConstantFacts
  <2> QED
    BY <1>1, <1>4, <2>2 DEF Earned, r, full
<1>6. CASE g * TokenUnits + s * full <= r * t
  <2>1. (g + 1) * TokenUnits + b.tokens + s * full <= full + r * b.last
    BY <1>1, <1>3, <1>6, ConstantFacts
  <2> QED
    BY <1>1, <1>4, <2>1 DEF Earned, r, full
<1> QED
  BY <1>1, <1>2, <1>5, <1>6 DEF Earned

(* Topping up a bucket adds what was earned since its last use, at most. *)
LEMMA EarnedRefill ==
  ASSUME NEW k \in Keys, LongLived(k), NEW b \in Buckets, NEW g \in Nat, NEW s \in Nat,
         NEW t \in Nat, s <= Cardinality(Callers), b.last <= t,
         Earned(RateOf(k), Bucketful(k), b, g, s, t),
         NEW x \in Nat, x <= Capacity(k), x <= b.tokens + (t - b.last) * RateOf(k)
  PROVE  g * TokenUnits + x + s * Bucketful(k) <= Bucketful(k) + RateOf(k) * t
<1> DEFINE r == RateOf(k)
           full == Bucketful(k)
           n == Cardinality(Callers)
<1>1. /\ r \in Nat /\ full \in Nat /\ Capacity(k) \in Nat /\ Capacity(k) <= full
      /\ b # None /\ b.tokens \in Nat /\ b.last \in Nat
  BY RateFacts, ConstantFacts DEF Buckets
<1>2. /\ Earned(r, full, b, g, s, t) /\ x <= full /\ x <= b.tokens + (t - b.last) * r
  BY <1>1
<1>3. n \in Nat /\ s <= n /\ r * bucket_ttl >= (n + 1) * full
  BY FS_CardinalityType, ConstantFacts DEF LongLived
<1> HIDE DEF r, full, n
<1>4. /\ g * TokenUnits \in Nat /\ s * full \in Nat /\ r * t \in Nat /\ r * b.last \in Nat
      /\ (t - b.last) * r = r * t - r * b.last
  BY <1>1, ConstantFacts
<1>5. CASE t - b.last < bucket_ttl
  <2>1. g * TokenUnits + b.tokens + s * full <= full + r * b.last
    BY <1>1, <1>2, <1>5, ConstantFacts DEF Earned
  <2> QED
    BY <1>1, <1>2, <1>4, <2>1 DEF r, full
<1>6. CASE t - b.last >= bucket_ttl
  <2>1. g * TokenUnits + b.tokens <= full + r * b.last
    BY <1>1, <1>2, <1>6, ConstantFacts DEF Earned
  <2>2. r * b.last + full + s * full <= r * t
    BY Zenon, <1>1, <1>3, <1>6, EarnedByTtl
  <2> QED
    BY <1>1, <1>2, <1>4, <2>1, <2>2 DEF r, full
<1> QED
  BY <1>1, <1>5, <1>6, ConstantFacts

(* What a use leaves in the bucket: a token less, or what was there. *)
LEMMA EarnedUse ==
  ASSUME NEW k \in Keys, LongLived(k), NEW b \in Buckets, NEW g \in Nat, NEW s \in Nat,
         NEW t \in Nat, s <= Cardinality(Callers), b.last <= t,
         Earned(RateOf(k), Bucketful(k), b, g, s, t),
         NEW x \in Nat, x <= Capacity(k), x <= b.tokens + (t - b.last) * RateOf(k),
         NEW c \in Buckets, c.last = t
  PROVE  /\ c.tokens = x => Earned(RateOf(k), Bucketful(k), c, g, s, t)
         /\ x >= TokenUnits /\ c.tokens = x - TokenUnits
              => Earned(RateOf(k), Bucketful(k), c, g + 1, s, t)
<1>1. g * TokenUnits + x + s * Bucketful(k) <= Bucketful(k) + RateOf(k) * t
  BY EarnedRefill
<1>2. c # None /\ t - c.last < bucket_ttl /\ TokenUnits \in Nat
  BY ConstantFacts
<1>3. ASSUME c.tokens = x PROVE Earned(RateOf(k), Bucketful(k), c, g, s, t)
  BY <1>1, <1>2, <1>3 DEF Earned
<1>4. ASSUME x >= TokenUnits, c.tokens = x - TokenUnits
      PROVE  Earned(RateOf(k), Bucketful(k), c, g + 1, s, t)
  <2>1. /\ (g + 1) * TokenUnits = g * TokenUnits + TokenUnits
        /\ g * TokenUnits \in Nat /\ Bucketful(k) \in Nat /\ RateOf(k) \in Nat
    BY RateFacts, <1>2
  <2>2. s * Bucketful(k) \in Nat /\ RateOf(k) * t \in Nat
    BY <2>1
  <2>3. (g + 1) * TokenUnits + c.tokens + s * Bucketful(k)
          <= Bucketful(k) + RateOf(k) * c.last
    BY <1>1, <1>2, <1>4, <2>1, <2>2
  <2> DEFINE h == g + 1
  <2>4. h * TokenUnits + c.tokens + s * Bucketful(k) <= Bucketful(k) + RateOf(k) * c.last
    BY <2>3
  <2> HIDE DEF h
  <2>5. Earned(RateOf(k), Bucketful(k), c, h, s, t)
    BY <1>2, <2>4 DEF Earned
  <2> QED
    BY <2>5 DEF h
<1> QED
  BY <1>3, <1>4

(* One of those about to remove the bucket does so. *)
LEMMA EarnedRemove ==
  ASSUME NEW k \in Keys, LongLived(k), NEW b \in Buckets \cup {None}, NEW g \in Nat,
         NEW s \in Nat, NEW t \in Nat, 0 < s, s <= Cardinality(Callers),
         b # None => b.last <= t, Earned(RateOf(k), Bucketful(k), b, g, s, t)
  PROVE  Earned(RateOf(k), Bucketful(k), None, g, s - 1, t)
<1> DEFINE r == RateOf(k)
           full == Bucketful(k)
           n == Cardinality(Callers)
<1>1. r \in Nat /\ full \in Nat /\ Earned(r, full, b, g, s, t)
  BY RateFacts
<1>2. n \in Nat /\ s <= n /\ r * bucket_ttl >= (n + 1) * full
  BY FS_CardinalityType, ConstantFacts DEF LongLived
<1>3. SUFFICES g * TokenUnits + (s - 1) * full <= r * t
  BY DEF Earned
<1> HIDE DEF r, full, n
<1>4. /\ (s - 1) * full = s * full - full /\ s * full \in Nat /\ (s - 1) * full \in Nat
      /\ g * TokenUnits \in Nat /\ r * t \in Nat
  <2>1. s - 1 \in Nat
    OBVIOUS
  <2> QED
    BY <1>1, <2>1, ConstantFacts
<1>5. CASE b = None
  BY <1>1, <1>4, <1>5 DEF Earned
<1>6. ASSUME b # None PROVE g * TokenUnits + (s - 1) * full <= r * t
  <2>1. b.tokens \in Nat /\ b.last \in Nat /\ b.last <= t
    BY <1>6 DEF Buckets
  <2>2. r * b.last \in Nat /\ r * b.last <= r * t
    <3>1. PICK d \in Nat : t = b.last + d
      <4>1. t - b.last \in Nat /\ t = b.last + (t - b.last)
        BY <2>1
      <4> QED
        BY <4>1
    <3>2. r * t = r * b.last + r * d /\ r * d \in Nat /\ r * b.last \in Nat
      BY <1>1, <2>1, <3>1
    <3> QED
      BY <3>2
  <2>3. CASE t - b.last < bucket_ttl
    <3>1. g * TokenUnits + b.tokens + s * full <= full + r * b.last
      BY <1>1, <1>6, <2>1, <2>3, ConstantFacts DEF Earned
    <3> QED
      BY <1>1, <1>4, <2>1, <2>2, <3>1
  <2>4. CASE t - b.last >= bucket_ttl
    <3>1. g * TokenUnits + b.tokens <= full + r * b.last
      BY <1>1, <1>6, <2>1, <2>4, ConstantFacts DEF Earned
    <3>2. r * b.last + full + s * full <= r * t
      BY Zenon, <1>1, <1>2, <2>1, <2>4, EarnedByTtl
    <3> QED
      BY <1>1, <1>4, <2>1, <2>2, <3>1, <3>2
  <2> QED
    BY <2>1, <2>3, <2>4, ConstantFacts
<1> QED
  BY <1>5, <1>6 DEF r, full

(* Time passes. *)
LEMMA EarnedTick ==
  ASSUME NEW k \in Keys, NEW b \in Buckets \cup {None}, NEW g \in Nat,
         NEW s \in Nat, NEW t \in Nat, b # None => b.last <= t,
         Earned(RateOf(k), Bucketful(k), b, g, s, t)
  PROVE  Earned(RateOf(k), Bucketful(k), b, g, s, t + 1)
<1> DEFINE r == RateOf(k)
           full == Bucketful(k)
<1>1. r \in Nat /\ full \in Nat /\ Earned(r, full, b, g, s, t)
  BY RateFacts
<1> HIDE DEF r, full
<1>2. /\ r * (t + 1) = r * t + r /\ r * t \in Nat /\ g * TokenUnits \in Nat
      /\ s * full \in Nat
  BY <1>1, ConstantFacts
<1>3. CASE b = None
  BY <1>1, <1>2, <1>3 DEF Earned, r, full
<1>4. ASSUME b # None PROVE Earned(r, full, b, g, s, t + 1)
  <2>1. b.tokens \in Nat /\ b.last \in Nat /\ r * b.last \in Nat
    BY <1>1, <1>4 DEF Buckets
  <2>2. g * TokenUnits + b.tokens <= full + r * b.last
    BY <1>1, <1>2, <1>4, <2>1 DEF Earned
  <2>3. CASE (t + 1) - b.last < bucket_ttl
    <3>1. t - b.last < bucket_ttl
      BY <2>1, <2>3, ConstantFacts
    <3>2. g * TokenUnits + b.tokens + s * full <= full + r * b.last
      BY <1>1, <1>4, <2>1, <3>1, ConstantFacts DEF Earned
    <3> QED
      BY <1>4, <2>3, <3>2 DEF Earned
  <2>4. CASE (t + 1) - b.last >= bucket_ttl
    BY <1>4, <2>2, <2>4 DEF Earned
  <2> QED
    BY <2>1, <2>3, <2>4, ConstantFacts
<1> QED
  BY <1>3, <1>4 DEF r, full


-----------------------------------------------------------------------------
(* Topping up keeps a bucket within its capacity. *)
LEMMA RefilledFacts ==
  ASSUME TypeInv, NEW k \in Keys, buckets[k] # None
  PROVE  /\ buckets[k] \in Buckets /\ buckets[k].last <= now
         /\ Refilled(k) \in Nat /\ Refilled(k) <= Capacity(k)
         /\ Refilled(k) <= buckets[k].tokens + (now - buckets[k].last) * RateOf(k)
<1>1. /\ buckets[k] \in Buckets /\ buckets[k].last <= now /\ now \in Nat
      /\ buckets[k].tokens <= Capacity(k)
  BY DEF TypeInv
<1>2. /\ buckets[k].tokens \in Nat /\ buckets[k].last \in Nat
      /\ now - buckets[k].last \in Nat
  BY <1>1 DEF Buckets
<1>3. RateOf(k) \in Nat /\ Capacity(k) \in Nat
  BY RateFacts
<1>4. (now - buckets[k].last) * RateOf(k) \in Nat
  BY <1>2, <1>3
<1> QED
  BY <1>1, <1>2, <1>3, <1>4 DEF Refilled

(* check_key replaces the bucket by one with the present time, and keeps   *)
(* the account.                                                            *)
LEMMA CheckKeyEffect ==
  ASSUME TypeInv, NEW k \in Keys, NEW allowed \in BOOLEAN, check_key(k, allowed)
  PROVE  \/ UNCHANGED <<buckets, granted>>
         \/ \E b \in Buckets, g \in Nat :
              /\ buckets' = [buckets EXCEPT ![k] = b] /\ b.tokens <= Capacity(k)
              /\ granted' = [granted EXCEPT ![k] = g] /\ b.last = now
              /\ \A s \in Nat :
                   /\ LongLived(k) /\ s <= Cardinality(Callers)
                   /\ Earned(RateOf(k), Bucketful(k), buckets[k], granted[k], s, now)
                   => Earned(RateOf(k), Bucketful(k), b, g, s, now)
<1>t. now \in Nat /\ granted[k] \in Nat /\ granted[k] + 1 \in Nat
  BY DEF TypeInv
<1>r. Capacity(k) \in Nat /\ TokenUnits \in Nat
  BY RateFacts, ConstantFacts
<1>1. CASE UNCHANGED <<buckets, granted>>
  BY <1>1
<1>2. CASE /\ buckets[k] = None
           /\ Put(k, IF Capacity(k) > TokenUnits THEN Capacity(k) - TokenUnits ELSE 0)
           /\ Grant(k)
  <2> DEFINE b == [tokens |-> IF Capacity(k) > TokenUnits THEN Capacity(k) - TokenUnits ELSE 0,
                   last |-> now]
  <2>1. /\ b \in Buckets /\ b.tokens <= Capacity(k) /\ b.last = now
        /\ b.tokens = (IF Capacity(k) > TokenUnits THEN Capacity(k) - TokenUnits ELSE 0)
    BY <1>t, <1>r DEF Buckets
  <2>2. /\ buckets' = [buckets EXCEPT ![k] = b]
        /\ granted' = [granted EXCEPT ![k] = granted[k] + 1]
    BY <1>2 DEF Put, Grant, TypeInv
  <2> HIDE DEF b
  <2>3. ASSUME NEW s \in Nat,
               Earned(RateOf(k), Bucketful(k), buckets[k], granted[k], s, now)
        PROVE  Earned(RateOf(k), Bucketful(k), b, granted[k] + 1, s, now)
    BY <1>t, <1>2, <2>1, <2>3, EarnedCreate
  <2> QED
    BY Zenon, <1>t, <2>1, <2>2, <2>3
<1>3. CASE buckets[k] # None /\ Refilled(k) >= TokenUnits
           /\ Put(k, Refilled(k) - TokenUnits) /\ Grant(k)
  <2> DEFINE b == [tokens |-> Refilled(k) - TokenUnits, last |-> now]
  <2>0. /\ buckets[k] \in Buckets /\ buckets[k].last <= now
        /\ Refilled(k) \in Nat /\ Refilled(k) <= Capacity(k)
        /\ Refilled(k) <= buckets[k].tokens + (now - buckets[k].last) * RateOf(k)
    BY <1>3, RefilledFacts
  <2>1. /\ b \in Buckets /\ b.tokens <= Capacity(k) /\ b.last = now
        /\ b.tokens = Refilled(k) - TokenUnits
    BY <1>t, <1>r, <1>3, <2>0 DEF Buckets
  <2>2. /\ buckets' = [buckets EXCEPT ![k] = b]
        /\ granted' = [granted EXCEPT ![k] = granted[k] + 1]
    BY <1>3 DEF Put, Grant, TypeInv
  <2> HIDE DEF b
  <2>3. ASSUME NEW s \in Nat, LongLived(k), s <= Cardinality(Callers),
               Earned(RateOf(k), Bucketful(k), buckets[k], granted[k], s, now)
        PROVE  Earned(RateOf(k), Bucketful(k), b, granted[k] + 1, s, now)
    BY <1>t, <1>3, <2>0, <2>1, <2>3, EarnedUse
  <2> QED
    BY Zenon, <1>t, <2>1, <2>2, <2>3
<1>4. CASE buckets[k] # None /\ Put(k, Refilled(k)) /\ UNCHANGED granted
  <2> DEFINE b == [tokens |-> Refilled(k), last |-> now]
  <2>0. /\ buckets[k] \in Buckets /\ buckets[k].last <= now
        /\ Refilled(k) \in Nat /\ Refilled(k) <= Capacity(k)
        /\ Refilled(k) <= buckets[k].tokens + (now - buckets[k].last) * RateOf(k)
    BY <1>4, RefilledFacts
  <2>1. b \in Buckets /\ b.tokens <= Capacity(k) /\ b.last = now /\ b.tokens = Refilled(k)
    BY <1>t, <1>r, <2>0 DEF Buckets
  <2>2. /\ buckets' = [buckets EXCEPT ![k] = b]
        /\ granted' = [granted EXCEPT ![k] = granted[k]]
    BY <1>4 DEF Put, TypeInv
  <2> HIDE DEF b
  <2>3. ASSUME NEW s \in Nat, LongLived(k), s <= Cardinality(Callers),
               Earned(RateOf(k), Bucketful(k), buckets[k], granted[k], s, now)
        PROVE  Earned(RateOf(k), Bucketful(k), b, granted[k], s, now)
    BY <1>t, <2>0, <2>1, <2>3, EarnedUse
  <2> QED
    BY Zenon, <1>t, <2>1, <2>2, <2>3
<1> QED
  BY <1>1, <1>2, <1>3, <1>4 DEF check_key, TakeToken


(* The buckets and the tokens handed out keep their types. *)
LEMMA CheckKeepsTypes ==
  ASSUME TypeInv, NEW k \in Keys, NEW allowed \in BOOLEAN, check_key(k, allowed)
  PROVE  /\ buckets' \in [Keys -> Buckets \cup {None}]
         /\ \A j \in Keys : buckets'[j] # None =>
              buckets'[j].tokens <= Capacity(j) /\ buckets'[j].last <= now
         /\ granted' \in [Keys -> Nat]
<1>t. /\ buckets \in [Keys -> Buckets \cup {None}] /\ now \in Nat
      /\ \A j \in Keys : buckets[j] # None =>
           buckets[j].tokens <= Capacity(j) /\ buckets[j].last <= now
      /\ granted \in [Keys -> Nat]
  BY DEF TypeInv
<1>1. CASE UNCHANGED <<buckets, granted>>
  BY <1>t, <1>1
<1>2. ASSUME NEW b \in Buckets, NEW g \in Nat,
             buckets' = [buckets EXCEPT ![k] = b], b.tokens <= Capacity(k),
             granted' = [granted EXCEPT ![k] = g], b.last = now
      PROVE  /\ buckets' \in [Keys -> Buckets \cup {None}]
             /\ \A j \in Keys : buckets'[j] # None =>
                  buckets'[j].tokens <= Capacity(j) /\ buckets'[j].last <= now
             /\ granted' \in [Keys -> Nat]
  BY <1>t, <1>2
<1> QED
  BY <1>1, <1>2, CheckKeyEffect

(* The keys that are asked for. *)
LEMMA KeyFacts ==
  /\ GlobalKey \in Keys
  /\ \A d \in Devices : DeviceKey(d) \in Keys
  /\ \A c \in Controllers : ControllerKey(c) \in Keys
BY DEF Keys


(* Types are kept. *)
LEMMA NextTypeInv ==
  TypeInv /\ [Next]_vars => TypeInv'
<1>s. SUFFICES ASSUME TypeInv, [Next]_vars PROVE TypeInv'
  OBVIOUS
<1>1. ASSUME NEW i \in Callers, NEW d \in Devices, NEW c \in Controllers,
              Call(i, d, c)
       PROVE  TypeInv'
  BY <1>s, <1>1 DEF Call, Goto, TypeInv
<1>2. ASSUME NEW i \in Callers, Count(i) PROVE TypeInv'
  <2>1. stale'[i] \subseteq Keys /\ \A j \in Callers \ {i} : stale'[j] = stale[j]
    BY <1>s, <1>2 DEF Count, StaleKeys, TypeInv
  <2>2. stale' \in [Callers -> SUBSET Keys]
    BY <1>s, <1>2, <2>1 DEF Count, StaleKeys, TypeInv
  <2>3. pc' = [pc EXCEPT ![i] = "cleanup"] /\ pc[i] = "count"
        /\ UNCHANGED <<now, buckets, granted, device, controller>>
    BY <1>2 DEF Count, Goto
  <2> QED
    BY <1>s, <2>1, <2>2, <2>3 DEF TypeInv
<1>3. ASSUME NEW i \in Callers, CleanUp(i) PROVE TypeInv'
  <2>1. UNCHANGED <<now, granted, device, controller>> /\ pc[i] = "cleanup"
    BY <1>3 DEF CleanUp
  <2>2. CASE stale[i] = {} /\ Goto(i, "global") /\ UNCHANGED <<buckets, stale>>
    BY <1>s, <2>1, <2>2 DEF TypeInv, Goto
  <2>3. ASSUME NEW k \in stale[i], buckets' = [buckets EXCEPT ![k] = None],
               stale' = [stale EXCEPT ![i] = stale[i] \ {k}], UNCHANGED pc
        PROVE  TypeInv'
    <3>1. buckets' \in [Keys -> Buckets \cup {None}] /\ stale' \in [Callers -> SUBSET Keys]
      BY <1>s, <2>3 DEF TypeInv
    <3>2. \A j \in Keys : buckets'[j] = buckets[j] \/ buckets'[j] = None
      BY <1>s, <2>3 DEF TypeInv
    <3>3. \A j \in Callers : stale'[j] \subseteq stale[j]
      BY <1>s, <2>3 DEF TypeInv
    <3> QED
      BY <1>s, <2>1, <2>3, <3>1, <3>2, <3>3 DEF TypeInv
  <2> QED
    BY <1>3, <2>2, <2>3 DEF CleanUp
<1>4. ASSUME NEW i \in Callers, CheckGlobal(i) PROVE TypeInv'
  <2>1. PICK k \in Keys, allowed \in BOOLEAN : check_key(k, allowed)
    BY Zenon, <1>s, <1>4, KeyFacts DEF CheckGlobal, TypeInv
  <2>2. /\ buckets' \in [Keys -> Buckets \cup {None}]
        /\ \A j \in Keys : buckets'[j] # None =>
             buckets'[j].tokens <= Capacity(j) /\ buckets'[j].last <= now
        /\ granted' \in [Keys -> Nat]
    BY <1>s, <2>1, CheckKeepsTypes
  <2>3. /\ UNCHANGED <<now, stale>> /\ pc[i] = "global"
        /\ \/ pc' = [pc EXCEPT ![i] = "device"] /\ UNCHANGED <<device, controller>>
           \/ /\ pc' = [pc EXCEPT ![i] = "idle"]
              /\ device' = [device EXCEPT ![i] = None]
              /\ controller' = [controller EXCEPT ![i] = None]
    BY Zenon, <1>4 DEF CheckGlobal, Goto, Return
  <2>4. /\ pc' \in [Callers -> {"idle", "count", "cleanup", "global", "device", "controller"}]
        /\ device' \in [Callers -> Devices \cup {None}]
        /\ controller' \in [Callers -> Controllers \cup {None}]
    BY <1>s, <2>3 DEF TypeInv
  <2>5. \A j \in Callers : pc'[j] # "idle" =>
          pc[j] # "idle" /\ device'[j] = device[j] /\ controller'[j] = controller[j]
    BY <1>s, <2>3 DEF TypeInv
  <2>6. \A j \in Callers : pc'[j] # "cleanup" => stale'[j] = {}
    BY <1>s, <2>3 DEF TypeInv
  <2> QED
    BY <1>s, <2>2, <2>3, <2>4, <2>5, <2>6 DEF TypeInv
<1>5. ASSUME NEW i \in Callers, CheckDevice(i) PROVE TypeInv'
  <2>1. PICK k \in Keys, allowed \in BOOLEAN : check_key(k, allowed)
    BY Zenon, <1>s, <1>5, KeyFacts DEF CheckDevice, TypeInv
  <2>2. /\ buckets' \in [Keys -> Buckets \cup {None}]
        /\ \A j \in Keys : buckets'[j] # None =>
             buckets'[j].tokens <= Capacity(j) /\ buckets'[j].last <= now
        /\ granted' \in [Keys -> Nat]
    BY <1>s, <2>1, CheckKeepsTypes
  <2>3. /\ UNCHANGED <<now, stale>> /\ pc[i] = "device"
        /\ \/ pc' = [pc EXCEPT ![i] = "controller"] /\ UNCHANGED <<device, controller>>
           \/ /\ pc' = [pc EXCEPT ![i] = "idle"]
              /\ device' = [device EXCEPT ![i] = None]
              /\ controller' = [controller EXCEPT ![i] = None]
    BY Zenon, <1>5 DEF CheckDevice, Goto, Return
  <2>4. /\ pc' \in [Callers -> {"idle", "count", "cleanup", "global", "device", "controller"}]
        /\ device' \in [Callers -> Devices \cup {None}]
        /\ controller' \in [Callers -> Controllers \cup {None}]
    BY <1>s, <2>3 DEF TypeInv
  <2>5. \A j \in Callers : pc'[j] # "idle" =>
          pc[j] # "idle" /\ device'[j] = device[j] /\ controller'[j] = controller[j]
    BY <1>s, <2>3 DEF TypeInv
  <2>6. \A j \in Callers : pc'[j] # "cleanup" => stale'[j] = {}
    BY <1>s, <2>3 DEF TypeInv
  <2> QED
    BY <1>s, <2>2, <2>3, <2>4, <2>5, <2>6 DEF TypeInv
<1>6. ASSUME NEW i \in Callers, CheckController(i) PROVE TypeInv'
  <2>1. PICK k \in Keys, allowed \in BOOLEAN : check_key(k, allowed)
    BY <1>s, <1>6, KeyFacts DEF CheckController, TypeInv
  <2>2. /\ buckets' \in [Keys -> Buckets \cup {None}]
        /\ \A j \in Keys : buckets'[j] # None =>
             buckets'[j].tokens <= Capacity(j) /\ buckets'[j].last <= now
        /\ granted' \in [Keys -> Nat]
    BY <1>s, <2>1, CheckKeepsTypes
  <2>3. /\ UNCHANGED <<now, stale>> /\ pc[i] = "controller"
        /\ \/ pc' = [pc EXCEPT ![i] = "idle"] /\ UNCHANGED <<device, controller>>
           \/ /\ pc' = [pc EXCEPT ![i] = "idle"]
              /\ device' = [device EXCEPT ![i] = None]
              /\ controller' = [controller EXCEPT ![i] = None]
    BY <1>6 DEF CheckController, Goto, Return
  <2>4. /\ pc' \in [Callers -> {"idle", "count", "cleanup", "global", "device", "controller"}]
        /\ device' \in [Callers -> Devices \cup {None}]
        /\ controller' \in [Callers -> Controllers \cup {None}]
    BY <1>s, <2>3 DEF TypeInv
  <2>5. \A j \in Callers : pc'[j] # "idle" =>
          pc[j] # "idle" /\ device'[j] = device[j] /\ controller'[j] = controller[j]
    BY <1>s, <2>3 DEF TypeInv
  <2>6. \A j \in Callers : pc'[j] # "cleanup" => stale'[j] = {}
    BY <1>s, <2>3 DEF TypeInv
  <2> QED
    BY <1>s, <2>2, <2>3, <2>4, <2>5, <2>6 DEF TypeInv
<1>7. ASSUME Tick PROVE TypeInv'
  BY <1>s, <1>7 DEF Tick, callerVars, TypeInv, Buckets
<1>8. CASE UNCHANGED vars
  BY <1>s, <1>8 DEF vars, callerVars, TypeInv
<1> QED
  BY Zenon, <1>s, <1>1, <1>2, <1>3, <1>4, <1>5, <1>6, <1>7, <1>8 DEF Next

-----------------------------------------------------------------------------
RateInv ==
  \A k \in Keys : LongLived(k) =>
    Earned(RateOf(k), Bucketful(k), buckets[k], granted[k], Cardinality(Removers(k)), now)

(* Those about to remove a bucket are callers. *)
LEMMA RemoverFacts ==
  ASSUME NEW k
  PROVE  /\ IsFiniteSet(Removers(k)) /\ Cardinality(Removers(k)) \in Nat
         /\ Cardinality(Removers(k)) <= Cardinality(Callers)
<1>1. Removers(k) \subseteq Callers
  BY DEF Removers
<1> QED
  BY <1>1, ConstantFacts, FS_Subset, FS_CardinalityType


(* Every step keeps the account of every key. *)
LEMMA NextRateInv ==
  TypeInv /\ RateInv /\ [Next]_vars => RateInv'
<1>s. SUFFICES ASSUME TypeInv, RateInv, [Next]_vars PROVE RateInv'
  OBVIOUS
<1>t. /\ buckets \in [Keys -> Buckets \cup {None}] /\ granted \in [Keys -> Nat]
      /\ now \in Nat /\ stale \in [Callers -> SUBSET Keys]
      /\ \A k \in Keys : buckets[k] # None => buckets[k].last <= now
  BY <1>s DEF TypeInv
<1>r. \A k \in Keys : LongLived(k) =>
        Earned(RateOf(k), Bucketful(k), buckets[k], granted[k], Cardinality(Removers(k)), now)
  BY <1>s DEF RateInv
<1>n. ASSUME NEW k PROVE Removers(k)' = {i \in Callers : k \in stale'[i]}
  BY DEF Removers
<1>p. (\A k \in Keys : LongLived(k) =>
         Earned(RateOf(k), Bucketful(k), buckets'[k], granted'[k],
                Cardinality(Removers(k)'), now'))
      => RateInv'
  BY DEF RateInv, Earned, Removers
<1>u. ASSUME UNCHANGED <<buckets, granted, stale, now>> PROVE RateInv'
  <2>1. \A k : Removers(k)' = Removers(k)
    BY <1>n, <1>u DEF Removers
  <2> QED
    BY <1>r, <1>p, <1>u, <2>1
<1>c. ASSUME NEW k \in Keys, NEW allowed \in BOOLEAN, check_key(k, allowed),
             UNCHANGED <<now, stale>>
      PROVE  RateInv'
  <2>1. \A j : Removers(j)' = Removers(j)
    BY <1>n, <1>c DEF Removers
  <2>2. CASE UNCHANGED <<buckets, granted>>
    BY <1>u, <1>c, <2>2
  <2>3. ASSUME NEW b \in Buckets, NEW g \in Nat,
               buckets' = [buckets EXCEPT ![k] = b], granted' = [granted EXCEPT ![k] = g],
               \A s \in Nat :
                 /\ LongLived(k) /\ s <= Cardinality(Callers)
                 /\ Earned(RateOf(k), Bucketful(k), buckets[k], granted[k], s, now)
                 => Earned(RateOf(k), Bucketful(k), b, g, s, now)
        PROVE  RateInv'
    <3>1. buckets'[k] = b /\ granted'[k] = g
      BY <1>t, <2>3
    <3>2. \A j \in Keys \ {k} : buckets'[j] = buckets[j] /\ granted'[j] = granted[j]
      BY <1>t, <2>3
    <3>3. Cardinality(Removers(k)) \in Nat /\ Cardinality(Removers(k)) <= Cardinality(Callers)
      BY RemoverFacts
    <3>4. LongLived(k) => Earned(RateOf(k), Bucketful(k), b, g, Cardinality(Removers(k)), now)
      BY <1>r, <2>3, <3>3
    <3>5. ASSUME NEW j \in Keys, LongLived(j)
          PROVE  Earned(RateOf(j), Bucketful(j), buckets'[j], granted'[j],
                        Cardinality(Removers(j)'), now')
      <4>1. CASE j = k
        BY <1>c, <2>1, <3>1, <3>4, <3>5, <4>1
      <4>2. CASE j # k
        BY <1>r, <1>c, <2>1, <3>2, <3>5, <4>2
      <4> QED
        BY <4>1, <4>2
    <3> QED
      BY <1>p, <3>5
  <2> QED
    BY <1>s, <1>c, <2>2, <2>3, CheckKeyEffect
<1>1. ASSUME NEW i \in Callers, NEW d \in Devices, NEW c \in Controllers,
              Call(i, d, c)
       PROVE  RateInv'
  BY <1>u, <1>1 DEF Call
<1>2. ASSUME NEW i \in Callers, Count(i) PROVE RateInv'
  <2>1. UNCHANGED <<now, buckets, granted>> /\ pc[i] = "count"
    BY <1>2 DEF Count
  <2>2. stale[i] = {}
    BY <1>s, <2>1 DEF TypeInv
  <2>3. /\ \A j \in Callers \ {i} : stale'[j] = stale[j]
        /\ stale'[i] \subseteq StaleKeys
    BY <1>t, <1>2 DEF Count
  <2>4. ASSUME NEW k \in Keys, LongLived(k)
        PROVE  Earned(RateOf(k), Bucketful(k), buckets'[k], granted'[k],
                      Cardinality(Removers(k)'), now')
    <3>1. CASE k \notin stale'[i]
      <4>1. Removers(k)' = Removers(k)
        BY <1>n, <2>2, <2>3, <3>1 DEF Removers
      <4> QED
        BY <1>r, <2>1, <2>4, <4>1
    <3>2. CASE k \in stale'[i]
      <4>1. buckets[k] # None /\ now - buckets[k].last >= bucket_ttl
        BY <2>3, <3>2 DEF StaleKeys
      <4>2. buckets[k].last \in Nat
        BY <1>t, <4>1 DEF Buckets
      <4>3. granted[k] * TokenUnits + buckets[k].tokens
              <= Bucketful(k) + RateOf(k) * buckets[k].last
        BY <1>t, <1>r, <2>4, <4>1, <4>2, ConstantFacts DEF Earned
      <4> QED
        BY <2>1, <4>1, <4>3 DEF Earned
    <3> QED
      BY <3>1, <3>2
  <2> QED
    BY <1>p, <2>4
<1>3. ASSUME NEW i \in Callers, CleanUp(i) PROVE RateInv'
  <2>1. UNCHANGED <<now, granted>>
    BY <1>3 DEF CleanUp
  <2>2. CASE UNCHANGED <<buckets, stale>>
    BY <1>u, <2>1, <2>2
  <2>3. ASSUME NEW k \in stale[i], buckets' = [buckets EXCEPT ![k] = None],
               stale' = [stale EXCEPT ![i] = stale[i] \ {k}]
        PROVE  RateInv'
    <3>1. k \in Keys /\ i \in Removers(k)
      BY <1>t, <2>3 DEF Removers
    <3>2. /\ stale'[i] = stale[i] \ {k}
          /\ \A j \in Callers \ {i} : stale'[j] = stale[j]
      BY <1>t, <2>3
    <3>3. Removers(k)' = Removers(k) \ {i}
      BY <1>n, <3>2 DEF Removers
    <3>4. \A j \in Keys \ {k} : Removers(j)' = Removers(j) /\ buckets'[j] = buckets[j]
      BY <1>t, <1>n, <2>3, <3>2 DEF Removers
    <3>5. /\ Cardinality(Removers(k)) \in Nat /\ Cardinality(Removers(k)) > 0
          /\ Cardinality(Removers(k)') = Cardinality(Removers(k)) - 1
          /\ Cardinality(Removers(k)) <= Cardinality(Callers)
      <4>1. IsFiniteSet(Removers(k)) /\ Cardinality(Removers(k)) \in Nat
            /\ Cardinality(Removers(k)) <= Cardinality(Callers)
        BY RemoverFacts
      <4>2. Cardinality(Removers(k) \ {i}) = Cardinality(Removers(k)) - 1
        BY Zenon, <3>1, <4>1, FS_RemoveElement
      <4>3. Cardinality(Removers(k)) # 0
        BY <3>1, <4>1, FS_EmptySet
      <4> QED
        BY <3>3, <4>1, <4>2, <4>3
    <3>6. buckets'[k] = None /\ buckets[k] \in Buckets \cup {None} /\ granted[k] \in Nat
      BY <1>t, <2>3, <3>1
    <3>7. ASSUME LongLived(k)
          PROVE  Earned(RateOf(k), Bucketful(k), None, granted[k],
                        Cardinality(Removers(k)) - 1, now)
      BY <1>t, <1>r, <3>1, <3>5, <3>6, <3>7, EarnedRemove
    <3>8. ASSUME NEW j \in Keys, LongLived(j)
          PROVE  Earned(RateOf(j), Bucketful(j), buckets'[j], granted'[j],
                        Cardinality(Removers(j)'), now')
      <4>1. CASE j = k
        BY <2>1, <3>5, <3>6, <3>7, <3>8, <4>1
      <4>2. CASE j # k
        BY <1>r, <2>1, <3>4, <3>8, <4>2
      <4> QED
        BY <4>1, <4>2
    <3> QED
      BY <1>p, <3>8
  <2> QED
    BY <1>3, <2>2, <2>3 DEF CleanUp
<1>4. ASSUME NEW i \in Callers, CheckGlobal(i) PROVE RateInv'
  <2>1. PICK k \in Keys, allowed \in BOOLEAN : check_key(k, allowed)
    BY Zenon, <1>s, <1>4, KeyFacts DEF CheckGlobal, TypeInv
  <2> QED
    BY <1>c, <1>4, <2>1 DEF CheckGlobal
<1>5. ASSUME NEW i \in Callers, CheckDevice(i) PROVE RateInv'
  <2>1. PICK k \in Keys, allowed \in BOOLEAN : check_key(k, allowed)
    BY Zenon, <1>s, <1>5, KeyFacts DEF CheckDevice, TypeInv
  <2> QED
    BY <1>c, <1>5, <2>1 DEF CheckDevice
<1>6. ASSUME NEW i \in Callers, CheckController(i) PROVE RateInv'
  <2>1. PICK k \in Keys, allowed \in BOOLEAN : check_key(k, allowed)
    BY <1>s, <1>6, KeyFacts DEF CheckController, TypeInv
  <2> QED
    BY <1>c, <1>6, <2>1 DEF CheckController
<1>7. ASSUME Tick PROVE RateInv'
  <2>1. UNCHANGED <<buckets, granted, stale>> /\ now' = now + 1
    BY <1>7 DEF Tick, callerVars
  <2>2. \A k : Removers(k)' = Removers(k)
    BY <1>n, <2>1 DEF Removers
  <2>3. ASSUME NEW k \in Keys, LongLived(k)
        PROVE  Earned(RateOf(k), Bucketful(k), buckets[k], granted[k],
                      Cardinality(Removers(k)), now + 1)
    <3>1. /\ buckets[k] \in Buckets \cup {None} /\ granted[k] \in Nat
          /\ buckets[k] # None => buckets[k].last <= now
          /\ Cardinality(Removers(k)) \in Nat
      BY <1>t, RemoverFacts
    <3> QED
      BY <1>t, <1>r, <2>3, <3>1, EarnedTick
  <2> QED
    BY <1>p, <2>1, <2>2, <2>3
<1>8. CASE UNCHANGED vars
  BY <1>u, <1>8 DEF vars, callerVars
<1> QED
  BY Zenon, <1>s, <1>1, <1>2, <1>3, <1>4, <1>5, <1>6, <1>7, <1>8 DEF Next


-----------------------------------------------------------------------------
(* A key without a rate gets nothing. *)
ZeroInv == \A k \in Keys : RateOf(k) = 0 => granted[k] = 0

(* check_key takes a token only for a key with a rate. *)
LEMMA CheckKeepsZero ==
  ASSUME TypeInv, ZeroInv, NEW k \in Keys, NEW allowed \in BOOLEAN, check_key(k, allowed)
  PROVE  ZeroInv'
<1>1. granted \in [Keys -> Nat]
  BY DEF TypeInv
<1>2. RateOf(k) \in Nat
  BY RateFacts
<1>3. RateOf(k) > 0 \/ UNCHANGED granted
  BY DEF check_key
<1>4. \A j \in Keys \ {k} : granted'[j] = granted[j]
  BY <1>1 DEF check_key, TakeToken, Grant
<1>5. ASSUME NEW j \in Keys, RateOf(j) = 0 PROVE granted'[j] = 0
  <2>1. granted[j] = 0
    BY <1>5 DEF ZeroInv
  <2> QED
    BY <1>2, <1>3, <1>4, <1>5, <2>1
<1> QED
  BY <1>5 DEF ZeroInv


(* A key without a rate still has nothing. *)
LEMMA NextZeroInv ==
  TypeInv /\ ZeroInv /\ [Next]_vars => ZeroInv'
<1>s. SUFFICES ASSUME TypeInv, ZeroInv, [Next]_vars PROVE ZeroInv'
  OBVIOUS
<1>1. ASSUME NEW i \in Callers, NEW d \in Devices, NEW c \in Controllers,
              Call(i, d, c)
       PROVE  ZeroInv'
  BY <1>s, <1>1 DEF Call, ZeroInv
<1>2. ASSUME NEW i \in Callers, Count(i) PROVE ZeroInv'
  BY <1>s, <1>2 DEF Count, ZeroInv
<1>3. ASSUME NEW i \in Callers, CleanUp(i) PROVE ZeroInv'
  BY <1>s, <1>3 DEF CleanUp, ZeroInv
<1>4. ASSUME NEW i \in Callers, CheckGlobal(i) PROVE ZeroInv'
  BY Zenon, <1>s, <1>4, KeyFacts, CheckKeepsZero DEF CheckGlobal, TypeInv
<1>5. ASSUME NEW i \in Callers, CheckDevice(i) PROVE ZeroInv'
  BY Zenon, <1>s, <1>5, KeyFacts, CheckKeepsZero DEF CheckDevice, TypeInv
<1>6. ASSUME NEW i \in Callers, CheckController(i) PROVE ZeroInv'
  BY <1>s, <1>6, KeyFacts, CheckKeepsZero DEF CheckController, TypeInv
<1>7. ASSUME Tick PROVE ZeroInv'
  BY <1>s, <1>7 DEF Tick, ZeroInv
<1>8. CASE UNCHANGED vars
  BY <1>s, <1>8 DEF vars, ZeroInv
<1> QED
  BY Zenon, <1>s, <1>1, <1>2, <1>3, <1>4, <1>5, <1>6, <1>7, <1>8 DEF Next


(* What is earned grows with time. *)
LEMMA ProductGrows ==
  ASSUME NEW r \in Nat, NEW l \in Nat, NEW t \in Nat, l <= t
  PROVE  r * l \in Nat /\ r * l <= r * t
<1>1. PICK d \in Nat : t = l + d
  <2>1. t - l \in Nat /\ t = l + (t - l)
    OBVIOUS
  <2> QED
    BY <2>1
<1>2. r * t = r * l + r * d /\ r * d \in Nat /\ r * l \in Nat
  BY <1>1
<1> QED
  BY <1>2

(* A key gets no more than its rate and one bucketful (RateLimiter::allow) *)
(* if its bucket, once stale, has earned what the callers could take by    *)
(* removing it.  bucket_ttl is 300 seconds: for a key with a rate of one   *)
(* request a second or more that allows for 299 callers at a time, each on *)
(* a thread of its own, since allow does not await.                        *)
THEOREM RateIsHeld ==
  (\A k \in Keys : RateOf(k) > 0 => LongLived(k)) => (Spec => []RateHeld)
<1> SUFFICES ASSUME \A k \in Keys : RateOf(k) > 0 => LongLived(k)
             PROVE  Spec => []RateHeld
  OBVIOUS
<1>1. Init => TypeInv /\ RateInv /\ ZeroInv
  <2> SUFFICES ASSUME Init PROVE TypeInv /\ RateInv /\ ZeroInv
    OBVIOUS
  <2>1. TypeInv
    BY ConstantFacts DEF Init, TypeInv
  <2>2. \A k : Removers(k) = {}
    BY DEF Init, Removers
  <2>3. \A k : Cardinality(Removers(k)) = 0
    BY <2>2, FS_EmptySet
  <2>4. \A k \in Keys : buckets[k] = None /\ granted[k] = 0
    BY DEF Init
  <2>5. RateInv
    BY <2>3, <2>4 DEF RateInv, Earned
  <2>6. ZeroInv
    BY <2>4 DEF ZeroInv
  <2> QED
    BY <2>1, <2>5, <2>6
<1>2. TypeInv /\ RateInv /\ ZeroInv /\ [Next]_vars => (TypeInv /\ RateInv /\ ZeroInv)'
  BY NextTypeInv, NextRateInv, NextZeroInv
<1>3. ASSUME TypeInv, RateInv, ZeroInv PROVE RateHeld
  <2> SUFFICES ASSUME NEW k \in Keys
               PROVE  granted[k] * TokenUnits <= Bucketful(k) + RateOf(k) * now
    BY DEF RateHeld, Bucketful
  <2>1. RateOf(k) > 0 =>
          Earned(RateOf(k), Bucketful(k), buckets[k], granted[k], Cardinality(Removers(k)), now)
    BY <1>3 DEF RateInv
  <2> DEFINE s == Cardinality(Removers(k))
             full == Bucketful(k)
             r == RateOf(k)
             g == granted[k]
  <2>2. /\ s \in Nat /\ full \in Nat /\ r \in Nat /\ g \in Nat /\ now \in Nat
    BY <1>3, RemoverFacts, RateFacts DEF TypeInv
  <2>3. (r = 0 /\ g = 0) \/ Earned(r, full, buckets[k], g, s, now)
    BY <1>3, <2>1, <2>2 DEF ZeroInv
  <2>4. buckets[k] # None => /\ buckets[k].tokens \in Nat /\ buckets[k].last \in Nat
                             /\ buckets[k].last <= now
    BY <1>3 DEF TypeInv, Buckets
  <2> HIDE DEF s, full, r, g
  <2>5. s * full \in Nat /\ r * now \in Nat /\ g * TokenUnits \in Nat
    BY <2>2, ConstantFacts
  <2>6. CASE r = 0 /\ g = 0
    <3>1. g * TokenUnits = 0
      BY <2>6, ConstantFacts
    <3> QED
      BY <2>2, <2>5, <3>1 DEF full, r, g
  <2>7. CASE Earned(r, full, buckets[k], g, s, now) /\ buckets[k] = None
    <3>1. g = 0 => g * TokenUnits = 0
      BY <2>2, ConstantFacts
    <3> QED
      BY <2>2, <2>5, <2>7, <3>1 DEF Earned, full, r, g
  <2>8. CASE Earned(r, full, buckets[k], g, s, now) /\ buckets[k] # None
    <3>1. r * buckets[k].last \in Nat /\ r * buckets[k].last <= r * now
      BY <2>2, <2>4, <2>8, ProductGrows
    <3>2. g * TokenUnits <= full + r * buckets[k].last
      BY <2>2, <2>4, <2>5, <2>8, <3>1 DEF Earned
    <3> QED
      BY <2>2, <2>5, <3>1, <3>2 DEF full, r, g
  <2> QED
    BY <2>3, <2>6, <2>7, <2>8
<1> QED
  BY <1>1, <1>2, <1>3, PTL DEF Spec

-----------------------------------------------------------------------------
(* Bandwidth.  Every variable has its type. *)
BandwidthTypes ==
  /\ windows \in [ByteKeys -> Windows \cup {None}]
  /\ step \in [Handlers -> Nat]
  /\ bytes \in [Handlers -> Sizes \cup {None}]
  /\ \A h \in Handlers : step[h] <= Len(KeysOf[h]) /\ (step[h] # 0 => bytes[h] \in Sizes)
  /\ passed \in [ByteKeys -> [Recent -> Nat]]
  /\ offered \in [ByteKeys -> [Recent -> Nat]]
  /\ refused \in ByteKeys \cup {None}
  /\ set_back \in SUBSET ByteKeys
  /\ leaps \in [Recent -> Nat]

(* What the check of a key with limit l and window w has let pass, p, when *)
(* the clock was set forward j times: within the window's age, what it     *)
(* counted up to the limit; in a longer time also what one earlier window  *)
(* let pass, which is at most l; and l more for every time the clock was   *)
(* set forward.                                                            *)
Times(j, l) == j * l

Passed(l, w, p, j) ==
  /\ w = None => \A t \in Recent : p[t] = 0
  /\ w # None =>
       \A t \in Recent :
         /\ t < w.age => p[t] <= AtMost(w.count, l) + Times(j[t], l)
         /\ p[t] <= AtMost(w.count, l) + l + Times(j[t], l)

(* What was recorded while the window was open came within its age. *)
Offered(l, w, o) ==
  w # None /\ w.age < TicksPerSecond =>
    /\ w.age \in Nat
    /\ \A t \in Recent : w.age <= t => o[t] >= AtMost(w.count, l + 1)

BandwidthInv ==
  /\ BandwidthTypes
  /\ \A k \in ByteKeys : Passed(limit[k], windows[k], passed[k], leaps)
  /\ \A k \in ByteKeys \ set_back : Offered(limit[k], windows[k], offered[k])
  /\ RefusalJustified

(* Products of naturals. *)
LEMMA TimesFacts ==
  ASSUME NEW j \in Nat, NEW l \in Nat
  PROVE  /\ Times(j, l) \in Nat
         /\ Times(0, l) = 0
         /\ Times(j + 1, l) = Times(j, l) + l
BY DEF Times

(* The constants, one by one. *)
LEMMA BandwidthConstants ==
  /\ MaxCount \in Nat /\ MaxBack \in Nat /\ MaxLeaps \in Nat
  /\ TicksPerSecond \in Nat /\ TicksPerSecond > 0
  /\ limit \in [ByteKeys -> Nat]
  /\ \A k \in ByteKeys : limit[k] <= MaxCount
  /\ Sizes \subseteq Nat
  /\ \A h \in Handlers : /\ KeysOf[h] \in Seq(ByteKeys) /\ Len(KeysOf[h]) \in Nat
                         /\ Len(KeysOf[h]) > 0
  /\ None \notin Windows /\ None \notin ByteKeys /\ None \notin Nat
<1>1. \A h \in Handlers : /\ KeysOf[h] \in Seq(ByteKeys) /\ Len(KeysOf[h]) \in Nat
                          /\ Len(KeysOf[h]) > 0
  BY BandwidthAssumption DEF BandwidthParameters
<1>2. {MaxCount, MaxBack, MaxLeaps} \subseteq Nat /\ TicksPerSecond \in Nat /\ TicksPerSecond > 0
  BY BandwidthAssumption, RateAssumption DEF BandwidthParameters
<1>3. None \notin Windows
  <2>1. Windows \subseteq [count : Nat, age : Int]
    BY <1>2 DEF Windows
  <2> QED
    BY Zenon, <2>1, BandwidthAssumption DEF BandwidthParameters
<1> QED
  BY <1>1, <1>2, <1>3, BandwidthAssumption DEF BandwidthParameters

(* The window after the rotation of record_key, and after its addition. *)
Turned(w) ==
  IF w = None \/ w.age >= TicksPerSecond THEN [count |-> 0, age |-> 0] ELSE w

Counted(w, n) ==
  IF checked_add(w.count, n) = None THEN w
  ELSE [w EXCEPT !.count = checked_add(w.count, n)]

Allowed(l, w, n) ==
  checked_add(w.count, n) # None /\ checked_add(w.count, n) <= l

(* What has passed and what was recorded after a message of n bytes. *)
LetPass(l, w, n, p) ==
  IF Allowed(l, w, n) THEN [t \in Recent |-> p[t] + n] ELSE p

Recorded(l, n, o) == [t \in Recent |-> AtMost(o[t] + n, l + 1)]

(* A window's parts. *)
LEMMA WindowFacts ==
  ASSUME NEW w \in Windows
  PROVE  /\ w.count \in Nat /\ w.count <= MaxCount
         /\ w.age \in Int /\ w.age <= TicksPerSecond /\ w.age >= -MaxBack
         /\ w # None
BY BandwidthConstants DEF Windows

(* Rotation keeps the account of what passed, and that of what was         *)
(* recorded begins anew.                                                   *)
LEMMA TurnedFacts ==
  ASSUME NEW w \in Windows \cup {None}, NEW l \in Nat,
         NEW p \in [Recent -> Nat], NEW o \in [Recent -> Nat], NEW j \in [Recent -> Nat]
  PROVE  /\ Turned(w) \in Windows
         /\ Turned(w).age < TicksPerSecond
         /\ Passed(l, w, p, j) => Passed(l, Turned(w), p, j)
         /\ Offered(l, w, o) => Offered(l, Turned(w), o)
         /\ w = None \/ w.age >= TicksPerSecond => Offered(l, Turned(w), o)
<1> DEFINE fresh == [count |-> 0, age |-> 0]
<1>0. /\ fresh \in Windows /\ fresh.count = 0 /\ fresh.age = 0 /\ fresh # None
      /\ \A t \in Recent : t \in Nat /\ t < TicksPerSecond
  BY BandwidthConstants DEF Windows, Recent
<1> HIDE DEF fresh
<1>j. \A t \in Recent : Times(j[t], l) \in Nat
  BY Zenon, TimesFacts
<1>o. Offered(l, fresh, o)
  BY <1>0, BandwidthConstants DEF Offered, AtMost, Recent
<1>1. CASE w = None
  <2>1. Turned(w) = fresh
    BY <1>1 DEF Turned, fresh
  <2>2. Passed(l, w, p, j) => Passed(l, fresh, p, j)
    BY <1>0, <1>1, <1>j DEF Passed, AtMost
  <2> QED
    BY <2>1, <2>2, <1>o, <1>0, BandwidthConstants
<1>2. CASE w # None /\ w.age >= TicksPerSecond
  <2>1. Turned(w) = fresh
    BY <1>2 DEF Turned, fresh
  <2>2. ASSUME Passed(l, w, p, j) PROVE Passed(l, fresh, p, j)
    <3>1. w \in Windows /\ w.count \in Nat /\ w.age \in Int
      BY <1>2, WindowFacts
    <3>2. AtMost(w.count, l) <= l /\ AtMost(w.count, l) \in Nat
      BY <3>1 DEF AtMost
    <3>3. \A t \in Recent : p[t] <= l + Times(j[t], l)
      <4> TAKE t \in Recent
      <4>1. t < w.age
        BY <1>0, <1>2, <3>1, BandwidthConstants
      <4>2. p[t] <= AtMost(w.count, l) + Times(j[t], l)
        BY <4>1, <1>2, <2>2 DEF Passed
      <4>3. p[t] \in Nat /\ Times(j[t], l) \in Nat
        BY <1>j
      <4> HIDE DEF fresh
      <4> QED
        BY <4>2, <4>3, <3>2
    <3>4. AtMost(fresh.count, l) = 0
      BY <1>0 DEF AtMost
    <3>5. \A t \in Recent : ~(t < fresh.age)
      BY <1>0
    <3> QED
      BY <3>3, <3>4, <3>5, <1>0, <1>j DEF Passed
  <2> QED
    BY <2>1, <2>2, <1>o, <1>0, BandwidthConstants
<1>3. CASE w # None /\ ~(w.age >= TicksPerSecond)
  <2>1. Turned(w) = w /\ w \in Windows
    BY <1>3 DEF Turned
  <2> QED
    BY <2>1, <1>3, WindowFacts, BandwidthConstants
<1> QED
  BY <1>1, <1>2, <1>3

(* So does counting a message, which is let pass only within the limit;    *)
(* and it is refused only if more than the limit was recorded.             *)
LEMMA CountedFacts ==
  ASSUME NEW w \in Windows, w.age < TicksPerSecond,
         NEW l \in Nat, l <= MaxCount, NEW n \in Nat,
         NEW p \in [Recent -> Nat], NEW o \in [Recent -> Nat], NEW j \in [Recent -> Nat]
  PROVE  /\ Counted(w, n) \in Windows
         /\ LetPass(l, w, n, p) \in [Recent -> Nat]
         /\ Recorded(l, n, o) \in [Recent -> Nat]
         /\ Passed(l, w, p, j) => Passed(l, Counted(w, n), LetPass(l, w, n, p), j)
         /\ Offered(l, w, o) => Offered(l, Counted(w, n), Recorded(l, n, o))
         /\ Offered(l, w, o) /\ ~Allowed(l, w, n) => Recorded(l, n, o)[LastSecond] > l
<1> DEFINE v == Counted(w, n)
           q == LetPass(l, w, n, p)
           u == Recorded(l, n, o)
<1>0. /\ LastSecond \in Recent /\ LastSecond \in Nat /\ LastSecond = TicksPerSecond - 1
      /\ \A t \in Recent : t \in Nat /\ (t # 0 => t - 1 \in Recent)
  BY BandwidthConstants DEF LastSecond, Recent
<1>1. /\ w.count \in Nat /\ w.age \in Int /\ w.count <= MaxCount /\ w # None
  BY WindowFacts
<1>2. /\ v \in Windows /\ v # None /\ v.age = w.age
      /\ w.count + n <= MaxCount =>
           v.count = w.count + n /\ (Allowed(l, w, n) <=> w.count + n <= l)
      /\ w.count + n > MaxCount => v.count = w.count /\ ~Allowed(l, w, n)
  <2>1. CASE w.count + n <= MaxCount
    <3>1. checked_add(w.count, n) = w.count + n /\ w.count + n \in Nat
      BY <1>1, <2>1 DEF checked_add
    <3>2. v = [w EXCEPT !.count = w.count + n]
      BY <3>1, BandwidthConstants DEF Counted
    <3>3. [w EXCEPT !.count = w.count + n] \in Windows
      <4>1. w.count + n \in 0..MaxCount
        BY <3>1, <2>1, BandwidthConstants
      <4> QED
        BY <4>1 DEF Windows
    <3>4. v.age = w.age /\ v.count = w.count + n
      BY <3>2 DEF Windows
    <3>5. Allowed(l, w, n) <=> w.count + n <= l
      BY <3>1, BandwidthConstants DEF Allowed
    <3>6. v # None
      BY Zenon, <3>2, <3>3, BandwidthConstants
    <3>7. ~(w.count + n > MaxCount)
      BY <2>1, <1>1, BandwidthConstants
    <3> QED
      BY <3>2, <3>3, <3>4, <3>5, <3>6, <3>7
  <2>2. CASE ~(w.count + n <= MaxCount)
    <3>1. checked_add(w.count, n) = None
      BY <2>2 DEF checked_add
    <3> QED
      BY <3>1, <2>2, <1>1, BandwidthConstants DEF Counted, Allowed
  <2> QED
    BY <2>1, <2>2
<1>3. /\ q \in [Recent -> Nat] /\ u \in [Recent -> Nat]
      /\ \A t \in Recent : /\ u[t] = IF o[t] + n < l + 1 THEN o[t] + n ELSE l + 1
                           /\ p[t] \in Nat /\ o[t] \in Nat
                           /\ q[t] = IF Allowed(l, w, n) THEN p[t] + n ELSE p[t]
  BY DEF AtMost, LetPass, Recorded
<1>4. v.count \in Nat /\ v.age \in Int /\ v.count <= MaxCount
  BY <1>2, WindowFacts
<1> HIDE DEF q, u
<1>5. Passed(l, w, p, j) => Passed(l, v, q, j)
  <2> HIDE DEF v
  <2>0. \A t \in Recent : Times(j[t], l) \in Nat
    BY TimesFacts
  <2>1. CASE Allowed(l, w, n)
    <3>1. v.count = w.count + n /\ w.count + n <= l
      BY <1>1, <1>2, <1>4, <2>1, BandwidthConstants
    <3> QED
      BY <2>0, <3>1, <1>1, <1>2, <1>3, <1>4, <2>1 DEF Passed, AtMost
  <2>2. CASE ~Allowed(l, w, n)
    <3>1. v.count >= w.count
      BY <1>1, <1>2, <1>4, BandwidthConstants
    <3> QED
      BY <2>0, <3>1, <1>1, <1>2, <1>3, <1>4, <2>2 DEF Passed, AtMost
  <2> QED
    BY <2>1, <2>2
<1>6. Offered(l, w, o) => Offered(l, v, u)
  <2> HIDE DEF v
  <2>1. v.count <= w.count + n
    BY <1>1, <1>2, <1>4, BandwidthConstants
  <2> QED
    BY <2>1, <1>0, <1>1, <1>2, <1>3, <1>4 DEF Offered, AtMost
<1>7. Offered(l, w, o) /\ ~Allowed(l, w, n) => u[LastSecond] > l
  <2> SUFFICES ASSUME Offered(l, w, o), ~Allowed(l, w, n) PROVE u[LastSecond] > l
    OBVIOUS
  <2>1. w.count + n > l
    BY <1>1, <1>2, BandwidthConstants
  <2>2. o[LastSecond] >= AtMost(w.count, l + 1)
    BY <1>0, <1>1, BandwidthConstants DEF Offered
  <2> QED
    BY <2>1, <2>2, <1>0, <1>1, <1>3 DEF AtMost
<1> QED
  BY <1>2, <1>3, <1>5, <1>6, <1>7 DEF q, u

(* A window a tick later. *)
Aged(w) == IF w = None \/ w.age = TicksPerSecond THEN w ELSE [w EXCEPT !.age = @ + 1]

(* The passing of a tick keeps the two accounts. *)
LEMMA AgedFacts ==
  ASSUME NEW w \in Windows \cup {None}, NEW l \in Nat,
         NEW p \in [Recent -> Nat], NEW o \in [Recent -> Nat], NEW j \in [Recent -> Nat]
  PROVE  /\ Aged(w) \in Windows \cup {None}
         /\ Shift(p) \in [Recent -> Nat]
         /\ Passed(l, w, p, j) => Passed(l, Aged(w), Shift(p), Shift(j))
         /\ Offered(l, w, o) => Offered(l, Aged(w), Shift(o))
<1> DEFINE q == Shift(p)
           u == Shift(o)
           i == Shift(j)
           v == Aged(w)
<1>0. /\ LastSecond \in Recent /\ LastSecond \in Nat /\ LastSecond = TicksPerSecond - 1
      /\ \A t \in Recent : /\ t \in Nat /\ t < TicksPerSecond
                           /\ t # 0 => t - 1 \in Recent /\ t - 1 \in Nat
  BY BandwidthConstants DEF LastSecond, Recent
<1>1. /\ q \in [Recent -> Nat]
      /\ \A t \in Recent : q[t] = IF t = 0 THEN 0 ELSE p[t - 1]
      /\ \A t \in Recent : u[t] = IF t = 0 THEN 0 ELSE o[t - 1]
      /\ \A t \in Recent : i[t] = IF t = 0 THEN 0 ELSE j[t - 1]
      /\ \A t \in Recent : p[t] \in Nat /\ o[t] \in Nat /\ j[t] \in Nat
  BY <1>0 DEF Shift
<1>2. /\ v \in Windows \cup {None}
      /\ (v = None) <=> (w = None)
      /\ w # None => /\ v.count = w.count /\ w.count \in Nat /\ w.age \in Int /\ v.age \in Int
                     /\ v.age = IF w.age = TicksPerSecond THEN w.age ELSE w.age + 1
                     /\ w.age <= TicksPerSecond
  <2>1. CASE w = None \/ w.age = TicksPerSecond
    <3>1. v = w
      BY <2>1 DEF Aged
    <3>2. w # None => w \in Windows
      OBVIOUS
    <3> HIDE DEF v
    <3> QED
      BY <3>1, <3>2, <2>1, WindowFacts
  <2>2. CASE ~(w = None \/ w.age = TicksPerSecond)
    <3>1. v = [w EXCEPT !.age = w.age + 1] /\ w \in Windows
      BY <2>2 DEF Aged
    <3>2. /\ w.count \in Nat /\ w.age \in Int /\ w.age < TicksPerSecond
          /\ w.age + 1 \in (-MaxBack)..TicksPerSecond
      BY <3>1, <2>2, WindowFacts, BandwidthConstants
    <3>3. [w EXCEPT !.age = w.age + 1] \in Windows
      BY <3>1, <3>2 DEF Windows
    <3>4. v.count = w.count /\ v.age = w.age + 1
      BY <3>1 DEF Windows
    <3>5. v # None
      BY Zenon, <3>1, <3>3, BandwidthConstants
    <3> HIDE DEF v
    <3> QED
      BY <3>1, <3>2, <3>3, <3>4, <3>5, <2>2, BandwidthConstants
  <2> QED
    BY <2>1, <2>2
<1> HIDE DEF q, u, i, v
<1>3. Passed(l, w, p, j) => Passed(l, v, q, i)
  <2> SUFFICES ASSUME Passed(l, w, p, j) PROVE Passed(l, v, q, i)
    OBVIOUS
  <2>1. v = None => \A t \in Recent : q[t] = 0
    BY <1>0, <1>1, <1>2 DEF Passed
  <2>2. ASSUME v # None, NEW t \in Recent
        PROVE  /\ t < v.age => q[t] <= AtMost(v.count, l) + Times(i[t], l)
               /\ q[t] <= AtMost(v.count, l) + l + Times(i[t], l)
    <3>1. w # None /\ AtMost(w.count, l) \in Nat /\ v.count = w.count
      BY <2>2, <1>2 DEF AtMost
    <3>2. CASE t = 0
      <4>1. q[t] = 0 /\ i[t] = 0
        BY <3>2, <1>1
      <4>2. Times(i[t], l) = 0
        BY <4>1, TimesFacts
      <4> QED
        BY <4>1, <4>2, <3>1
    <3>3. CASE t # 0
      <4>1. t - 1 \in Recent /\ q[t] = p[t - 1] /\ i[t] = j[t - 1]
        BY <3>3, <1>0, <1>1
      <4>2. t < v.age => t - 1 < w.age
        <5>1. v.age <= w.age + 1 /\ v.age \in Int /\ w.age \in Int
          BY <1>2, <3>1, BandwidthConstants
        <5> QED
          BY <5>1, <1>0
      <4> QED
        BY <4>1, <4>2, <3>1 DEF Passed
    <3> QED
      BY <3>2, <3>3
  <2> QED
    BY <2>1, <2>2 DEF Passed
<1>4. Offered(l, w, o) => Offered(l, v, u)
  <2> SUFFICES ASSUME Offered(l, w, o), v # None, v.age < TicksPerSecond
               PROVE  /\ v.age \in Nat
                      /\ \A t \in Recent : v.age <= t => u[t] >= AtMost(v.count, l + 1)
    BY DEF Offered
  <2>1. w # None /\ v.count = w.count /\ w.age < TicksPerSecond /\ v.age = w.age + 1
    BY <1>2, BandwidthConstants
  <2>2. w.age \in Nat /\ \A t \in Recent : w.age <= t => o[t] >= AtMost(w.count, l + 1)
    BY <2>1 DEF Offered
  <2> QED
    BY <2>1, <2>2, <1>0, <1>1
<1> QED
  BY <1>1, <1>2, <1>3, <1>4 DEF q, u, i, v

(* A window with another age. *)
LEMMA SetClockFacts ==
  ASSUME NEW w \in Windows, NEW a \in (-MaxBack)..TicksPerSecond,
         NEW v, v = [w EXCEPT !.age = a]
  PROVE  v \in Windows /\ v # None /\ v.count = w.count /\ v.age = a
<1>1. v \in Windows
  BY DEF Windows
<1>2. v.count = w.count /\ v.age = a
  BY DEF Windows
<1>3. v # None
  BY Zenon, <1>1, BandwidthConstants
<1> QED
  BY <1>1, <1>2, <1>3

(* Setting the clock back makes windows younger, which keeps what passed. *)
LEMMA YoungerFacts ==
  ASSUME NEW w \in Windows, NEW v \in Windows, v.count = w.count, v.age <= w.age,
         NEW l \in Nat, NEW p \in [Recent -> Nat], NEW j \in [Recent -> Nat],
         Passed(l, w, p, j)
  PROVE  Passed(l, v, p, j)
<1>1. w # None /\ w.age \in Int /\ v.age \in Int
  BY WindowFacts
<1>2. \A t \in Recent : t < v.age => t < w.age
  BY <1>1, BandwidthConstants DEF Recent
<1> QED
  BY <1>1, <1>2, WindowFacts DEF Passed

(* Setting it forward makes them older, which keeps what was recorded; and *)
(* counting the leap makes up for what may have passed.                    *)
LEMMA OlderFacts ==
  ASSUME NEW w \in Windows, NEW v \in Windows, v.count = w.count, v.age >= w.age,
         NEW l \in Nat, NEW p \in [Recent -> Nat], NEW o \in [Recent -> Nat],
         NEW j \in [Recent -> Nat], NEW i, \A t \in Recent : i[t] = j[t] + 1
  PROVE  /\ Passed(l, w, p, j) => Passed(l, v, p, i)
         /\ Offered(l, w, o) => Offered(l, v, o)
<1>1. w # None /\ v # None /\ w.count \in Nat /\ w.age \in Int /\ v.age \in Int
  BY WindowFacts
<1>2. Passed(l, w, p, j) => Passed(l, v, p, i)
  <2> SUFFICES ASSUME Passed(l, w, p, j), NEW t \in Recent
               PROVE  /\ p[t] <= AtMost(v.count, l) + Times(i[t], l)
                      /\ p[t] <= AtMost(v.count, l) + l + Times(i[t], l)
    BY <1>1 DEF Passed
  <2>1. AtMost(w.count, l) \in Nat /\ p[t] \in Nat /\ j[t] \in Nat
    BY <1>1 DEF AtMost
  <2>2. Times(j[t], l) \in Nat /\ Times(i[t], l) = Times(j[t], l) + l
    BY <2>1, TimesFacts
  <2>3. p[t] <= AtMost(w.count, l) + l + Times(j[t], l)
    BY <1>1 DEF Passed
  <2> QED
    BY <2>1, <2>2, <2>3
<1>3. Offered(l, w, o) => Offered(l, v, o)
  <2> SUFFICES ASSUME Offered(l, w, o), v.age < TicksPerSecond
               PROVE  /\ v.age \in Nat
                      /\ \A t \in Recent : v.age <= t => o[t] >= AtMost(v.count, l + 1)
    BY DEF Offered
  <2>1. w.age < TicksPerSecond
    BY <1>1, BandwidthConstants
  <2>2. w.age \in Nat /\ \A t \in Recent : w.age <= t => o[t] >= AtMost(w.count, l + 1)
    BY <1>1, <2>1 DEF Offered
  <2>3. \A t \in Recent : v.age <= t => w.age <= t
    <3>1. Recent \subseteq Int
      BY BandwidthConstants DEF Recent
    <3> QED
      BY <1>1, <3>1
  <2>4. v.age \in Nat
    BY <1>1, <2>2
  <2>5. AtMost(v.count, l + 1) = AtMost(w.count, l + 1)
    OBVIOUS
  <2> QED
    BY Zenon, <2>2, <2>3, <2>4, <2>5
<1> QED
  BY <1>2, <1>3

(* Init, in the words of the invariant. *)
LEMMA InitBandwidthInv == BandwidthInit => BandwidthInv
<1> SUFFICES ASSUME BandwidthInit PROVE BandwidthInv
  OBVIOUS
<1>1. BandwidthTypes
  <2>1. \A h \in Handlers : step[h] = 0 /\ 0 <= Len(KeysOf[h])
    BY BandwidthConstants DEF BandwidthInit
  <2>2. /\ passed \in [ByteKeys -> [Recent -> Nat]] /\ offered = passed
        /\ windows \in [ByteKeys -> Windows \cup {None}]
        /\ step \in [Handlers -> Nat] /\ bytes \in [Handlers -> Sizes \cup {None}]
        /\ refused = None /\ set_back = {} /\ leaps \in [Recent -> Nat]
    BY DEF BandwidthInit
  <2> QED
    BY Zenon, <2>1, <2>2 DEF BandwidthTypes
<1>3. ASSUME NEW k \in ByteKeys
      PROVE  Passed(limit[k], windows[k], passed[k], leaps)
  BY DEF BandwidthInit, Passed
<1>4. \A k \in ByteKeys : Offered(limit[k], windows[k], offered[k])
  BY DEF BandwidthInit, Offered
<1>5. RefusalJustified
  BY DEF BandwidthInit, RefusalJustified
<1> QED
  BY <1>1, <1>3, <1>4, <1>5 DEF BandwidthInv

(* What record_key does to its key, in the words of the lemmas above. *)
LEMMA RecordEffect ==
  ASSUME BandwidthTypes, NEW h \in Handlers, record_key(h),
         NEW k, k = KeysOf[h][step[h]]
  PROVE  LET w == Turned(windows[k])
             n == bytes[h]
         IN /\ k \in ByteKeys /\ n \in Nat
            /\ windows' = [windows EXCEPT ![k] = Counted(w, n)]
            /\ offered' = [offered EXCEPT ![k] = Recorded(limit[k], n, offered[k])]
            /\ passed' = [passed EXCEPT ![k] = LetPass(limit[k], w, n, passed[k])]
            /\ refused' = IF Allowed(limit[k], w, n) THEN None ELSE k
            /\ step' = [step EXCEPT ![h] = IF step[h] = Len(KeysOf[h]) THEN 0 ELSE step[h] + 1]
            /\ bytes' = [bytes EXCEPT ![h] =
                           IF step[h] = Len(KeysOf[h]) THEN None ELSE bytes[h]]
            /\ leaps' = leaps
            /\ set_back' = IF windows[k] = None \/ windows[k].age >= TicksPerSecond
                            THEN set_back \ {k} ELSE set_back
<1>1. /\ step[h] \in Nat /\ step[h] # 0 /\ step[h] <= Len(KeysOf[h])
      /\ bytes[h] \in Sizes
  BY DEF BandwidthTypes, record_key
<1>2. k \in ByteKeys
  <2>1. KeysOf[h] \in Seq(ByteKeys) /\ Len(KeysOf[h]) \in Nat
    BY BandwidthConstants
  <2>2. step[h] \in 1..Len(KeysOf[h])
    BY <1>1, <2>1
  <2> QED
    BY <2>1, <2>2
<1>3. bytes[h] \in Nat
  BY Zenon, <1>1, BandwidthConstants
<1>4. Rotated(k) = Turned(windows[k])
  BY DEF Rotated, Rotates, Turned
<1> QED
  BY Zenon, <1>2, <1>3, <1>4 DEF record_key, Rotates, Allowed, Counted, LetPass, Recorded

(* A recording keeps the types and both accounts. *)
LEMMA RecordBandwidthInv ==
  ASSUME BandwidthInv, NEW h \in Handlers, record_key(h)
  PROVE  BandwidthInv'
<1> DEFINE k == KeysOf[h][step[h]]
           l == limit[k]
           w == Turned(windows[k])
           n == bytes[h]
<1>0. BandwidthTypes
  BY DEF BandwidthInv
<1>1. /\ k \in ByteKeys /\ n \in Nat
      /\ windows' = [windows EXCEPT ![k] = Counted(w, n)]
      /\ offered' = [offered EXCEPT ![k] = Recorded(limit[k], n, offered[k])]
      /\ passed' = [passed EXCEPT ![k] = LetPass(limit[k], w, n, passed[k])]
      /\ refused' = IF Allowed(limit[k], w, n) THEN None ELSE k
      /\ step' = [step EXCEPT ![h] = IF step[h] = Len(KeysOf[h]) THEN 0 ELSE step[h] + 1]
      /\ bytes' = [bytes EXCEPT ![h] =
                     IF step[h] = Len(KeysOf[h]) THEN None ELSE bytes[h]]
      /\ leaps' = leaps
      /\ set_back' = IF windows[k] = None \/ windows[k].age >= TicksPerSecond
                      THEN set_back \ {k} ELSE set_back
  BY Zenon, <1>0, RecordEffect
<1>2. /\ windows \in [ByteKeys -> Windows \cup {None}]
      /\ passed \in [ByteKeys -> [Recent -> Nat]]
      /\ offered \in [ByteKeys -> [Recent -> Nat]]
      /\ windows[k] \in Windows \cup {None} /\ leaps \in [Recent -> Nat]
      /\ passed[k] \in [Recent -> Nat] /\ offered[k] \in [Recent -> Nat]
      /\ l \in Nat /\ l <= MaxCount
  BY Zenon, <1>0, <1>1, BandwidthConstants DEF BandwidthTypes
<1>3. step[h] \in Nat /\ step[h] # 0 /\ step[h] <= Len(KeysOf[h]) /\ bytes[h] \in Sizes
  BY <1>0 DEF BandwidthTypes, record_key
<1> HIDE DEF k
<1>4. /\ w \in Windows /\ w.age < TicksPerSecond
      /\ Passed(l, w, passed[k], leaps)
      /\ k \notin set_back' => Offered(l, w, offered[k])
  <2>1. Passed(l, windows[k], passed[k], leaps)
    BY <1>1 DEF BandwidthInv
  <2>2. /\ w \in Windows /\ w.age < TicksPerSecond
        /\ Passed(l, w, passed[k], leaps)
        /\ Offered(l, windows[k], offered[k]) => Offered(l, w, offered[k])
        /\ windows[k] = None \/ windows[k].age >= TicksPerSecond => Offered(l, w, offered[k])
    BY Zenon, <1>2, <2>1, TurnedFacts
  <2>3. k \notin set_back' => \/ windows[k] = None \/ windows[k].age >= TicksPerSecond
                               \/ k \notin set_back
    BY <1>1
  <2>4. k \notin set_back => Offered(l, windows[k], offered[k])
    BY <1>1 DEF BandwidthInv
  <2> QED
    BY Zenon, <2>2, <2>3, <2>4
<1>5. /\ windows'[k] = Counted(w, n)
      /\ offered'[k] = Recorded(l, n, offered[k])
      /\ passed'[k] = LetPass(l, w, n, passed[k])
      /\ \A j \in ByteKeys : j # k => /\ windows'[j] = windows[j]
                                      /\ passed'[j] = passed[j]
                                      /\ offered'[j] = offered[j]
  BY <1>1, <1>2
<1> HIDE DEF l, w, n
<1>6. /\ windows'[k] \in Windows
      /\ passed'[k] \in [Recent -> Nat] /\ offered'[k] \in [Recent -> Nat]
      /\ Passed(l, windows'[k], passed'[k], leaps)
      /\ k \notin set_back' => Offered(l, windows'[k], offered'[k])
      /\ k \notin set_back' /\ ~Allowed(l, w, n) => offered'[k][LastSecond] > l
  <2>1. n \in Nat
    BY <1>1
  <2> DEFINE p == passed[k]
             o == offered[k]
  <2>2. p \in [Recent -> Nat] /\ o \in [Recent -> Nat]
    BY <1>2
  <2>3. Passed(l, w, p, leaps) /\ (k \notin set_back' => Offered(l, w, o))
    BY <1>4
  <2>4. /\ windows'[k] = Counted(w, n) /\ offered'[k] = Recorded(l, n, o)
        /\ passed'[k] = LetPass(l, w, n, p)
    BY <1>5
  <2> HIDE DEF p, o
  <2>5. /\ Counted(w, n) \in Windows
        /\ LetPass(l, w, n, p) \in [Recent -> Nat]
        /\ Recorded(l, n, o) \in [Recent -> Nat]
        /\ Passed(l, w, p, leaps) => Passed(l, Counted(w, n), LetPass(l, w, n, p), leaps)
        /\ Offered(l, w, o) => Offered(l, Counted(w, n), Recorded(l, n, o))
        /\ Offered(l, w, o) /\ ~Allowed(l, w, n) => Recorded(l, n, o)[LastSecond] > l
    BY Zenon, <2>1, <2>2, <1>2, <1>4, CountedFacts
  <2> QED
    BY Zenon, <2>3, <2>4, <2>5
<1>7. BandwidthTypes'
  <2>1. /\ windows' \in [ByteKeys -> Windows \cup {None}]
        /\ passed' \in [ByteKeys -> [Recent -> Nat]]
        /\ offered' \in [ByteKeys -> [Recent -> Nat]]
    <3>1. windows' = [windows EXCEPT ![k] = windows'[k]]
      BY Zenon, <1>1, <1>5
    <3>2. passed' = [passed EXCEPT ![k] = passed'[k]]
      BY Zenon, <1>1, <1>5 DEF l
    <3>3. offered' = [offered EXCEPT ![k] = offered'[k]]
      BY Zenon, <1>1, <1>5 DEF l
    <3> QED
      BY Zenon, <3>1, <3>2, <3>3, <1>2, <1>6
  <2>2. /\ step' \in [Handlers -> Nat]
        /\ bytes' \in [Handlers -> Sizes \cup {None}]
        /\ \A i \in Handlers :
             step'[i] <= Len(KeysOf[i]) /\ (step'[i] # 0 => bytes'[i] \in Sizes)
    <3>1. \A i \in Handlers : Len(KeysOf[i]) \in Nat
      BY BandwidthConstants
    <3>2. /\ step \in [Handlers -> Nat] /\ bytes \in [Handlers -> Sizes \cup {None}]
          /\ \A i \in Handlers :
               step[i] <= Len(KeysOf[i]) /\ (step[i] # 0 => bytes[i] \in Sizes)
      BY <1>0 DEF BandwidthTypes
    <3>0. /\ step' = [step EXCEPT ![h] = IF step[h] = Len(KeysOf[h]) THEN 0 ELSE step[h] + 1]
          /\ bytes' = [bytes EXCEPT ![h] =
                         IF step[h] = Len(KeysOf[h]) THEN None ELSE bytes[h]]
      BY <1>1
    <3>3. step' \in [Handlers -> Nat] /\ bytes' \in [Handlers -> Sizes \cup {None}]
      BY <3>0, <3>2, <1>3
    <3>4. ASSUME NEW i \in Handlers
          PROVE  step'[i] <= Len(KeysOf[i]) /\ (step'[i] # 0 => bytes'[i] \in Sizes)
      <4>1. CASE i = h
        BY <4>1, <3>0, <3>1, <3>2, <1>3
      <4>2. CASE i # h
        BY <4>2, <3>0, <3>2
      <4> QED
        BY <4>1, <4>2
    <3> QED
      BY <3>3, <3>4
  <2>3. /\ refused' \in ByteKeys \cup {None} /\ set_back' \in SUBSET ByteKeys
        /\ leaps' \in [Recent -> Nat]
    BY <1>0, <1>1 DEF BandwidthTypes
  <2> QED
    BY <2>1, <2>2, <2>3 DEF BandwidthTypes
<1>8. \A j \in ByteKeys : Passed(limit[j], windows'[j], passed'[j], leaps')
  <2> TAKE j \in ByteKeys
  <2>1. CASE j = k
    BY <2>1, <1>1, <1>6 DEF l
  <2>2. CASE j # k
    BY Zenon, <2>2, <1>1, <1>5 DEF BandwidthInv
  <2> QED
    BY <2>1, <2>2
<1>9. \A j \in ByteKeys \ set_back' : Offered(limit[j], windows'[j], offered'[j])
  <2> TAKE j \in ByteKeys \ set_back'
  <2>1. CASE j = k
    BY Zenon, <2>1, <1>6 DEF l
  <2>2. CASE j # k
    <3>1. j \in ByteKeys \ set_back
      BY <2>2, <1>1
    <3> QED
      BY Zenon, <2>2, <3>1, <1>5 DEF BandwidthInv
  <2> QED
    BY <2>1, <2>2
<1>10. RefusalJustified'
  <2>1. refused' # None => refused' = k /\ ~Allowed(l, w, n)
    BY <1>1 DEF l
  <2> QED
    BY <2>1, <1>6 DEF RefusalJustified, l
<1> QED
  BY <1>1, <1>7, <1>8, <1>9, <1>10 DEF BandwidthInv

(* So does a tick. *)
LEMMA TickBandwidthInv ==
  ASSUME BandwidthInv, BandwidthTick
  PROVE  BandwidthInv'
<1>0. BandwidthTypes
  BY DEF BandwidthInv
<1>1. /\ windows' = [k \in ByteKeys |-> Aged(windows[k])]
      /\ passed' = [k \in ByteKeys |-> Shift(passed[k])]
      /\ offered' = [k \in ByteKeys |-> Shift(offered[k])]
      /\ refused' = None /\ step' = step /\ bytes' = bytes /\ set_back' = set_back
      /\ leaps' = Shift(leaps)
  BY DEF BandwidthTick, Aged
<1>2. ASSUME NEW k \in ByteKeys
      PROVE  /\ windows'[k] \in Windows \cup {None}
             /\ passed'[k] \in [Recent -> Nat] /\ offered'[k] \in [Recent -> Nat]
             /\ Passed(limit[k], windows'[k], passed'[k], leaps')
             /\ k \notin set_back => Offered(limit[k], windows'[k], offered'[k])
  <2>1. /\ windows[k] \in Windows \cup {None} /\ limit[k] \in Nat
        /\ passed[k] \in [Recent -> Nat] /\ offered[k] \in [Recent -> Nat]
        /\ leaps \in [Recent -> Nat]
    BY <1>0, BandwidthConstants DEF BandwidthTypes
  <2>2. /\ windows'[k] = Aged(windows[k]) /\ passed'[k] = Shift(passed[k])
        /\ offered'[k] = Shift(offered[k]) /\ leaps' = Shift(leaps)
    BY <1>1
  <2>3. /\ Passed(limit[k], windows[k], passed[k], leaps)
        /\ k \notin set_back => Offered(limit[k], windows[k], offered[k])
    BY DEF BandwidthInv
  <2> DEFINE w == windows[k]
             l == limit[k]
             p == passed[k]
             o == offered[k]
             j == leaps
  <2>4. /\ w \in Windows \cup {None} /\ l \in Nat
        /\ p \in [Recent -> Nat] /\ o \in [Recent -> Nat] /\ j \in [Recent -> Nat]
    BY <2>1
  <2> HIDE DEF w, l, p, o, j
  <2>5. /\ Aged(w) \in Windows \cup {None}
        /\ Shift(p) \in [Recent -> Nat] /\ Shift(o) \in [Recent -> Nat]
        /\ Passed(l, w, p, j) => Passed(l, Aged(w), Shift(p), Shift(j))
        /\ Offered(l, w, o) => Offered(l, Aged(w), Shift(o))
    BY <2>4, AgedFacts
  <2> QED
    BY Zenon, <2>2, <2>3, <2>5 DEF w, l, p, o, j
<1>3. BandwidthTypes'
  <2>1. windows' \in [ByteKeys -> Windows \cup {None}]
    BY Zenon, <1>1, <1>2
  <2>2. passed' \in [ByteKeys -> [Recent -> Nat]]
    BY Zenon, <1>1, <1>2
  <2>3. offered' \in [ByteKeys -> [Recent -> Nat]]
    BY Zenon, <1>1, <1>2
  <2>4. leaps' \in [Recent -> Nat]
    BY <1>0, <1>1, BandwidthConstants DEF BandwidthTypes, Shift, Recent
  <2> QED
    BY <2>1, <2>2, <2>3, <2>4, <1>0, <1>1 DEF BandwidthTypes
<1>4. RefusalJustified'
  BY Zenon, <1>1 DEF RefusalJustified
<1> QED
  BY Zenon, <1>1, <1>2, <1>3, <1>4 DEF BandwidthInv

(* Setting the clock back keeps what the checks let pass, and marks every  *)
(* window.                                                                 *)
LEMMA BackBandwidthInv ==
  ASSUME BandwidthInv, ClockSetBack
  PROVE  BandwidthInv'
<1>0. BandwidthTypes
  BY DEF BandwidthInv
<1>1. PICK d \in 1..MaxBack, over \in [ByteKeys -> 0..MaxBack] :
        windows' = [k \in ByteKeys |->
                      IF windows[k] = None THEN None
                      ELSE [windows[k] EXCEPT !.age =
                              IF @ = TicksPerSecond
                              THEN AtMost(@ + over[k] - d, TicksPerSecond) ELSE @ - d]]
  BY Zenon DEF ClockSetBack
<1>2. /\ set_back' = {k \in ByteKeys : windows[k] # None}
      /\ refused' = None /\ passed' = passed /\ offered' = offered
      /\ step' = step /\ bytes' = bytes /\ leaps' = leaps
      /\ \A k \in ByteKeys : windows'[k] # None => windows'[k].age >= -MaxBack
  BY DEF ClockSetBack
<1>3. ASSUME NEW k \in ByteKeys
      PROVE  /\ windows'[k] \in Windows \cup {None}
             /\ windows[k] = None => windows'[k] = None
             /\ Passed(limit[k], windows'[k], passed[k], leaps)
  <2>1. /\ windows[k] \in Windows \cup {None} /\ limit[k] \in Nat
        /\ passed[k] \in [Recent -> Nat] /\ offered[k] \in [Recent -> Nat]
        /\ leaps \in [Recent -> Nat]
        /\ Passed(limit[k], windows[k], passed[k], leaps)
    BY Zenon, <1>0, BandwidthConstants DEF BandwidthTypes, BandwidthInv
  <2>2. CASE windows[k] = None
    BY <2>1, <2>2, <1>1
  <2>3. CASE windows[k] # None
    <3> DEFINE a == IF windows[k].age = TicksPerSecond
                    THEN AtMost(windows[k].age + over[k] - d, TicksPerSecond)
                    ELSE windows[k].age - d
    <3>1. windows'[k] = [windows[k] EXCEPT !.age = a]
      BY <2>3, <1>1
    <3>2. windows[k].age \in Int /\ windows[k].age <= TicksPerSecond /\ windows[k] \in Windows
      BY Zenon, <2>1, <2>3, WindowFacts
    <3>3. a \in Int /\ a <= windows[k].age
      <4>1. over[k] \in Int /\ d \in Nat /\ TicksPerSecond \in Int
        BY BandwidthConstants
      <4> QED
        BY <4>1, <3>2 DEF AtMost
    <3>4. windows'[k].age = a /\ windows'[k] # None
      <4>1. [windows[k] EXCEPT !.age = a].age = a
        BY <3>2 DEF Windows
      <4>2. [windows[k] EXCEPT !.age = a] \in [count : Nat, age : Int]
        <5>1. windows[k] \in [count : Nat, age : Int]
          BY <3>2, BandwidthConstants DEF Windows
        <5>2. a \in Int
          BY <3>3
        <5> HIDE DEF a
        <5> QED
          BY <5>1, <5>2
      <4>3. None \notin [count : Nat, age : Int]
        BY BandwidthAssumption DEF BandwidthParameters
      <4> QED
        BY <3>1, <4>1, <4>2, <4>3
    <3>5. a \in (-MaxBack)..TicksPerSecond
      BY <1>2, <3>2, <3>3, <3>4, BandwidthConstants
    <3> HIDE DEF a
    <3>6. /\ windows'[k] \in Windows /\ windows'[k].count = windows[k].count
          /\ windows'[k].age <= windows[k].age
      BY <3>1, <3>2, <3>3, <3>5, SetClockFacts
    <3> QED
      BY <3>2, <3>6, <2>1, <2>3, YoungerFacts
  <2> QED
    BY <2>2, <2>3
<1>4. BandwidthTypes'
  <2>1. windows' \in [ByteKeys -> Windows \cup {None}]
    BY <1>1, <1>3
  <2> QED
    BY <2>1, <1>0, <1>2 DEF BandwidthTypes
<1>5. \A k \in ByteKeys \ set_back' : Offered(limit[k], windows'[k], offered'[k])
  BY <1>2, <1>3 DEF Offered
<1>6. RefusalJustified'
  BY Zenon, <1>2 DEF RefusalJustified
<1> QED
  BY <1>2, <1>3, <1>4, <1>5, <1>6 DEF BandwidthInv

(* Setting it forward is counted. *)
LEMMA ForwardBandwidthInv ==
  ASSUME BandwidthInv, ClockSetForward
  PROVE  BandwidthInv'
<1>0. BandwidthTypes
  BY DEF BandwidthInv
<1>1. PICK d \in 1..(TicksPerSecond + MaxBack) :
        windows' = [k \in ByteKeys |->
                      IF windows[k] = None THEN None
                      ELSE [windows[k] EXCEPT !.age = AtMost(@ + d, TicksPerSecond)]]
  BY Zenon DEF ClockSetForward
<1>2. /\ leaps' = [t \in Recent |-> leaps[t] + 1] /\ set_back' = set_back
      /\ refused' = None /\ passed' = passed /\ offered' = offered
      /\ step' = step /\ bytes' = bytes
  BY DEF ClockSetForward
<1>3. ASSUME NEW k \in ByteKeys
      PROVE  /\ windows'[k] \in Windows \cup {None}
             /\ Passed(limit[k], windows'[k], passed[k], leaps')
             /\ k \notin set_back => Offered(limit[k], windows'[k], offered[k])
  <2>1. /\ windows[k] \in Windows \cup {None} /\ limit[k] \in Nat
        /\ passed[k] \in [Recent -> Nat] /\ offered[k] \in [Recent -> Nat]
        /\ leaps \in [Recent -> Nat]
        /\ Passed(limit[k], windows[k], passed[k], leaps)
        /\ k \notin set_back => Offered(limit[k], windows[k], offered[k])
    BY Zenon, <1>0, BandwidthConstants DEF BandwidthTypes, BandwidthInv
  <2>2. CASE windows[k] = None
    <3>1. windows'[k] = None
      BY <2>2, <1>1
    <3> QED
      BY <3>1, <2>1, <2>2 DEF Passed, Offered
  <2>3. CASE windows[k] # None
    <3> DEFINE a == AtMost(windows[k].age + d, TicksPerSecond)
    <3>1. windows'[k] = [windows[k] EXCEPT !.age = a]
      BY <2>3, <1>1
    <3>2. /\ windows[k].age \in Int /\ windows[k].age <= TicksPerSecond
          /\ windows[k].age >= -MaxBack /\ windows[k] \in Windows
      BY Zenon, <2>1, <2>3, WindowFacts
    <3>3. a \in (-MaxBack)..TicksPerSecond /\ a >= windows[k].age
      <4>1. d \in Nat /\ TicksPerSecond \in Int /\ TicksPerSecond > 0 /\ MaxBack \in Nat
        BY BandwidthConstants
      <4> QED
        BY <4>1, <3>2 DEF AtMost
    <3> HIDE DEF a
    <3>4. /\ windows'[k] \in Windows /\ windows'[k].count = windows[k].count
          /\ windows'[k].age >= windows[k].age
      BY <3>1, <3>2, <3>3, SetClockFacts
    <3>5. \A t \in Recent : leaps'[t] = leaps[t] + 1
      BY <1>2
    <3> DEFINE i == leaps'
               v == windows'[k]
               w == windows[k]
               l == limit[k]
               p == passed[k]
               o == offered[k]
    <3>6. /\ \A t \in Recent : i[t] = leaps[t] + 1
          /\ w \in Windows /\ v \in Windows /\ v.count = w.count /\ v.age >= w.age
          /\ l \in Nat /\ p \in [Recent -> Nat] /\ o \in [Recent -> Nat]
          /\ leaps \in [Recent -> Nat]
      BY Zenon, <3>2, <3>4, <3>5, <2>1
    <3> HIDE DEF i, v, w, l, p, o
    <3>7. /\ Passed(l, w, p, leaps) => Passed(l, v, p, i)
          /\ Offered(l, w, o) => Offered(l, v, o)
      BY <3>6, OlderFacts
    <3> QED
      BY Zenon, <3>4, <3>7, <2>1 DEF i, v, w, l, p, o
  <2> QED
    BY <2>2, <2>3
<1>4. BandwidthTypes'
  <2>1. windows' \in [ByteKeys -> Windows \cup {None}]
    BY <1>1, <1>3
  <2>2. leaps' \in [Recent -> Nat]
    BY <1>0, <1>2 DEF BandwidthTypes
  <2> QED
    BY <2>1, <2>2, <1>0, <1>2 DEF BandwidthTypes
<1>5. RefusalJustified'
  BY Zenon, <1>2 DEF RefusalJustified
<1> QED
  BY <1>2, <1>3, <1>4, <1>5 DEF BandwidthInv

(* Every step keeps the invariant. *)
LEMMA NextBandwidthInv == BandwidthInv /\ [BandwidthNext]_bandwidthVars => BandwidthInv'
<1> SUFFICES ASSUME BandwidthInv, [BandwidthNext]_bandwidthVars PROVE BandwidthInv'
  OBVIOUS
<1>1. CASE \E h \in Handlers : Receive(h)
  <2>1. PICK h \in Handlers : Receive(h)
    BY <1>1
  <2>2. /\ windows' = windows /\ passed' = passed /\ offered' = offered
        /\ set_back' = set_back /\ leaps' = leaps /\ refused' = None
    BY <2>1 DEF Receive, clockVars
  <2>3. PICK n \in Sizes : bytes' = [bytes EXCEPT ![h] = n]
    BY Zenon, <2>1 DEF Receive
  <2>4. step' = [step EXCEPT ![h] = 1]
    BY <2>1 DEF Receive
  <2>5. BandwidthTypes'
    <3>1. \A i \in Handlers : Len(KeysOf[i]) \in Nat /\ Len(KeysOf[i]) > 0
      BY BandwidthConstants
    <3>2. BandwidthTypes
      BY DEF BandwidthInv
    <3> QED
      BY <3>1, <3>2, <2>2, <2>3, <2>4 DEF BandwidthTypes
  <2> QED
    BY <2>2, <2>5 DEF BandwidthInv, RefusalJustified
<1>2. CASE \E h \in Handlers : record_key(h)
  BY <1>2, RecordBandwidthInv
<1>3. CASE BandwidthTick
  BY <1>3, TickBandwidthInv
<1>4. CASE ClockSetBack
  BY <1>4, BackBandwidthInv
<1>5. CASE ClockSetForward
  BY <1>5, ForwardBandwidthInv
<1>6. CASE UNCHANGED bandwidthVars
  BY <1>6 DEF bandwidthVars, clockVars, BandwidthInv, BandwidthTypes, RefusalJustified
<1> QED
  BY <1>1, <1>2, <1>3, <1>4, <1>5, <1>6 DEF BandwidthNext

(* The invariant holds in every reachable state. *)
LEMMA BandwidthInvariant == BandwidthSpec => []BandwidthInv
BY InitBandwidthInv, NextBandwidthInv, PTL DEF BandwidthSpec

(* Within any second, record_key lets at most twice its limit pass under   *)
(* each key, and the limit once more for each time the wall clock was set  *)
(* forward in that second, for any limits, sizes and number of handlers    *)
(* and however often the clock is set back.                                *)
THEOREM BandwidthIsHeld == BandwidthSpec => []BandwidthHeld
<1>1. BandwidthInv => BandwidthHeld
  <2> SUFFICES ASSUME BandwidthInv, NEW k \in ByteKeys
               PROVE  passed[k][LastSecond] <= (2 + leaps[LastSecond]) * limit[k]
    BY Zenon DEF BandwidthHeld
  <2>1. /\ windows[k] \in Windows \cup {None} /\ limit[k] \in Nat
        /\ LastSecond \in Recent /\ passed[k] \in [Recent -> Nat]
        /\ leaps \in [Recent -> Nat]
        /\ Passed(limit[k], windows[k], passed[k], leaps)
    <3>1. LastSecond \in Recent
      BY BandwidthConstants DEF LastSecond, Recent
    <3> QED
      BY Zenon, <3>1, BandwidthConstants DEF BandwidthTypes, BandwidthInv
  <2>2. /\ leaps[LastSecond] \in Nat /\ Times(leaps[LastSecond], limit[k]) \in Nat
        /\ (2 + leaps[LastSecond]) * limit[k]
             = Times(leaps[LastSecond], limit[k]) + limit[k] + limit[k]
    <3> DEFINE j == leaps[LastSecond]
               l == limit[k]
    <3>1. j \in Nat /\ l \in Nat
      BY <2>1
    <3> HIDE DEF j, l
    <3>2. Times(j, l) \in Nat
      BY Zenon, <3>1, TimesFacts
    <3>3. (2 + j) * l = Times(j, l) + l + l
      BY <3>1 DEF Times
    <3> QED
      BY Zenon, <3>1, <3>2, <3>3 DEF j, l
  <2>3. CASE windows[k] = None
    <3> DEFINE P == passed[k][LastSecond]
               T == Times(leaps[LastSecond], limit[k])
               L == limit[k]
    <3>1. P = 0 /\ T \in Nat /\ L \in Nat
      BY Zenon, <2>1, <2>2, <2>3 DEF Passed
    <3> HIDE DEF P, T, L
    <3>2. P <= T + L + L
      BY <3>1
    <3> QED
      BY Zenon, <3>2, <2>2 DEF P, T, L
  <2>4. CASE windows[k] # None
    <3>1. windows[k].count \in Nat
      BY <2>1, <2>4, WindowFacts
    <3>2. passed[k][LastSecond] <= AtMost(windows[k].count, limit[k]) + limit[k]
                                     + Times(leaps[LastSecond], limit[k])
      BY <2>1, <2>4 DEF Passed
    <3>3. AtMost(windows[k].count, limit[k]) <= limit[k]
          /\ AtMost(windows[k].count, limit[k]) \in Nat
      BY <3>1, <2>1 DEF AtMost
    <3> DEFINE P == passed[k][LastSecond]
               T == Times(leaps[LastSecond], limit[k])
               A == AtMost(windows[k].count, limit[k])
               L == limit[k]
    <3>4. P \in Nat /\ T \in Nat /\ A \in Nat /\ L \in Nat /\ P <= A + L + T /\ A <= L
      BY Zenon, <3>2, <3>3, <2>1, <2>2
    <3> HIDE DEF P, T, A, L
    <3>5. P <= T + L + L
      BY <3>4
    <3> QED
      BY Zenon, <3>5, <2>2 DEF P, T, L
  <2> QED
    BY <2>3, <2>4
<1> QED
  BY <1>1, BandwidthInvariant, PTL

(* Unless the clock was set back during the window that counts, record_key *)
(* refuses a message only for what was recorded under its key within the   *)
(* last second.                                                            *)
THEOREM RefusalsAreJustified == BandwidthSpec => []RefusalJustified
<1>1. BandwidthInv => RefusalJustified
  BY DEF BandwidthInv
<1> QED
  BY <1>1, BandwidthInvariant, PTL
=============================================================================
