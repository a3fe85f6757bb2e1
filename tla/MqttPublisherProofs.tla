------------------------- MODULE MqttPublisherProofs -------------------------
(* Proofs about MqttPublisher, for any capacities and any bounds, and      *)
(* about Alerting, for any rules, intervals and contexts.                  *)
EXTENDS Alerting, SequenceTheorems, TLAPS

-----------------------------------------------------------------------------
(* The alert rules *)

(* Rules of one name have one severity. *)
OneSeverity ==
  \A i, j \in DOMAIN rules :
    rules[i].name = rules[j].name => rules[i].severity = rules[j].severity

(* The entry of last_sent outlives everything else that is known of a      *)
(* rule; a name without one was never alerted.                             *)
SentInv ==
  \A n \in Names : IF last_sent[n] # Absent THEN quiet[n] = last_sent[n]
                                            ELSE quiet[n] = MaxAge

(* A rule whose condition was seen ever since its alert is still known. *)
KnownInv ==
  \A i \in DOMAIN rules :
    rules[i].name \notin cleared => last_state[rules[i].name] = rules[i].severity

AlertingInv ==
  /\ AlertingTypeOK
  /\ SentInv
  /\ condition_active_since = held
  /\ OneSeverity => KnownInv
  /\ AlertsSpaced /\ Sustained /\ (OneSeverity => OncePerEpisode)

(* The constants, one by one. *)
LEMMA AlertingConstants ==
  /\ Len(rules) \in Nat /\ DOMAIN rules = 1..Len(rules)
  /\ \A i \in DOMAIN rules : /\ rules[i].name \in Names
                             /\ rules[i].severity \in Severities
                             /\ rules[i].duration \in Ages \cup {Absent}
  /\ min_interval \in Nat /\ MaxAge \in Nat /\ MaxAge >= min_interval
  /\ Absent \notin Ages /\ Absent \notin Severities
  /\ 0 \in Ages /\ MaxAge \in Ages /\ \A a \in Ages : a \in Nat
  /\ \A a \in Ages : a # MaxAge => a + 1 \in Ages
BY AlertingAssumption DEF Ages

(* What the helpers on maps return. *)
LEMMA SeenFacts ==
  ASSUME NEW ages \in [Names -> Ages \cup {Absent}], NEW rule, rule.name \in Names
  PROVE  /\ Seen(ages, rule) \in [Names -> Ages \cup {Absent}]
         /\ Seen(ages, rule)[rule.name] \in Ages
         /\ \A n \in Names : ages[n] # Absent => Seen(ages, rule)[n] = ages[n]
         /\ \A n \in Names : n # rule.name => Seen(ages, rule)[n] = ages[n]
BY AlertingConstants DEF Seen

LEMMA OlderFacts ==
  ASSUME NEW ages \in [Names -> Ages \cup {Absent}]
  PROVE  /\ Older(ages) \in [Names -> Ages \cup {Absent}]
         /\ \A n \in Names : (ages[n] = Absent) <=> (Older(ages)[n] = Absent)
         /\ ages \in [Names -> Ages] => Older(ages) \in [Names -> Ages]
         /\ \A n \in Names : ages[n] = MaxAge => Older(ages)[n] = MaxAge
<1>1. ASSUME NEW n \in Names
      PROVE  /\ Older(ages)[n] \in Ages \cup {Absent}
             /\ (ages[n] = Absent) <=> (Older(ages)[n] = Absent)
             /\ ages[n] \in Ages => Older(ages)[n] \in Ages
             /\ ages[n] = MaxAge => Older(ages)[n] = MaxAge
  <2>1. Older(ages)[n] = IF ages[n] = Absent \/ ages[n] = MaxAge THEN ages[n] ELSE ages[n] + 1
    BY DEF Older
  <2>2. ages[n] \in Ages \cup {Absent}
    OBVIOUS
  <2> QED
    BY Zenon, <2>1, <2>2, AlertingConstants
<1>2. Older(ages) = [n \in Names |-> Older(ages)[n]]
  BY DEF Older
<1> QED
  BY <1>1, <1>2

-----------------------------------------------------------------------------
LEMMA InitAlertingInv == AlertingInit => AlertingInv
<1> SUFFICES ASSUME AlertingInit PROVE AlertingInv
  OBVIOUS
<1>1. AlertingTypeOK
  BY AlertingConstants DEF AlertingInit, AlertingTypeOK
<1>2. SentInv /\ condition_active_since = held
  BY DEF AlertingInit, SentInv
<1>3. KnownInv
  BY AlertingConstants DEF AlertingInit, KnownInv
<1>4. AlertsSpaced /\ Sustained /\ OncePerEpisode
  BY DEF AlertingInit, AlertsSpaced, Sustained, OncePerEpisode
<1> QED
  BY <1>1, <1>2, <1>3, <1>4 DEF AlertingInv

(* A rule whose condition does not hold. *)
LEMMA ClearAlertingInv ==
  ASSUME AlertingInv, NEW i \in DOMAIN rules, Clear(rules[i]),
         index' \in 0..Len(rules), UNCHANGED <<connected, context, ticked>>
  PROVE  AlertingInv'
<1> DEFINE m == rules[i].name
<1>0. m \in Names
  BY AlertingConstants
<1>1. /\ condition_active_since' = [condition_active_since EXCEPT ![m] = Absent]
      /\ held' = [held EXCEPT ![m] = Absent]
      /\ last_state' = [last_state EXCEPT ![m] = Absent]
      /\ cleared' = cleared \cup {m}
      /\ last_sent' = last_sent /\ quiet' = quiet /\ emitted' = Absent
  BY DEF Clear, Forgotten, NoAlert
<1> HIDE DEF m
<1>2. AlertingTypeOK'
  BY <1>0, <1>1 DEF AlertingInv, AlertingTypeOK
<1>3. SentInv' /\ (condition_active_since = held)'
  BY <1>1 DEF AlertingInv, SentInv
<1>4. OneSeverity => KnownInv'
  <2> SUFFICES ASSUME OneSeverity, NEW j \in DOMAIN rules, rules[j].name \notin cleared'
               PROVE  last_state'[rules[j].name] = rules[j].severity
    BY DEF KnownInv
  <2>1. rules[j].name \notin cleared /\ rules[j].name # m /\ rules[j].name \in Names
    BY <1>1, AlertingConstants
  <2>2. last_state[rules[j].name] = rules[j].severity
    BY <2>1 DEF AlertingInv, KnownInv
  <2> QED
    BY <1>1, <2>1, <2>2 DEF AlertingInv, AlertingTypeOK
<1>5. (AlertsSpaced /\ Sustained /\ OncePerEpisode)'
  BY <1>1 DEF AlertsSpaced, Sustained, OncePerEpisode
<1> QED
  BY <1>2, <1>3, <1>4, <1>5 DEF AlertingInv

(* A rule whose condition holds but that emits nothing. *)
LEMMA QuietAlertingInv ==
  ASSUME AlertingInv, NEW i \in DOMAIN rules,
         condition_active_since' = Seen(condition_active_since, rules[i]),
         held' = Seen(held, rules[i]), NoAlert,
         UNCHANGED <<last_sent, last_state, cleared>>,
         index' \in 0..Len(rules), UNCHANGED <<connected, context, ticked>>
  PROVE  AlertingInv'
<1>0. rules[i].name \in Names
  BY AlertingConstants
<1>1. emitted' = Absent /\ quiet' = quiet /\ held' = condition_active_since'
  BY DEF NoAlert, AlertingInv
<1>2. /\ condition_active_since' \in [Names -> Ages \cup {Absent}]
      /\ \A n \in Names : condition_active_since[n] # Absent => condition_active_since'[n] # Absent
  <2>1. condition_active_since \in [Names -> Ages \cup {Absent}]
    BY DEF AlertingInv, AlertingTypeOK
  <2>2. /\ Seen(condition_active_since, rules[i]) \in [Names -> Ages \cup {Absent}]
        /\ \A n \in Names : condition_active_since[n] # Absent =>
             Seen(condition_active_since, rules[i])[n] = condition_active_since[n]
    BY Zenon, <1>0, <2>1, SeenFacts
  <2> QED
    BY Zenon, <2>2
<1>3. AlertingTypeOK'
  BY <1>1, <1>2 DEF AlertingInv, AlertingTypeOK
<1>4. SentInv' /\ (OneSeverity => KnownInv')
  BY <1>1 DEF AlertingInv, SentInv, KnownInv
<1>5. (AlertsSpaced /\ Sustained /\ OncePerEpisode)'
  BY <1>1 DEF AlertsSpaced, Sustained, OncePerEpisode
<1> QED
  BY <1>1, <1>3, <1>4, <1>5 DEF AlertingInv

(* A rule that emits its alert. *)
LEMMA EmitAlertingInv ==
  ASSUME AlertingInv, NEW i \in DOMAIN rules,
         condition_active_since' = Seen(condition_active_since, rules[i]),
         held' = Seen(held, rules[i]),
         ~TooShort(rules[i]), ~Suppressed(rules[i]), ~Known(rules[i]), Emit(rules[i]),
         index' \in 0..Len(rules), UNCHANGED <<connected, context, ticked>>
  PROVE  AlertingInv'
<1> DEFINE m == rules[i].name
<1>0. m \in Names /\ rules[i].severity \in Severities /\ rules[i].duration \in Ages \cup {Absent}
  BY AlertingConstants
<1>1. /\ last_sent' = [last_sent EXCEPT ![m] = 0]
      /\ last_state' = [last_state EXCEPT ![m] = rules[i].severity]
      /\ cleared' = cleared \ {m}
      /\ quiet' = [quiet EXCEPT ![m] = 0]
      /\ emitted' = [rule |-> rules[i], quiet |-> quiet[m], cleared |-> m \in cleared,
                     held |-> Seen(held, rules[i])[m]]
  BY DEF Emit
<1>2. held' = condition_active_since' /\ Seen(held, rules[i])[m] = Seen(condition_active_since, rules[i])[m]
  BY DEF AlertingInv
<1>3. /\ condition_active_since' \in [Names -> Ages \cup {Absent}]
      /\ \A n \in Names : condition_active_since[n] # Absent => condition_active_since'[n] # Absent
      /\ condition_active_since'[m] \in Ages /\ Seen(held, rules[i])[m] \in Ages
  <2>1. condition_active_since \in [Names -> Ages \cup {Absent}]
    BY DEF AlertingInv, AlertingTypeOK
  <2>2. /\ Seen(condition_active_since, rules[i]) \in [Names -> Ages \cup {Absent}]
        /\ Seen(condition_active_since, rules[i])[m] \in Ages
        /\ \A n \in Names : condition_active_since[n] # Absent =>
             Seen(condition_active_since, rules[i])[n] = condition_active_since[n]
    BY Zenon, <1>0, <2>1, SeenFacts
  <2> QED
    BY Zenon, <1>2, <2>2
<1>4. /\ last_sent \in [Names -> Ages \cup {Absent}] /\ quiet \in [Names -> Ages]
      /\ last_state \in [Names -> Severities \cup {Absent}]
  BY DEF AlertingInv, AlertingTypeOK
<1>5. quiet[m] \in Ages /\ quiet[m] >= min_interval
  <2>1. CASE last_sent[m] = Absent
    BY <1>0, <2>1, AlertingConstants DEF AlertingInv, SentInv
  <2>2. CASE last_sent[m] # Absent
    <3>1. quiet[m] = last_sent[m] /\ quiet[m] \in Ages
      BY <1>0, <1>4, <2>2 DEF AlertingInv, SentInv
    <3>2. ~(last_sent[m] < min_interval)
      BY <2>2 DEF Suppressed
    <3>3. quiet[m] \in Nat /\ min_interval \in Nat
      BY Zenon, <3>1, AlertingConstants
    <3> QED
      BY <3>1, <3>2, <3>3
  <2> QED
    BY <2>1, <2>2
<1>6. rules[i].duration # Absent => Seen(held, rules[i])[m] >= rules[i].duration
  <2>1. rules[i].duration # Absent =>
          ~(Seen(held, rules[i])[m] < rules[i].duration)
    BY <1>2 DEF TooShort
  <2>2. rules[i].duration # Absent => rules[i].duration \in Nat
    BY Zenon, <1>0, AlertingConstants
  <2>3. Seen(held, rules[i])[m] \in Nat
    BY Zenon, <1>3, AlertingConstants
  <2> QED
    BY <2>1, <2>2, <2>3
<1>7. OneSeverity => m \in cleared
  BY DEF Known, AlertingInv, KnownInv
<1> HIDE DEF m
<1>8. AlertingTypeOK'
  <2>1. /\ last_sent' \in [Names -> Ages \cup {Absent}] /\ quiet' \in [Names -> Ages]
        /\ last_state' \in [Names -> Severities \cup {Absent}]
    BY <1>0, <1>1, <1>4, AlertingConstants
  <2>2. ASSUME NEW n \in Names, last_state'[n] # Absent
        PROVE  Absent \notin {condition_active_since'[n], last_sent'[n]}
    <3>1. CASE n = m
      <4>1. last_sent'[n] = 0
        BY <1>0, <1>1, <1>4, <3>1
      <4> QED
        BY <4>1, <1>3, <3>1, AlertingConstants
    <3>2. CASE n # m
      <4>1. last_state'[n] = last_state[n] /\ last_sent'[n] = last_sent[n]
        BY <1>1, <1>4, <3>2
      <4> QED
        BY <4>1, <2>2, <1>3 DEF AlertingInv, AlertingTypeOK
    <3> QED
      BY <3>1, <3>2
  <2>3. emitted' \in [rule : {rules[j] : j \in DOMAIN rules}, quiet : Ages,
                      cleared : BOOLEAN, held : Ages]
    <3>1. rules[i] \in {rules[j] : j \in DOMAIN rules}
      BY Zenon
    <3> QED
      BY <3>1, <1>1, <1>3, <1>5
  <2>4. held' \in [Names -> Ages \cup {Absent}] /\ cleared' \subseteq Names
    BY Zenon, <1>1, <1>2, <1>3 DEF AlertingInv, AlertingTypeOK
  <2> QED
    BY <2>1, <2>2, <2>3, <2>4, <1>3 DEF AlertingInv, AlertingTypeOK
<1>9. SentInv'
  BY <1>0, <1>1, <1>4, AlertingConstants DEF AlertingInv, SentInv
<1>10. OneSeverity => KnownInv'
  <2> SUFFICES ASSUME OneSeverity, NEW j \in DOMAIN rules, rules[j].name \notin cleared'
               PROVE  last_state'[rules[j].name] = rules[j].severity
    BY DEF KnownInv
  <2>1. CASE rules[j].name = m
    <3>1. rules[j].severity = rules[i].severity
      BY <2>1 DEF OneSeverity, m
    <3> QED
      BY <3>1, <2>1, <1>0, <1>1, <1>4
  <2>2. CASE rules[j].name # m
    <3>1. rules[j].name \notin cleared /\ rules[j].name \in Names
      BY <1>1, <2>2, AlertingConstants
    <3>2. last_state[rules[j].name] = rules[j].severity
      BY <3>1 DEF AlertingInv, KnownInv
    <3> QED
      BY <3>1, <3>2, <2>2, <1>1, <1>4
  <2> QED
    BY <2>1, <2>2
<1>11. AlertsSpaced' /\ Sustained' /\ (OneSeverity => OncePerEpisode')
  <2>1. /\ emitted'.quiet = quiet[m] /\ emitted'.rule = rules[i]
        /\ emitted'.held = Seen(held, rules[i])[m]
        /\ emitted'.cleared = (m \in cleared)
    BY <1>1
  <2> QED
    BY Zenon, <2>1, <1>5, <1>6, <1>7 DEF AlertsSpaced, Sustained, OncePerEpisode
<1> QED
  BY <1>2, <1>8, <1>9, <1>10, <1>11 DEF AlertingInv

(* Every step keeps the invariant. *)
LEMMA NextAlertingInv == AlertingInv /\ [AlertingNext]_alertingVars => AlertingInv'
<1> SUFFICES ASSUME AlertingInv, [AlertingNext]_alertingVars PROVE AlertingInv'
  OBVIOUS
<1>0. ASSUME NEW j \in 0..Len(rules)
      PROVE  Following(j) \in 0..Len(rules)
  <2>1. Len(rules) \in Nat
    BY Zenon, AlertingConstants
  <2> QED
    BY <2>1 DEF Following
<1>1. CASE Sample
  <2>1. index' \in 0..Len(rules)
    BY <1>0, <1>1, AlertingConstants DEF Sample
  <2>2. /\ emitted' = Absent /\ ticked' = FALSE
        /\ UNCHANGED <<connected, context, mapVars, cleared, held, quiet>>
    BY <1>1 DEF Sample
  <2> QED
    BY Zenon, <2>1, <2>2 DEF AlertingInv, AlertingTypeOK, SentInv, KnownInv, AlertsSpaced,
       Sustained, OncePerEpisode, mapVars
<1>2. CASE EvaluateRule
  <2>1. index \in 0..Len(rules) /\ index # 0
    BY <1>2 DEF EvaluateRule, AlertingInv, AlertingTypeOK
  <2>2. index \in DOMAIN rules
    BY <2>1, AlertingConstants
  <2>3. index' \in 0..Len(rules) /\ UNCHANGED <<connected, context, ticked>>
    BY <1>0, <1>2, <2>1 DEF EvaluateRule
  <2>4. CASE Clear(rules[index])
    BY <2>2, <2>3, <2>4, ClearAlertingInv
  <2>5. CASE Consider(rules[index])
    <3>1. /\ condition_active_since' = Seen(condition_active_since, rules[index])
          /\ held' = Seen(held, rules[index])
      BY <2>5 DEF Consider
    <3>2. CASE NoAlert /\ UNCHANGED <<last_sent, last_state, cleared>>
      BY <2>2, <2>3, <3>1, <3>2, QuietAlertingInv
    <3>3. CASE /\ ~TooShort(rules[index]) /\ ~Suppressed(rules[index])
               /\ ~Known(rules[index]) /\ Emit(rules[index])
      BY <2>2, <2>3, <3>1, <3>3, EmitAlertingInv
    <3> QED
      BY <2>5, <3>2, <3>3 DEF Consider
  <2> QED
    BY <1>2, <2>4, <2>5 DEF EvaluateRule
<1>3. CASE AlertingTick
  <2>1. /\ condition_active_since' = Older(condition_active_since)
        /\ last_sent' = Older(last_sent) /\ held' = Older(held) /\ quiet' = Older(quiet)
        /\ emitted' = Absent /\ ticked' = TRUE
        /\ UNCHANGED <<connected, context, last_state, index, cleared>>
    BY <1>3 DEF AlertingTick
  <2>2. /\ condition_active_since \in [Names -> Ages \cup {Absent}]
        /\ last_sent \in [Names -> Ages \cup {Absent}]
        /\ held \in [Names -> Ages \cup {Absent}]
        /\ quiet \in [Names -> Ages] /\ quiet \in [Names -> Ages \cup {Absent}]
    BY DEF AlertingInv, AlertingTypeOK
  <2>3. AlertingTypeOK'
    <3>1. /\ condition_active_since' \in [Names -> Ages \cup {Absent}]
          /\ last_sent' \in [Names -> Ages \cup {Absent}]
          /\ held' \in [Names -> Ages \cup {Absent}]
          /\ quiet' \in [Names -> Ages]
      BY <2>1, <2>2, OlderFacts
    <3>2. \A n \in Names : /\ condition_active_since'[n] = Absent => condition_active_since[n] = Absent
                           /\ last_sent'[n] = Absent => last_sent[n] = Absent
      BY <2>1, <2>2, OlderFacts
    <3> QED
      BY <2>1, <3>1, <3>2 DEF AlertingInv, AlertingTypeOK
  <2>4. SentInv'
    <3> SUFFICES ASSUME NEW n \in Names
                 PROVE  IF last_sent'[n] # Absent THEN quiet'[n] = last_sent'[n]
                                                  ELSE quiet'[n] = MaxAge
      BY DEF SentInv
    <3>1. IF last_sent[n] # Absent THEN quiet[n] = last_sent[n] ELSE quiet[n] = MaxAge
      BY DEF AlertingInv, SentInv
    <3>2. (last_sent[n] = Absent) <=> (last_sent'[n] = Absent)
      BY <2>1, <2>2, OlderFacts
    <3>3. quiet[n] = MaxAge => quiet'[n] = MaxAge
      BY <2>1, <2>2, OlderFacts
    <3>4. quiet[n] = last_sent[n] => quiet'[n] = last_sent'[n]
      BY <2>1 DEF Older
    <3> QED
      BY <3>1, <3>2, <3>3, <3>4
  <2>5. (condition_active_since = held)' /\ (OneSeverity => KnownInv')
    BY <2>1 DEF AlertingInv, KnownInv
  <2>6. (AlertsSpaced /\ Sustained /\ OncePerEpisode)'
    BY <2>1 DEF AlertsSpaced, Sustained, OncePerEpisode
  <2> QED
    BY <2>3, <2>4, <2>5, <2>6 DEF AlertingInv
<1>4. CASE MetricsChange
  <2>1. connected' \in BOOLEAN /\ context' \in Contexts
    BY Zenon, <1>4 DEF MetricsChange, AlertingInv, AlertingTypeOK
  <2>2. /\ emitted' = Absent
        /\ UNCHANGED <<mapVars, ticked, index, cleared, held, quiet>>
    BY <1>4 DEF MetricsChange
  <2> QED
    BY <2>1, <2>2 DEF AlertingInv, AlertingTypeOK, SentInv, KnownInv, AlertsSpaced,
       Sustained, OncePerEpisode, mapVars
<1>5. CASE UNCHANGED alertingVars
  BY <1>5 DEF AlertingInv, AlertingTypeOK, SentInv, KnownInv, AlertsSpaced,
     Sustained, OncePerEpisode, mapVars, historyVars, alertingVars
<1> QED
  BY <1>1, <1>2, <1>3, <1>4, <1>5 DEF AlertingNext

(* The invariant holds in every reachable state. *)
LEMMA AlertingInvariant == AlertingSpec => []AlertingInv
BY InitAlertingInv, NextAlertingInv, PTL DEF AlertingSpec

(* Two alerts of one name are min_interval apart, for any rules, also with *)
(* shared names, and whatever the metrics do.                              *)
THEOREM AlertsAreSpaced == AlertingSpec => []AlertsSpaced
<1>1. AlertingInv => AlertsSpaced
  BY DEF AlertingInv
<1> QED
  BY <1>1, AlertingInvariant, PTL

(* An alert with a duration follows evaluations that have seen its         *)
(* condition for that long.                                                *)
THEOREM AlertsAreSustained == AlertingSpec => []Sustained
<1>1. AlertingInv => Sustained
  BY DEF AlertingInv
<1> QED
  BY <1>1, AlertingInvariant, PTL

(* If rules of one name have one severity, a second alert of a name        *)
(* follows an evaluation that saw its condition not hold.                  *)
THEOREM AlertedOncePerEpisode == OneSeverity => (AlertingSpec => []OncePerEpisode)
<1> SUFFICES ASSUME OneSeverity PROVE AlertingSpec => []OncePerEpisode
  OBVIOUS
<1>1. AlertingInv => OncePerEpisode
  BY DEF AlertingInv
<1> QED
  BY <1>1, AlertingInvariant, PTL

-----------------------------------------------------------------------------
(* The publisher *)

(* The types the proofs use. *)
TypeInv ==
  /\ events \in Nat /\ uncounted \in Nat /\ queue_pending \in Nat
  /\ queue \in Seq(Nat) /\ pending_requests \in Seq(Nat) /\ published \in Seq(Nat)
  /\ current \in Nat

Members(s) == {s[i] : i \in DOMAIN s}
Sorted(s) == \A i, j \in DOMAIN s : i < j => s[i] < s[j]
Before(S, T) == \A m \in S, n \in T : m < n

(* A sequence of numbers without its head. *)
LEMMA TailFacts ==
  ASSUME NEW s \in Seq(Nat), s # <<>>
  PROVE  /\ Head(s) \in Nat /\ Head(s) \in Members(s)
         /\ Tail(s) \in Seq(Nat) /\ Len(Tail(s)) = Len(s) - 1
         /\ Members(Tail(s)) \subseteq Members(s)
         /\ Sorted(s) => Sorted(Tail(s)) /\ Before({Head(s)}, Members(Tail(s)))
<1>1. /\ Head(s) = s[1] /\ Tail(s) \in Seq(Nat) /\ Len(Tail(s)) = Len(s) - 1
      /\ Len(s) \in Nat \ {0} /\ DOMAIN s = 1..Len(s)
      /\ DOMAIN Tail(s) = 1..(Len(s) - 1)
      /\ \A i \in 1..(Len(s) - 1) : Tail(s)[i] = s[i + 1]
  BY HeadTailProperties, LenProperties
<1>2. \A i \in DOMAIN Tail(s) : i + 1 \in DOMAIN s /\ 1 < i + 1 /\ 1 \in DOMAIN s
  BY <1>1
<1>3. Members(Tail(s)) \subseteq Members(s)
  BY <1>1, <1>2 DEF Members
<1>4. ASSUME Sorted(s) PROVE Sorted(Tail(s)) /\ Before({Head(s)}, Members(Tail(s)))
  <2>1. \A i, j \in DOMAIN Tail(s) : i < j => i + 1 < j + 1
    BY <1>1
  <2>2. Sorted(Tail(s))
    BY <1>1, <1>2, <1>4, <2>1 DEF Sorted
  <2>3. Before({Head(s)}, Members(Tail(s)))
    BY <1>1, <1>2, <1>4 DEF Sorted, Before, Members
  <2> QED
    BY <2>2, <2>3
<1>5. s[1] \in Nat /\ s[1] \in Members(s)
  BY <1>1, ElementOfSeq DEF Members
<1> QED
  BY <1>1, <1>3, <1>4, <1>5

(* A sequence of numbers with one more at its end. *)
LEMMA AppendFacts ==
  ASSUME NEW s \in Seq(Nat), NEW n \in Nat
  PROVE  /\ Append(s, n) \in Seq(Nat) /\ Len(Append(s, n)) = Len(s) + 1
         /\ Members(Append(s, n)) = Members(s) \cup {n}
         /\ Sorted(s) /\ Before(Members(s), {n}) => Sorted(Append(s, n))
<1>1. /\ Append(s, n) \in Seq(Nat) /\ Len(Append(s, n)) = Len(s) + 1
      /\ Len(s) \in Nat /\ DOMAIN s = 1..Len(s)
      /\ DOMAIN Append(s, n) = 1..(Len(s) + 1)
      /\ \A i \in 1..Len(s) : Append(s, n)[i] = s[i]
      /\ Append(s, n)[Len(s) + 1] = n
  BY AppendProperties, LenProperties
<1>2. DOMAIN Append(s, n) = DOMAIN s \cup {Len(s) + 1}
  BY <1>1
<1>3. Members(Append(s, n)) = Members(s) \cup {n}
  BY <1>1, <1>2 DEF Members
<1>4. ASSUME Sorted(s), Before(Members(s), {n}) PROVE Sorted(Append(s, n))
  BY <1>1, <1>4 DEF Sorted, Before, Members
<1> QED
  BY <1>1, <1>3, <1>4

(* Nothing is before or after the members of the empty sequence. *)
LEMMA EmptyFacts == Members(<<>>) = {} /\ Sorted(<<>>) /\ <<>> \in Seq(Nat) /\ Len(<<>>) = 0
BY EmptySeq DEF Members, Sorted

-----------------------------------------------------------------------------

(* The initial state has these types. *)
LEMMA InitTypeInv == Init => TypeInv
BY EmptyFacts DEF Init, TypeInv, None

(* Types are kept. *)
LEMMA NextTypeInv ==
  TypeInv /\ [Next]_vars => TypeInv'
<1>s. SUFFICES ASSUME TypeInv, [Next]_vars PROVE TypeInv'
  OBVIOUS
<1> USE DEF callerVars, countVars, connectVars, packetVars, sessionVars,
      Fail, Decremented, None, TypeInv
<1>1. ASSUME TrySend PROVE TypeInv'
  <2>1. Append(queue, events + 1) \in Seq(Nat)
    BY <1>s, AppendFacts
  <2>2. CASE queue' = Append(queue, events + 1) /\ uncounted' = uncounted + 1
    BY <1>s, <1>1, <2>1, <2>2 DEF TrySend
  <2>3. CASE UNCHANGED <<queue, uncounted>>
    BY <1>s, <1>1, <2>3 DEF TrySend
  <2> QED
    BY <1>1, <2>2, <2>3 DEF TrySend
<1>2. ASSUME increment_queue_pending PROVE TypeInv'
  BY <1>s, <1>2 DEF increment_queue_pending
<1>3. ASSUME Close PROVE TypeInv'
  BY <1>s, <1>3 DEF Close
<1>4. ASSUME StartSession PROVE TypeInv'
  BY <1>s, <1>4, EmptyFacts DEF StartSession
<1>5. ASSUME Stop PROVE TypeInv'
  BY <1>s, <1>5, EmptyFacts DEF Stop
<1>6. ASSUME BackoffOver PROVE TypeInv'
  BY <1>s, <1>6 DEF BackoffOver
<1>7. ASSUME DrainPending PROVE TypeInv'
  <2>1. Head(pending_requests) \in Nat /\ Tail(pending_requests) \in Seq(Nat)
    BY <1>s, <1>7, TailFacts DEF DrainPending, Draining
  <2> QED
    BY <1>s, <1>7, <2>1 DEF DrainPending
<1>8. ASSUME Published PROVE TypeInv'
  BY <1>s, <1>8, AppendFacts DEF Published
<1>9. ASSUME PublishSnapshot PROVE TypeInv'
  BY <1>s, <1>9 DEF PublishSnapshot
<1>10. ASSUME Telemetry PROVE TypeInv'
  BY <1>s, <1>10 DEF Telemetry
<1>11. ASSUME ConnAck PROVE TypeInv'
  BY <1>s, <1>11 DEF ConnAck
<1>12. ASSUME PollSend PROVE TypeInv'
  BY <1>s, <1>12 DEF PollSend
<1>13. ASSUME RecvPublish PROVE TypeInv'
  BY <1>s, <1>13, TailFacts DEF RecvPublish
<1>14. ASSUME RecvKeep PROVE TypeInv'
  <2>1. /\ queue # <<>> /\ queue' = Tail(queue)
        /\ UNCHANGED <<events, uncounted, published, current>>
    BY <1>14 DEF RecvKeep
  <2>2. Head(queue) \in Nat /\ Tail(queue) \in Seq(Nat)
    BY <1>s, <2>1, TailFacts
  <2>3. CASE /\ pending_requests' = Append(pending_requests, Head(queue))
             /\ UNCHANGED countVars
    <3>1. pending_requests' \in Seq(Nat)
      BY <1>s, <2>2, <2>3, AppendFacts
    <3> QED
      BY <1>s, <2>1, <2>2, <2>3, <3>1
  <2>4. CASE /\ Len(pending_requests) >= MQTT_PUBLISH_QUEUE_CAPACITY
             /\ pending_requests' = Append(Tail(pending_requests), Head(queue))
             /\ queue_pending' = Decremented(queue_pending, 1)
    <3>1. pending_requests # <<>>
      BY <1>s, <2>4, MqttAssumption, EmptyFacts
    <3>2. Tail(pending_requests) \in Seq(Nat)
      BY <1>s, <3>1, TailFacts
    <3>3. pending_requests' \in Seq(Nat)
      BY <2>2, <2>4, <3>2, AppendFacts
    <3>4. queue_pending' \in Nat
      BY <1>s, <2>4
    <3> QED
      BY <1>s, <2>1, <2>2, <3>3, <3>4
  <2> QED
    BY <1>14, <2>3, <2>4 DEF RecvKeep
<1>15. ASSUME RecvClosed PROVE TypeInv'
  BY <1>s, <1>15, EmptyFacts DEF RecvClosed
<1>16. ASSUME Tick PROVE TypeInv'
  BY <1>s, <1>16 DEF Tick
<1>17. ASSUME PollError PROVE TypeInv'
  BY <1>s, <1>17, EmptyFacts DEF PollError
<1>18. ASSUME PublishFailed PROVE TypeInv'
  BY <1>s, <1>18, EmptyFacts DEF PublishFailed
<1>19. ASSUME SnapshotFailed PROVE TypeInv'
  BY <1>s, <1>19, EmptyFacts DEF SnapshotFailed
<1>20. ASSUME TelemetryFailed PROVE TypeInv'
  BY <1>s, <1>20, EmptyFacts DEF TelemetryFailed
<1>21. CASE UNCHANGED vars
  BY <1>s, <1>21 DEF vars
<1> QED
  BY Zenon, <1>s, <1>1, <1>2, <1>3, <1>4, <1>5, <1>6, <1>7, <1>8, <1>9,
     <1>10, <1>11, <1>12, <1>13, <1>14, <1>15, <1>16, <1>17, <1>18, <1>19,
     <1>20, <1>21 DEF Next, Loop, Publishing, Receive, Failure

-----------------------------------------------------------------------------
(* The connected flag and the session: a session that is over has cleared  *)
(* the flag, and one that finds it set has had its ConnAck.                *)
AckInv ==
  /\ pc \in {"start", "backoff"} => ~connected
  /\ connected /\ pc = "loop" => acked
  /\ PublishesWhenAcked

(* The flag follows the sessions. *)
LEMMA NextAckInv ==
  AckInv /\ [Next]_vars => AckInv'
<1>s. SUFFICES ASSUME AckInv, [Next]_vars PROVE AckInv'
  OBVIOUS
<1> USE DEF callerVars, countVars, connectVars, packetVars, sessionVars,
      Fail, Selecting, Draining, AckInv, PublishesWhenAcked
<1>1. ASSUME TrySend PROVE AckInv'
  BY <1>s, <1>1 DEF TrySend
<1>2. ASSUME increment_queue_pending PROVE AckInv'
  BY <1>s, <1>2 DEF increment_queue_pending
<1>3. ASSUME Close PROVE AckInv'
  BY <1>s, <1>3 DEF Close
<1>4. ASSUME StartSession PROVE AckInv'
  BY <1>s, <1>4 DEF StartSession
<1>5. ASSUME Stop PROVE AckInv'
  BY <1>s, <1>5 DEF Stop
<1>6. ASSUME BackoffOver PROVE AckInv'
  BY <1>s, <1>6 DEF BackoffOver
<1>7. ASSUME DrainPending PROVE AckInv'
  BY <1>s, <1>7 DEF DrainPending
<1>8. ASSUME Published PROVE AckInv'
  BY <1>s, <1>8 DEF Published
<1>9. ASSUME PublishSnapshot PROVE AckInv'
  BY <1>s, <1>9 DEF PublishSnapshot
<1>10. ASSUME Telemetry PROVE AckInv'
  BY <1>s, <1>10 DEF Telemetry
<1>11. ASSUME ConnAck PROVE AckInv'
  BY <1>s, <1>11 DEF ConnAck
<1>12. ASSUME PollSend PROVE AckInv'
  BY <1>s, <1>12 DEF PollSend
<1>13. ASSUME RecvPublish PROVE AckInv'
  BY <1>s, <1>13 DEF RecvPublish
<1>14. ASSUME RecvKeep PROVE AckInv'
  BY <1>s, <1>14 DEF RecvKeep
<1>15. ASSUME RecvClosed PROVE AckInv'
  BY <1>s, <1>15 DEF RecvClosed
<1>16. ASSUME Tick PROVE AckInv'
  BY <1>s, <1>16 DEF Tick
<1>17. ASSUME PollError PROVE AckInv'
  BY <1>s, <1>17 DEF PollError
<1>18. ASSUME PublishFailed PROVE AckInv'
  BY <1>s, <1>18 DEF PublishFailed
<1>19. ASSUME SnapshotFailed PROVE AckInv'
  BY <1>s, <1>19 DEF SnapshotFailed
<1>20. ASSUME TelemetryFailed PROVE AckInv'
  BY <1>s, <1>20 DEF TelemetryFailed
<1>21. CASE UNCHANGED vars
  BY <1>s, <1>21 DEF vars
<1> QED
  BY Zenon, <1>s, <1>1, <1>2, <1>3, <1>4, <1>5, <1>6, <1>7, <1>8, <1>9,
     <1>10, <1>11, <1>12, <1>13, <1>14, <1>15, <1>16, <1>17, <1>18, <1>19,
     <1>20, <1>21 DEF Next, Loop, Publishing, Receive, Failure

(* A session publishes only after its own ConnAck (run_mqtt_session), for  *)
(* any number of sessions, failures and reconnects.                        *)
THEOREM PublishesAfterConnAck == Spec => []PublishesWhenAcked
<1>1. Init => AckInv
  BY DEF Init, AckInv, PublishesWhenAcked
<1>2. AckInv => PublishesWhenAcked
  BY DEF AckInv
<1> QED
  BY <1>1, <1>2, NextAckInv, PTL DEF Spec

-----------------------------------------------------------------------------
(* Along the path of an event, from the channel to the client, numbers     *)
(* fall, and all are numbers that were given out: p is published, c is     *)
(* being published, k kept, q in the channel.                              *)
Ordered(p, c, k, q, e) ==
  /\ Sorted(p) /\ Sorted(k) /\ Sorted(q)
  /\ Before(Members(p), Members(k) \cup Members(q))
  /\ Before(Members(k), Members(q))
  /\ c # None => /\ Before(Members(p), {c})
                 /\ Before({c}, Members(k) \cup Members(q))
  /\ \A n \in Members(p) \cup Members(k) \cup Members(q) : 0 < n /\ n <= e
  /\ c <= e

(* Members of a sequence of numbers are numbers. *)
LEMMA MembersAreNat == ASSUME NEW s \in Seq(Nat) PROVE Members(s) \in SUBSET Nat
BY ElementOfSeq, LenProperties DEF Members

(* A new event comes last. *)
LEMMA OrderedSend ==
  ASSUME NEW p \in Seq(Nat), NEW k \in Seq(Nat), NEW q \in Seq(Nat),
         NEW c \in Nat, NEW e \in Nat, Ordered(p, c, k, q, e)
  PROVE  /\ Ordered(p, c, k, Append(q, e + 1), e + 1)
         /\ Ordered(p, c, k, q, e + 1)
<1>1. /\ Members(Append(q, e + 1)) = Members(q) \cup {e + 1}
      /\ Sorted(q) /\ Before(Members(q), {e + 1}) => Sorted(Append(q, e + 1))
  BY e + 1 \in Nat, AppendFacts
<1>2. Before(Members(q), {e + 1})
  BY MembersAreNat DEF Ordered, Before
<1>m. /\ Members(p) \in SUBSET Nat /\ Members(k) \in SUBSET Nat
      /\ Members(q) \in SUBSET Nat
  BY MembersAreNat
<1> QED
  BY <1>m, <1>1, <1>2 DEF Ordered, Before, None

(* The oldest kept event is the next to publish. *)
LEMMA OrderedDrain ==
  ASSUME NEW p \in Seq(Nat), NEW k \in Seq(Nat), NEW q \in Seq(Nat),
         NEW c \in Nat, NEW e \in Nat, Ordered(p, None, k, q, e), k # <<>>
  PROVE  Ordered(p, Head(k), Tail(k), q, e) /\ Head(k) # None
<1>1. /\ Head(k) \in Nat /\ Head(k) \in Members(k)
      /\ Members(Tail(k)) \subseteq Members(k)
      /\ Sorted(Tail(k)) /\ Before({Head(k)}, Members(Tail(k)))
  BY Zenon, TailFacts DEF Ordered
<1>m. /\ Members(p) \in SUBSET Nat /\ Members(k) \in SUBSET Nat
      /\ Members(q) \in SUBSET Nat
  BY MembersAreNat
<1> QED
  BY <1>m, <1>1 DEF Ordered, Before, None

(* With none kept it is the oldest one of the channel. *)
LEMMA OrderedTake ==
  ASSUME NEW p \in Seq(Nat), NEW k \in Seq(Nat), NEW q \in Seq(Nat),
         NEW c \in Nat, NEW e \in Nat, Ordered(p, None, <<>>, q, e), q # <<>>
  PROVE  Ordered(p, Head(q), <<>>, Tail(q), e) /\ Head(q) # None
<1>1. /\ Head(q) \in Nat /\ Head(q) \in Members(q)
      /\ Members(Tail(q)) \subseteq Members(q)
      /\ Sorted(Tail(q)) /\ Before({Head(q)}, Members(Tail(q)))
  BY Zenon, TailFacts DEF Ordered
<1>2. Members(<<>>) = {}
  BY EmptyFacts
<1>m. /\ Members(p) \in SUBSET Nat /\ Members(k) \in SUBSET Nat
      /\ Members(q) \in SUBSET Nat
  BY MembersAreNat
<1> QED
  BY <1>m, <1>1, <1>2 DEF Ordered, Before, None

(* Published events are followed by newer ones. *)
LEMMA OrderedPublish ==
  ASSUME NEW p \in Seq(Nat), NEW k \in Seq(Nat), NEW q \in Seq(Nat),
         NEW c \in Nat, NEW e \in Nat, Ordered(p, c, k, q, e), c # None
  PROVE  Ordered(Append(p, c), None, k, q, e)
<1>1. /\ Members(Append(p, c)) = Members(p) \cup {c}
      /\ Sorted(p) /\ Before(Members(p), {c}) => Sorted(Append(p, c))
  BY Zenon, AppendFacts
<1>m. /\ Members(p) \in SUBSET Nat /\ Members(k) \in SUBSET Nat
      /\ Members(q) \in SUBSET Nat
  BY MembersAreNat
<1> QED
  BY <1>m, <1>1 DEF Ordered, Before, None

(* The oldest event of the channel is the newest one kept. *)
LEMMA OrderedKeep ==
  ASSUME NEW p \in Seq(Nat), NEW k \in Seq(Nat), NEW q \in Seq(Nat),
         NEW c \in Nat, NEW e \in Nat, Ordered(p, None, k, q, e), q # <<>>
  PROVE  Ordered(p, None, Append(k, Head(q)), Tail(q), e)
<1>1. /\ Head(q) \in Nat /\ Head(q) \in Members(q)
      /\ Members(Tail(q)) \subseteq Members(q)
      /\ Sorted(Tail(q)) /\ Before({Head(q)}, Members(Tail(q)))
  BY Zenon, TailFacts DEF Ordered
<1>2. /\ Members(Append(k, Head(q))) = Members(k) \cup {Head(q)}
      /\ Sorted(k) /\ Before(Members(k), {Head(q)}) => Sorted(Append(k, Head(q)))
  BY Zenon, <1>1, AppendFacts
<1>3. Before(Members(k), {Head(q)})
  BY <1>1 DEF Ordered, Before
<1>m. /\ Members(p) \in SUBSET Nat /\ Members(k) \in SUBSET Nat
      /\ Members(q) \in SUBSET Nat
  BY MembersAreNat
<1> QED
  BY Zenon, <1>m, <1>1, <1>2, <1>3 DEF Ordered, Before, None

(* The oldest kept event may be dropped. *)
LEMMA OrderedDrop ==
  ASSUME NEW p \in Seq(Nat), NEW k \in Seq(Nat), NEW q \in Seq(Nat),
         NEW c \in Nat, NEW e \in Nat, Ordered(p, None, k, q, e), k # <<>>
  PROVE  Ordered(p, None, Tail(k), q, e)
<1>1. /\ Head(k) \in Nat /\ Head(k) \in Members(k)
      /\ Members(Tail(k)) \subseteq Members(k)
      /\ Sorted(Tail(k)) /\ Before({Head(k)}, Members(Tail(k)))
  BY Zenon, TailFacts DEF Ordered
<1>m. /\ Members(p) \in SUBSET Nat /\ Members(k) \in SUBSET Nat
      /\ Members(q) \in SUBSET Nat
  BY MembersAreNat
<1> QED
  BY <1>m, <1>1 DEF Ordered, Before, None

(* What is kept, and what is in the channel, may be lost. *)
LEMMA OrderedLose ==
  ASSUME NEW p \in Seq(Nat), NEW k \in Seq(Nat), NEW q \in Seq(Nat),
         NEW c \in Nat, NEW e \in Nat, Ordered(p, c, k, q, e)
  PROVE  Ordered(p, None, <<>>, q, e) /\ Ordered(p, c, k, <<>>, e)
<1>1. Members(<<>>) = {} /\ Sorted(<<>>)
  BY EmptyFacts
<1>m. /\ Members(p) \in SUBSET Nat /\ Members(k) \in SUBSET Nat
      /\ Members(q) \in SUBSET Nat
  BY MembersAreNat
<1> QED
  BY <1>m, <1>1 DEF Ordered, Before, None

OrderInv ==
  /\ Ordered(published, current, pending_requests, queue, events)
  /\ pc = "publish" <=> current # None

(* No step lets an event overtake another. *)
LEMMA NextOrderInv ==
  TypeInv /\ OrderInv /\ [Next]_vars => OrderInv'
<1>s. SUFFICES ASSUME TypeInv, OrderInv, [Next]_vars PROVE OrderInv'
  OBVIOUS
<1> USE DEF callerVars, countVars, connectVars, packetVars, sessionVars
<1>o. OrderInv
  BY <1>s
<1>t. /\ queue \in Seq(Nat) /\ pending_requests \in Seq(Nat) /\ published \in Seq(Nat)
      /\ current \in Nat /\ events \in Nat /\ None \in Nat
  BY <1>s DEF TypeInv, None
<1>p. /\ Ordered(published', current', pending_requests', queue', events')
      /\ pc' = "publish" <=> current' # None
      => OrderInv'
  BY DEF OrderInv, Ordered, Sorted, Before, Members
<1>1. ASSUME TrySend PROVE OrderInv'
  <2>1. Ordered(published', current', pending_requests', queue', events')
    BY Zenon, <1>o, <1>t, <1>1, OrderedSend DEF TrySend, OrderInv
  <2> QED
    BY <1>o, <1>1, <1>p, <2>1 DEF TrySend, OrderInv
<1>2. ASSUME increment_queue_pending PROVE OrderInv'
  BY <1>o, <1>2, <1>p DEF increment_queue_pending, OrderInv
<1>3. ASSUME Close PROVE OrderInv'
  BY <1>o, <1>3, <1>p DEF Close, OrderInv
<1>4. ASSUME StartSession PROVE OrderInv'
  <2>1. Ordered(published', current', pending_requests', queue', events')
    BY <1>o, <1>t, <1>4, OrderedLose DEF StartSession, OrderInv
  <2> QED
    BY <1>o, <1>4, <1>p, <2>1 DEF StartSession, OrderInv
<1>5. ASSUME Stop PROVE OrderInv'
  <2>1. Ordered(published', current', pending_requests', queue', events')
    BY <1>o, <1>t, <1>5, OrderedLose DEF Stop, OrderInv
  <2> QED
    BY <1>o, <1>5, <1>p, <2>1 DEF Stop, OrderInv
<1>6. ASSUME BackoffOver PROVE OrderInv'
  BY <1>o, <1>6, <1>p DEF BackoffOver, OrderInv
<1>7. ASSUME DrainPending PROVE OrderInv'
  <2>1. Ordered(published', current', pending_requests', queue', events') /\ current' # None
    BY Zenon, <1>o, <1>t, <1>7, OrderedDrain DEF DrainPending, OrderInv, Draining
  <2> QED
    BY <1>o, <1>7, <1>p, <2>1 DEF DrainPending, OrderInv, Draining
<1>8. ASSUME Published PROVE OrderInv'
  <2>1. Ordered(published', current', pending_requests', queue', events')
    BY <1>o, <1>t, <1>8, OrderedPublish DEF Published, OrderInv
  <2> QED
    BY <1>o, <1>8, <1>p, <2>1 DEF Published, OrderInv
<1>9. ASSUME PublishSnapshot PROVE OrderInv'
  BY <1>o, <1>9, <1>p DEF PublishSnapshot, OrderInv
<1>10. ASSUME Telemetry PROVE OrderInv'
  BY <1>o, <1>10, <1>p DEF Telemetry, OrderInv
<1>11. ASSUME ConnAck PROVE OrderInv'
  BY <1>o, <1>11, <1>p DEF ConnAck, OrderInv, Selecting
<1>12. ASSUME PollSend PROVE OrderInv'
  BY <1>o, <1>12, <1>p DEF PollSend, OrderInv
<1>13. ASSUME RecvPublish PROVE OrderInv'
  <2>1. Ordered(published', current', pending_requests', queue', events') /\ current' # None
    BY <1>o, <1>t, <1>13, OrderedTake DEF RecvPublish, OrderInv, Selecting, Draining
  <2> QED
    BY <1>o, <1>13, <1>p, <2>1 DEF RecvPublish, OrderInv, Selecting, Draining
<1>14. ASSUME RecvKeep PROVE OrderInv'
  <2>1. /\ queue # <<>> /\ queue' = Tail(queue) /\ pc = "loop"
        /\ UNCHANGED <<events, published, current, pc>>
    BY <1>14 DEF RecvKeep, Selecting
  <2>2. CASE pending_requests' = Append(pending_requests, Head(queue))
    BY Zenon, <1>o, <1>t, <1>p, <2>1, <2>2, OrderedKeep DEF OrderInv
  <2>3. CASE /\ Len(pending_requests) >= MQTT_PUBLISH_QUEUE_CAPACITY
             /\ pending_requests' = Append(Tail(pending_requests), Head(queue))
    <3>1. pending_requests # <<>>
      BY <1>t, <2>3, MqttAssumption, EmptyFacts
    <3>2. /\ Tail(pending_requests) \in Seq(Nat)
          /\ Ordered(published, None, Tail(pending_requests), queue, events)
      BY Zenon, <1>o, <1>t, <2>1, <3>1, TailFacts, OrderedDrop DEF OrderInv
    <3> QED
      BY Zenon, <1>o, <1>t, <1>p, <2>1, <2>3, <3>2, OrderedKeep DEF OrderInv
  <2> QED
    BY <1>14, <2>2, <2>3 DEF RecvKeep
<1>15. ASSUME RecvClosed PROVE OrderInv'
  <2>1. /\ pending_requests' = <<>> /\ pc = "loop" /\ pc' = "start"
        /\ UNCHANGED <<published, current, queue, events>>
    BY <1>15 DEF RecvClosed, Selecting
  <2>2. current = None
    BY <1>o, <2>1 DEF OrderInv
  <2>3. Ordered(published, None, <<>>, queue, events)
    BY <1>o, <1>t, OrderedLose DEF OrderInv
  <2> QED
    BY <1>p, <2>1, <2>2, <2>3
<1>16. ASSUME Tick PROVE OrderInv'
  BY <1>o, <1>16, <1>p DEF Tick, OrderInv, Selecting
<1>17. ASSUME PollError PROVE OrderInv'
  <2>1. Ordered(published', current', pending_requests', queue', events')
    BY <1>o, <1>t, <1>17, OrderedLose DEF PollError, OrderInv, Fail, Selecting
  <2> QED
    BY <1>o, <1>17, <1>p, <2>1 DEF PollError, OrderInv, Fail, Selecting
<1>18. ASSUME PublishFailed PROVE OrderInv'
  <2>1. Ordered(published', current', pending_requests', queue', events')
    BY <1>o, <1>t, <1>18, OrderedLose DEF PublishFailed, OrderInv, Fail
  <2> QED
    BY <1>o, <1>18, <1>p, <2>1 DEF PublishFailed, OrderInv, Fail
<1>19. ASSUME SnapshotFailed PROVE OrderInv'
  <2>1. Ordered(published', current', pending_requests', queue', events')
    BY <1>o, <1>t, <1>19, OrderedLose DEF SnapshotFailed, OrderInv, Fail
  <2> QED
    BY <1>o, <1>19, <1>p, <2>1 DEF SnapshotFailed, OrderInv, Fail
<1>20. ASSUME TelemetryFailed PROVE OrderInv'
  <2>1. Ordered(published', current', pending_requests', queue', events')
    BY <1>o, <1>t, <1>20, OrderedLose DEF TelemetryFailed, OrderInv, Fail
  <2> QED
    BY <1>o, <1>20, <1>p, <2>1 DEF TelemetryFailed, OrderInv, Fail
<1>21. CASE UNCHANGED vars
  BY <1>o, <1>21, <1>p DEF vars, OrderInv
<1> QED
  BY Zenon, <1>s, <1>1, <1>2, <1>3, <1>4, <1>5, <1>6, <1>7, <1>8, <1>9,
     <1>10, <1>11, <1>12, <1>13, <1>14, <1>15, <1>16, <1>17, <1>18, <1>19,
     <1>20, <1>21 DEF Next, Loop, Publishing, Receive, Failure

(* Events are published in the order in which they were handed over, and   *)
(* none twice (run_mqtt_session), whatever was kept, dropped or lost.      *)
THEOREM PublishedInOrder == Spec => []InOrder
<1>1. Init => TypeInv /\ OrderInv
  BY InitTypeInv, EmptyFacts DEF Init, OrderInv, Ordered, Before, None
<1>2. TypeInv /\ OrderInv /\ [Next]_vars => (TypeInv /\ OrderInv)'
  BY NextTypeInv, NextOrderInv
<1>3. OrderInv => InOrder
  BY DEF OrderInv, Ordered, Sorted, InOrder
<1> QED
  BY <1>1, <1>2, <1>3, PTL DEF Spec

-----------------------------------------------------------------------------
(* Taking one off the count and one off those that wait keeps it covering. *)
LEMMA OneLessWaits ==
  ASSUME NEW count \in Nat, NEW late \in Nat, NEW fewer \in Nat,
         NEW kept \in Nat, NEW taken \in Nat,
         count + late >= fewer + 1 + kept + taken
  PROVE  Decremented(count, 1) + late >= fewer + kept + taken
BY DEF Decremented


(* Every event that is taken off the count no longer waits. *)
LEMMA NextDepthCovers ==
  TypeInv /\ OrderInv /\ DepthCovers /\ [Next]_vars => DepthCovers'
<1>s. SUFFICES ASSUME TypeInv, OrderInv, DepthCovers, [Next]_vars PROVE DepthCovers'
  OBVIOUS
<1> USE DEF callerVars, countVars, connectVars, packetVars, sessionVars,
      Fail, Decremented, DepthCovers, Waiting, None
<1>t. /\ queue \in Seq(Nat) /\ pending_requests \in Seq(Nat)
      /\ uncounted \in Nat /\ queue_pending \in Nat /\ current \in Nat
      /\ Len(queue) \in Nat /\ Len(pending_requests) \in Nat /\ Len(<<>>) = 0
  BY <1>s, LenProperties, EmptyFacts DEF TypeInv
<1>c. pc = "publish" <=> current # 0
  BY <1>s DEF OrderInv
<1>d. queue_pending + uncounted
        >= Len(queue) + Len(pending_requests) + (IF current = 0 THEN 0 ELSE 1)
  BY <1>s
<1>1. ASSUME TrySend PROVE DepthCovers'
  BY <1>t, <1>c, <1>d, <1>1 DEF TrySend
<1>2. ASSUME increment_queue_pending PROVE DepthCovers'
  BY <1>t, <1>c, <1>d, <1>2 DEF increment_queue_pending
<1>3. ASSUME Close PROVE DepthCovers'
  BY <1>t, <1>c, <1>d, <1>3 DEF Close
<1>4. ASSUME StartSession PROVE DepthCovers'
  BY <1>t, <1>c, <1>d, <1>4 DEF StartSession
<1>5. ASSUME Stop PROVE DepthCovers'
  BY <1>t, <1>c, <1>d, <1>5 DEF Stop
<1>6. ASSUME BackoffOver PROVE DepthCovers'
  BY <1>t, <1>c, <1>d, <1>6 DEF BackoffOver
<1>7. ASSUME DrainPending PROVE DepthCovers'
  <2>1. Len(pending_requests') = Len(pending_requests) - 1
    BY <1>t, <1>7, TailFacts DEF DrainPending, Draining
  <2>2. current = 0 /\ UNCHANGED <<queue, queue_pending, uncounted>>
    BY <1>c, <1>7 DEF DrainPending
  <2> QED
    BY <1>t, <1>d, <2>1, <2>2
<1>8. ASSUME Published PROVE DepthCovers'
  BY <1>t, <1>c, <1>d, <1>8 DEF Published
<1>9. ASSUME PublishSnapshot PROVE DepthCovers'
  BY <1>t, <1>c, <1>d, <1>9 DEF PublishSnapshot
<1>10. ASSUME Telemetry PROVE DepthCovers'
  BY <1>t, <1>c, <1>d, <1>10 DEF Telemetry
<1>11. ASSUME ConnAck PROVE DepthCovers'
  BY <1>t, <1>c, <1>d, <1>11 DEF ConnAck
<1>12. ASSUME PollSend PROVE DepthCovers'
  BY <1>t, <1>c, <1>d, <1>12 DEF PollSend
<1>13. ASSUME RecvPublish PROVE DepthCovers'
  BY <1>t, <1>c, <1>d, <1>13 DEF RecvPublish, Selecting
<1>14. ASSUME RecvKeep PROVE DepthCovers'
  <2>1. /\ Len(queue') = Len(queue) - 1 /\ Head(queue) \in Nat
        /\ UNCHANGED <<uncounted, current>>
    BY <1>t, <1>14, TailFacts DEF RecvKeep
  <2>2. CASE /\ pending_requests' = Append(pending_requests, Head(queue))
             /\ UNCHANGED countVars
    <3>1. Len(pending_requests') = Len(pending_requests) + 1
      BY <1>t, <2>1, <2>2, AppendFacts
    <3> QED
      BY <1>t, <1>d, <2>1, <2>2, <3>1
  <2>3. CASE /\ Len(pending_requests) >= MQTT_PUBLISH_QUEUE_CAPACITY
             /\ pending_requests' = Append(Tail(pending_requests), Head(queue))
             /\ queue_pending' = Decremented(queue_pending, 1)
    <3>1. pending_requests # <<>>
      BY <1>t, <2>3, MqttAssumption
    <3>2. /\ Tail(pending_requests) \in Seq(Nat)
          /\ Len(Tail(pending_requests)) = Len(pending_requests) - 1
      BY <1>t, <3>1, TailFacts
    <3>3. Len(pending_requests') = Len(pending_requests)
      BY <1>t, <2>1, <2>3, <3>2, AppendFacts
    <3>4. Len(queue') \in Nat /\ Len(queue) = Len(queue') + 1
      BY <1>t, <2>1, LenProperties
    <3>5. (IF current = 0 THEN 0 ELSE 1) \in Nat
      OBVIOUS
    <3>6. queue_pending' + uncounted
            >= Len(queue') + Len(pending_requests) + (IF current = 0 THEN 0 ELSE 1)
      BY <1>t, <1>d, <2>3, <3>4, <3>5, OneLessWaits
    <3> QED
      BY <2>1, <3>3, <3>6
  <2> QED
    BY <1>14, <2>2, <2>3 DEF RecvKeep
<1>15. ASSUME RecvClosed PROVE DepthCovers'
  BY <1>t, <1>c, <1>d, <1>15 DEF RecvClosed, Selecting
<1>16. ASSUME Tick PROVE DepthCovers'
  BY <1>t, <1>c, <1>d, <1>16 DEF Tick
<1>17. ASSUME PollError PROVE DepthCovers'
  BY <1>t, <1>c, <1>d, <1>17 DEF PollError, Selecting
<1>18. ASSUME PublishFailed PROVE DepthCovers'
  BY <1>t, <1>c, <1>d, <1>18 DEF PublishFailed
<1>19. ASSUME SnapshotFailed PROVE DepthCovers'
  BY <1>t, <1>c, <1>d, <1>19 DEF SnapshotFailed
<1>20. ASSUME TelemetryFailed PROVE DepthCovers'
  BY <1>t, <1>c, <1>d, <1>20 DEF TelemetryFailed
<1>21. CASE UNCHANGED vars
  BY <1>d, <1>21 DEF vars
<1> QED
  BY Zenon, <1>s, <1>1, <1>2, <1>3, <1>4, <1>5, <1>6, <1>7, <1>8, <1>9,
     <1>10, <1>11, <1>12, <1>13, <1>14, <1>15, <1>16, <1>17, <1>18, <1>19,
     <1>20, <1>21 DEF Next, Loop, Publishing, Receive, Failure

(* The queue depth that telemetry reports covers the events that wait, but *)
(* for those whose callers have yet to count them (queue_pending, which is *)
(* incremented after the event can be taken off the channel).              *)
THEOREM DepthIsCovered == Spec => []DepthCovers
<1>1. Init => TypeInv /\ OrderInv /\ DepthCovers
  BY InitTypeInv, EmptyFacts
     DEF Init, OrderInv, Ordered, Before, None, DepthCovers, Waiting
<1>2. TypeInv /\ OrderInv /\ DepthCovers /\ [Next]_vars
        => (TypeInv /\ OrderInv /\ DepthCovers)'
  BY NextTypeInv, NextOrderInv, NextDepthCovers
<1> QED
  BY <1>1, <1>2, PTL DEF Spec
=============================================================================
