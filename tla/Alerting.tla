------------------------------ MODULE Alerting ------------------------------
(***************************************************************************)
(* The alerting task (AlertingRuntime::spawn).  Every evaluation interval, *)
(* or later, it samples the relay's metrics, the publisher's connection to *)
(* the broker (MqttRuntimeState) among them, and walks over the rules;     *)
(* what it remembers is kept per rule NAME, in the three maps of the code. *)
(* Instants are kept as ages.  The task awaits nothing between two rules,  *)
(* but the clock is read for each rule, and the metrics go on changing.    *)
(***************************************************************************)
EXTENDS MqttPublisher

CONSTANTS
  Names,
  rules,          \* sequence of rules: name, condition, severity, duration
  min_interval,   \* config.suppression.min_interval_seconds
  Contexts,       \* the values the other metrics can have
  MaxAge,         \* bound: ages told apart
  Absent          \* no entry in a map, no duration, no alert

Severities == {"info", "warning", "critical"}
Ages == 0..MaxAge

ASSUME AlertingAssumption ==
  /\ Len(rules) \in Nat /\ DOMAIN rules = 1..Len(rules)
  /\ \A i \in DOMAIN rules : /\ rules[i].name \in Names
                             /\ rules[i].severity \in Severities
                             /\ rules[i].duration \in Ages \cup {Absent}
  /\ min_interval \in Nat /\ MaxAge \in Nat
  /\ MaxAge >= min_interval
  /\ Absent \notin Ages /\ Absent \notin Severities

VARIABLES
  context,                  \* what the metrics show now
  condition_active_since,   \* name -> age of the entry
  last_sent,                \* name -> age of the entry
  last_state,               \* name -> severity
  ticked,                   \* has time passed since the last sample?
  sampled, index,           \* the AlertContext, and the rule the task is at
  cleared,    \* names whose condition was seen not to hold since their alert
  held,       \* name -> how long every evaluation has seen its condition
  quiet,      \* name -> how long no alert was emitted
  emitted     \* the alert of this step, and what preceded it

mapVars == <<condition_active_since, last_sent, last_state>>
historyVars == <<cleared, held, quiet, emitted>>
alertingVars == <<connected, context, mapVars, ticked, sampled, index, historyVars>>

AlertContext ==
  [metric \in DOMAIN context \cup {"mqtt_connected"} |->
     IF metric = "mqtt_connected" THEN connected ELSE context[metric]]

AlertingInit ==
  /\ connected \in BOOLEAN
  /\ context \in Contexts
  /\ condition_active_since = [n \in Names |-> Absent]
  /\ last_sent = [n \in Names |-> Absent]
  /\ last_state = [n \in Names |-> Absent]
  /\ ticked = TRUE
  /\ sampled = Absent
  /\ index = 0
  /\ cleared = Names
  /\ held = [n \in Names |-> Absent]
  /\ quiet = [n \in Names |-> MaxAge]
  /\ emitted = Absent

-----------------------------------------------------------------------------
(* read_metric knows the numeric metrics; an unknown one, and a comparison *)
(* the code does not know, makes a condition false.                        *)
read_metric(metric, values) == metric \in DOMAIN values \ {"mqtt_connected"}

evaluate_condition(condition, values) ==
  LET metric == condition.metric
      threshold == condition.threshold
  IN CASE condition.op = ">=" ->
            read_metric(metric, values) /\ values[metric] >= threshold
       [] condition.op = ">" ->
            read_metric(metric, values) /\ values[metric] > threshold
       [] condition.op = "==" ->
            metric = "mqtt_connected" /\ values[metric] = threshold
       [] OTHER -> FALSE

Following(i) == IF i = Len(rules) THEN 0 ELSE i + 1

(* The ticker lets an evaluation begin, with a sample of the metrics. *)
Sample ==
  /\ index = 0
  /\ ticked
  /\ ticked' = FALSE
  /\ sampled' = AlertContext
  /\ index' = Following(0)
  /\ emitted' = Absent
  /\ UNCHANGED <<connected, context, mapVars, cleared, held, quiet>>

Seen(ages, rule) ==
  [ages EXCEPT ![rule.name] = IF @ = Absent THEN 0 ELSE @]

Forgotten(map, rule) == [map EXCEPT ![rule.name] = Absent]

(* What every evaluation of a rule that emits nothing leaves alone. *)
NoAlert == emitted' = Absent /\ UNCHANGED quiet

(* Mutant: the suppression is forgotten as well. *)
ClearAll(rule) ==
  /\ condition_active_since' = Forgotten(condition_active_since, rule)
  /\ last_state' = Forgotten(last_state, rule)
  /\ last_sent' = Forgotten(last_sent, rule)
  /\ cleared' = cleared \cup {rule.name}
  /\ held' = Forgotten(held, rule)
  /\ NoAlert

(* Mutant: the time since which the condition held is kept. *)
ClearState(rule) ==
  /\ last_state' = Forgotten(last_state, rule)
  /\ cleared' = cleared \cup {rule.name}
  /\ held' = Forgotten(held, rule)
  /\ NoAlert
  /\ UNCHANGED <<condition_active_since, last_sent>>

(* The condition does not hold. *)
Clear(rule) ==
  /\ condition_active_since' = Forgotten(condition_active_since, rule)
  /\ last_state' = Forgotten(last_state, rule)
  /\ cleared' = cleared \cup {rule.name}
  /\ held' = Forgotten(held, rule)
  /\ NoAlert
  /\ UNCHANGED last_sent

(* active_since is the entry of the map, made if there is none. *)
TooShort(rule) ==
  rule.duration # Absent /\ Seen(condition_active_since, rule)[rule.name] < rule.duration

Suppressed(rule) ==
  last_sent[rule.name] # Absent /\ last_sent[rule.name] < min_interval

(* Mutant: an alert is repeated. *)
NeverKnown(rule) == FALSE

Known(rule) == last_state[rule.name] = rule.severity

(* emit_alert, and the two insertions after it. *)
Emit(rule) ==
  /\ last_sent' = [last_sent EXCEPT ![rule.name] = 0]
  /\ last_state' = [last_state EXCEPT ![rule.name] = rule.severity]
  /\ cleared' = cleared \ {rule.name}
  /\ quiet' = [quiet EXCEPT ![rule.name] = 0]
  /\ emitted' = [rule |-> rule, quiet |-> quiet[rule.name],
                 cleared |-> rule.name \in cleared,
                 held |-> Seen(held, rule)[rule.name]]

(* Mutant: the state is recorded although the alert is suppressed. *)
ConsiderSuppressed(rule) ==
  /\ condition_active_since' = Seen(condition_active_since, rule)
  /\ held' = Seen(held, rule)
  /\ \/ /\ TooShort(rule) \/ Known(rule)
        /\ NoAlert
        /\ UNCHANGED <<last_sent, last_state, cleared>>
     \/ /\ ~TooShort(rule) /\ ~Known(rule) /\ Suppressed(rule)
        /\ last_state' = [last_state EXCEPT ![rule.name] = rule.severity]
        /\ NoAlert
        /\ UNCHANGED <<last_sent, cleared>>
     \/ /\ ~TooShort(rule) /\ ~Known(rule) /\ ~Suppressed(rule)
        /\ Emit(rule)

(* The condition holds. *)
Consider(rule) ==
  /\ condition_active_since' = Seen(condition_active_since, rule)
  /\ held' = Seen(held, rule)
  /\ \/ /\ TooShort(rule) \/ Suppressed(rule) \/ Known(rule)
        /\ NoAlert
        /\ UNCHANGED <<last_sent, last_state, cleared>>
     \/ /\ ~TooShort(rule) /\ ~Suppressed(rule) /\ ~Known(rule)
        /\ Emit(rule)

(* The body of the loop over the rules. *)
EvaluateRule ==
  /\ index # 0
  /\ LET rule == rules[index]
     IN \/ evaluate_condition(rule.condition, sampled) /\ Consider(rule)
        \/ ~evaluate_condition(rule.condition, sampled) /\ Clear(rule)
  /\ index' = Following(index)
  /\ sampled' = IF index' = 0 THEN Absent ELSE sampled
  /\ UNCHANGED <<connected, context, ticked>>

(* Time passes; evaluations may be late, and then are not made up for. *)
Older(ages) ==
  [n \in Names |-> IF ages[n] = Absent \/ ages[n] = MaxAge THEN ages[n]
                                                         ELSE ages[n] + 1]

AlertingTick ==
  /\ ticked' = TRUE
  /\ condition_active_since' = Older(condition_active_since)
  /\ last_sent' = Older(last_sent)
  /\ held' = Older(held)
  /\ quiet' = Older(quiet)
  /\ emitted' = Absent
  /\ UNCHANGED <<connected, context, last_state, sampled, index, cleared>>

(* The relay's sessions and load change, and its connection to the broker: *)
(* of the publisher's steps the task sees what they do to the latter.      *)
MetricsChange ==
  /\ \/ context' \in Contexts \ {context} /\ UNCHANGED connected
     \/ connected' = ~connected /\ UNCHANGED context
  /\ emitted' = Absent
  /\ UNCHANGED <<mapVars, ticked, sampled, index, cleared, held, quiet>>

AlertingNext == Sample \/ EvaluateRule \/ AlertingTick \/ MetricsChange

AlertingSpec == AlertingInit /\ [][AlertingNext]_alertingVars

(* The task is scheduled, and time passes. *)
AlertingFairness ==
  /\ WF_alertingVars(Sample) /\ WF_alertingVars(EvaluateRule)
  /\ WF_alertingVars(AlertingTick)

-----------------------------------------------------------------------------
(* Every variable has its type, and a severity is remembered only of a     *)
(* condition that still holds and an alert that was sent.                  *)
AlertingTypeOK ==
  /\ connected \in BOOLEAN /\ context \in Contexts
  /\ condition_active_since \in [Names -> Ages \cup {Absent}]
  /\ last_sent \in [Names -> Ages \cup {Absent}]
  /\ last_state \in [Names -> Severities \cup {Absent}]
  /\ \A n \in Names :
       last_state[n] # Absent => Absent \notin {condition_active_since[n], last_sent[n]}
  /\ ticked \in BOOLEAN
  /\ index \in 0..Len(rules)
  /\ cleared \subseteq Names
  /\ held \in [Names -> Ages \cup {Absent}]
  /\ quiet \in [Names -> Ages]
  /\ emitted \in [rule : {rules[i] : i \in DOMAIN rules}, quiet : Ages,
                 cleared : BOOLEAN, held : Ages] \cup {Absent}

(* Two alerts of one name are min_interval apart, although clearing a rule *)
(* forgets everything else about it: a condition that flaps does not flood *)
(* the channels.                                                           *)
AlertsSpaced == emitted # Absent => emitted.quiet >= min_interval

(* A condition that holds on is alerted once: a second alert of a name     *)
(* follows an evaluation that saw its condition not hold.                  *)
OncePerEpisode == emitted # Absent => emitted.cleared

(* An alert with a duration is emitted only after every evaluation during  *)
(* that time has seen its condition.                                       *)
Sustained ==
  emitted # Absent /\ emitted.rule.duration # Absent =>
    emitted.held >= emitted.rule.duration

(* No alert is lost to suppression: if a rule's condition holds from some  *)
(* time on, its alert is emitted after the last time it was seen not to    *)
(* hold.                                                                   *)
PersistentIsAlerted ==
  \A i \in DOMAIN rules :
    <>[]evaluate_condition(rules[i].condition, AlertContext)
      => <>[](rules[i].name \notin cleared)
=============================================================================
