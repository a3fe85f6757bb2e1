----------------------------- MODULE MCAlerting -----------------------------
(* Alerting with three rules in the style of default_alert_rules, the last *)
(* of them about a metric the code does not know.  Of the publisher only   *)
(* its connection moves.                                                   *)
EXTENDS Alerting

MCRules == <<
  [name |-> "connections", severity |-> "warning", duration |-> Absent,
   condition |-> [metric |-> "active_device_connections", op |-> ">=",
                  threshold |-> 1]],
  [name |-> "mqtt", severity |-> "critical", duration |-> 2,
   condition |-> [metric |-> "mqtt_connected", op |-> "==",
                  threshold |-> FALSE]],
  [name |-> "unknown", severity |-> "info", duration |-> Absent,
   condition |-> [metric |-> "unknown", op |-> ">", threshold |-> 0]] >>

MCContexts == [active_device_connections : {0, 1}]

publisherVars ==
  <<callerVars, queue, countVars, pc, has_connected_once, reconnect_count,
    sessions, acked, sessionVars>>

MCSpec ==
  /\ Init /\ AlertingInit
  /\ [][AlertingNext /\ UNCHANGED publisherVars]_<<publisherVars, alertingVars>>
  /\ AlertingFairness
=============================================================================
