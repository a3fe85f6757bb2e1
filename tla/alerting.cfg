SPECIFICATION MCSpec
CONSTANTS
  MQTT_PUBLISH_QUEUE_CAPACITY = 1
  ClientCapacity = 1
  MaxOnline = 0
  MaxEvents = 0
  MaxTicks = 0
  MaxSessions = 1
  Names = {"connections", "mqtt", "unknown"}
  rules <- MCRules
  min_interval = 4
  Contexts <- MCContexts
  MaxAge = 5
  Absent = Absent
INVARIANTS
  AlertsSpaced
  OncePerEpisode
  Sustained
PROPERTIES
  PersistentIsAlerted
