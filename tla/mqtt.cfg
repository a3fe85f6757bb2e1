SPECIFICATION FairSpec
CONSTANTS
  MQTT_PUBLISH_QUEUE_CAPACITY = 2
  ClientCapacity = 2
  MaxOnline = 3
  MaxEvents = 4
  MaxTicks = 1
  MaxSessions = 2
INVARIANTS
  InOrder
  PublishesWhenAcked
  DepthCovers
PROPERTIES
  EventsHandled
CHECK_DEADLOCK FALSE
