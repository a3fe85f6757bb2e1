SPECIFICATION FairSpec
CONSTANTS
  Requests = {q1, q2, q3}
  initial_seconds = 1
  max_seconds = 2
  heartbeat_interval = 1
  heartbeat_timeout = 2
  device_limit = 1
  device_window = 2
  global_limit = 1
  global_window = 1
  MAX_CONCURRENT_DATA_HANDLERS = 1
  DeviceCapacity = 1
  RelayCapacity = 1
  MaxAttempts = 1
  MaxMissed = 1
  None = None
INVARIANTS
  OneAnswer
  RegistrationsLimited
  HeardInTime
PROPERTIES
  Recovers
  RequestsAnswered
