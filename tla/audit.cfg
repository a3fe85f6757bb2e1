SPECIFICATION Spec
CONSTANTS
  EventTypes = {"auth_failure", "error"}
  enabled_events = {"error"}
  ChannelCapacity = 2
  max_size = 2
  max_backups = 3
  MaxLine = 2
  MaxBytes = 10
  MaxDropped = 1
  MaxCrashes = 2
  None = None
INVARIANTS
  NoGapInLog
  BackupsKept
  FilesBounded
CHECK_DEADLOCK FALSE
