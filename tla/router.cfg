SPECIFICATION Spec
CONSTANTS
  Streams = {s1, s2, s3}
  Devices = {d1, d2}
  Controllers = {o1}
  Teardowns = {t1, t2}
  Cleanup = Cleanup
  max_active_streams = 1
  max_concurrent_streams_per_controller = 2
  None = None
INVARIANTS
  NoLeakedStream
  IdleStreamTold
  ControllerCap
  DeviceEntryCap
SYMMETRY Symmetry
CHECK_DEADLOCK FALSE
