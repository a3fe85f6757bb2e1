SPECIFICATION Spec
CONSTANTS
  Links = {l1, l2, l3}
  Devices = {d1, d2}
  MaxConnections = 3
  MaySwitchDevice = FALSE
  None = None
INVARIANTS
  SessionConnectionKnown
  NoGhostSession
  OfflineIsFinal
SYMMETRY Symmetry
CHECK_DEADLOCK FALSE
