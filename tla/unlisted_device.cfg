SPECIFICATION Spec
CONSTANTS
  Links = {l1, l2}
  Devices = {d1}
  MaxConnections = 2
  MaySwitchDevice = FALSE
  None = None
INVARIANTS
  RegisteredIsListed
SYMMETRY Symmetry
CHECK_DEADLOCK FALSE
