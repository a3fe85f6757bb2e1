SPECIFICATION Spec
CONSTANTS
  Tasks = {a1, a2}
  Controllers = {"c1", "c2"}
  Devices = {"d1", "d2", "d3"}
  None = None
  Messages <- MCMessages
  controller_tokens <- MCTokens
  device_by_id <- MCDevices
  method_whitelist = {"m1"}
INVARIANTS
  ServedIsAuthorised
  ConnectionsCounted
  ListedIsReachable
PROPERTIES
  RevokedIsRefused
CHECK_DEADLOCK FALSE
