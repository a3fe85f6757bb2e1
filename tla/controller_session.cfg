SPECIFICATION MCSpec
CONSTANTS
  Calls = {c1, c2, c3}
  Seqs = {q1, q2}
  ChannelCapacity = 1
  Tasks = {}
  Controllers = {"c1", "c2"}
  Devices = {"d1", "d2", "d3"}
  None = None
  Messages <- MCMessages
  controller_tokens <- MCTokens
  device_by_id <- MCDevices
  method_whitelist = {"m1"}
INVARIANTS
  OwnSequence
  NoLeakedEntry
  WaiterIsKnown
  ClosedMeansClosed
PROPERTIES
  CallsReturn
CHECK_DEADLOCK FALSE
