SPECIFICATION Spec
CONSTANTS
  Requests = {r1, r2}
  Links = {l1, l2}
  Devices = {d1}
  Seqs = {q1}
  ChannelCapacity = 1
  CacheMayExpire = TRUE
  None = None
INVARIANTS
  NoLostWaiter
  EntryHasTimer
SYMMETRY Symmetry
CHECK_DEADLOCK FALSE
