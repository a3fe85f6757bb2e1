SPECIFICATION MCSpec
CONSTANTS
  Callers = {i1, i2}
  Devices = {d1}
  Controllers = {c1}
  global_rate = 4
  device_rate = 2
  controller_rate = 3
  TokenUnits = 4
  TicksPerSecond = 2
  CLEANUP_EVERY = 2
  bucket_ttl = 6
  MaxTime = 8
  Handlers = {h1, h2}
  ByteKeys <- MCKeys
  limit <- MCLimit
  KeysOf <- MCKeysOf
  Sizes = {0, 1}
  MaxCount = 2
  MaxBack = 1
  MaxLeaps = 1
  None = None
INVARIANTS
  RateHeld
  BandwidthHeld
  RefusalJustified
SYMMETRY Symmetry
CHECK_DEADLOCK FALSE
