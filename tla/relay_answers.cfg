SPECIFICATION FairSpec
CONSTANTS
  Requests = {r1, r2}
  Links = {l1}
  Devices = {d1}
  Seqs = {q1, q2}
  ChannelCapacity = 1
  CacheMayExpire = TRUE
  None = None
INVARIANTS
  AnswerMatchesRequest
PROPERTIES
  HandlersFinish
  ImplementsService
CHECK_DEADLOCK FALSE
