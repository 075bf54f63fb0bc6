CONSTANTS
  Client = {c1, c2}
  Server = {s1}
  Answer <- BySerial
  Async = {}
  Notified = {s1}
  Core = Core
  None = None
  MQ_MAX = 5
  PageSlots = 8
  USHRT_MAX = 2
  MaxPending = 3
  MaxSent = 7
SPECIFICATION FairSpec
INVARIANTS MessageStable
PROPERTY CallAnswered
CHECK_DEADLOCK FALSE
