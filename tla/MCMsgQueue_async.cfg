CONSTANTS
  Client = {c1}
  Server = {s1}
  Answer <- BySerial
  Async = {c1}
  Notified = {c1}
  Core = Core
  None = None
  MQ_MAX = 7
  PageSlots = 8
  USHRT_MAX = 20
  MaxPending = 2
  MaxSent = 9
SPECIFICATION Spec
INVARIANTS NothingLost AnswerMatches
PROPERTY InOrder
CHECK_DEADLOCK FALSE
