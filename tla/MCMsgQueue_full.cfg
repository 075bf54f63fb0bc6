CONSTANTS
  Client = {c1, c2, c3}
  Server = {s1}
  Answer <- BySerial
  Async = {}
  Notified = {s1}
  Core = Core
  None = None
  MQ_MAX = 4
  PageSlots = 8
  USHRT_MAX = 3
  MaxPending = 3
  MaxSent = 7
SPECIFICATION Spec
SYMMETRY Symmetry
INVARIANTS SendersChained NoSleepOnMessage
CHECK_DEADLOCK FALSE
