CONSTANTS
  CPU = {c1, c2}
  Task = {t1}
  None = None
  SlotPages = 2
  MaxPages = 2
  MaxCalls = 4
  WordSize = 64
  BootMap <- TwoAreas
  BootTotal = 7
SPECIFICATION FairSpec
INVARIANTS TypeOK NoDoubleUse Coalesced ScanStillValid
PROPERTY LockReleased
CHECK_DEADLOCK FALSE
