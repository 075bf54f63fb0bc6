CONSTANTS
  b = b
  ap = ap
  kbd = kbd
  disk = disk
  nodev = nodev
  Core = {b, ap}
  BSP = b
  Late = {}
  Driver = {kbd, disk, nodev}
  CoreOf <- OnTwo
  Calls <- Separate
  Later = {nodev}
  Task <- Both
  GroupName <- Names
  Line = {1, 2, 8}
  clock_irq = 8
  USHRT_MAX = 99
  clock_freq = 3
  Million = 4
  Sixty = 3
  StartTime = 5
  Word = 1000
  Zone = {0, 1}
  MaxTicks = 3
  MaxEvents = 2
SPECIFICATION FairSpec
INVARIANTS NothingMissed OpenWhenReady
PROPERTIES Booted Served
CHECK_DEADLOCK FALSE
