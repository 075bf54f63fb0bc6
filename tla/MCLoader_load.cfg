SPECIFICATION Spec
CONSTANTS
    Slot = 2  Giga = 8  TEXT = 4  DYN = 16  BUF = 24
    NumCores = 2
    Tid <- MCTid
    FrameSets <- MCFrames
    Files <- MCFiles
    Names <- MCNames
    Dispatcher = "driver"
    Displays = {"fb"}
    FsFile = "fs"
    FsDrivers <- MCFsDrivers
    DevSize = 1
    DrvMem <- MCDrvMem
    MapRanges <- MCMap
    FreeRanges <- MCFree
    FaultPages <- MCFault
    MaxSteps = 7
INVARIANTS
    NoDangling
    FramesOnce
    Accounts
    RefsExact
CHECK_DEADLOCK FALSE
