CONSTANTS
    Units = 8
    WordBits = 8
    UintBits = 4
    MAXCHUNKS = 3
    Sizes = {1, 5, 64}
    Aligns = {1, 8}
    Flags = {"private"}
    Shrink = FALSE
    MaxLive = 3
    MaxCalls = 6
    MaxFail = 1
    Jobs <- AllJobs
    Word = 90
    SecUnits = 4
    InlUnits = 2
    PtrsInline = 2
    PtrsSector = 4
    DirEnts = 3
    PATHSTACKSIZE = 8
    NStrings = 3
    TXT_LAST = 1
    ErrLen = 1
    TXT_LIBCSIZE = 8
    DecRoom = 6
    MsgWidth = 4
    PanicWidth = 8
    HdrSize = 6
    DrvRoom = 4
SPECIFICATION Spec
CHECK_DEADLOCK FALSE
INVARIANTS NoOverlap HeldIsMapped AllReturned
INVARIANTS LibcRight DisksRight FilesFound PrintedRight ClockRight
