SPECIFICATION SSpec
CONSTANTS
    ta = ta  tb = tb  tu = tu  Free = Free
    Pid = {ta, tb, tu}  Driver = {}  UI = tu
    Hash <- MCHash  Tree <- MCTree  Loads <- MCLoads
    MaxFcb = 9  MaxPipe = 4  MaxLinks = 3  MaxBytes = 4  MaxNopen = 9
INVARIANTS DescriptorKeepsFile NopenCoversRefs PipeInOrder NoSleepOnData StreamsOpen
CHECK_DEADLOCK FALSE
