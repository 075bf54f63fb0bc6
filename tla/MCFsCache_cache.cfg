SPECIFICATION Spec
CONSTANTS
    NDev = 7  Disk = {4, 6}  MaxLsn = 1  cachelines = 2  MaxVal = 2  MaxUse = 3  MaxFlush = 2
INVARIANTS OneCopy FlushOrder
 
CHECK_DEADLOCK FALSE
