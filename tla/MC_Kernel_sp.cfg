CONSTANTS
    root = root
    sub = sub
    TaskCount = 3
    HeapSize = 4
    CommHeapSize = 1
    MaxAllocations = 1
    StackSize = 2
    SegSizes = {1, 2}
    MallocSizes = {0, 1}
    Addrs = {0, 4}
    TickMod = 1
    SleepDurations = {0}
    Dirs = {root}
    Root = root
    ReopenCanFail = FALSE
    TickWrap = FALSE
SPECIFICATION Spec
INVARIANT SpInRange
