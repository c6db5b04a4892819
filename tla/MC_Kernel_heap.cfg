\* Three tasks over a 3-cell heap, one allocation each, one sleep of one
\* tick: the heap invariant, the wake-up of a sleeper, and the
\* refinement of the abstract task lifecycle.
CONSTANTS
    root = root
    sub = sub
    TaskCount = 3
    HeapSize = 3
    CommHeapSize = 1
    MaxAllocations = 1
    StackSize = 2
    SegSizes = {1, 2}
    MallocSizes = {1}
    Addrs = {3}
    TickMod = 2
    SleepDurations = {1}
    Dirs = {root}
    Root = root
    ReopenCanFail = FALSE
    TickWrap = FALSE
SPECIFICATION Spec
INVARIANTS
    TypeOK
    HeapAccounting
PROPERTIES
    SleeperWakes
    ImplementsLifecycle
