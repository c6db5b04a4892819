\* The target's numbers: a 1024-cell heap, task 0's 128-cell segment at 0
\* (Kernel_init's first malloc), 2-byte ints.
CONSTANTS
    HeapSize = 1024
    HeapBase = 0
    HeapLimit = 128
    IntBytes = 2
    Payloads <- MCPayloads
    Cmds = {1, 2, 3, 4}
SPECIFICATION Spec
INVARIANT WritesStayInSegment
CHECK_DEADLOCK FALSE
