\* A 6-bit system_ticks of three 2-bit bytes, starting anywhere in its
\* range, so that loads see carries into each byte and sums wrap.
CONSTANTS
    ByteBits = 2
    Bytes = 3
    SleepArgs = {0, 1, 5, 20}
SPECIFICATION Spec
PROPERTY SleepNotCutShort
CHECK_DEADLOCK FALSE
