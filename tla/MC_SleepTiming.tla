--------------------------- MODULE MC_SleepTiming ---------------------------
EXTENDS SleepTiming
=============================================================================
