----------------------------- MODULE SleepTiming -----------------------------
(***************************************************************************)
(* One task's OP_SLEEP and the scheduler's wake test against the timer     *)
(* interrupt.  system_ticks is a volatile unsigned long that the ISR       *)
(* increments; on the 8-bit AVR the main program reads it one byte at a    *)
(* time, low byte first, with interrupts enabled, so an increment that     *)
(* carries into the next byte can fall between the two loads.  The counter *)
(* is scaled down to Bytes bytes of ByteBits bits; the ISR fires at most    *)
(* once during one load of the counter (a millisecond against a few        *)
(* cycles).                                                                *)
(*                                                                         *)
(* OP_SLEEP stores the popped int in wake_up_time (sign-extended) and      *)
(* Kernel_yield adds system_ticks; the scheduler skips the task while      *)
(* wake_up_time > 0 and system_ticks < wake_up_time, and otherwise clears  *)
(* wake_up_time and runs it.  elapsed counts the interrupts since the       *)
(* OP_SLEEP step; it is not in the code and saturates at the counter's      *)
(* modulus.                                                                *)
(***************************************************************************)
EXTENDS Integers

CONSTANTS ByteBits,     \* bits per byte of the scaled counter
          Bytes,        \* bytes of system_ticks
          SleepArgs     \* durations a program passes to OP_SLEEP

VARIABLES ticks,        \* system_ticks
          wake,         \* wake_up_time
          task,         \* "run", "yield" or "check" (loading the counter), "asleep"
          reg,          \* the value assembled from the bytes loaded so far
          k,            \* how many bytes of system_ticks are loaded
          ticked,       \* the ISR fired between two of those loads
          asked,        \* the duration of the last OP_SLEEP
          elapsed       \* interrupts since that OP_SLEEP

vars == <<ticks, wake, task, reg, k, ticked, asked, elapsed>>

Radix == 2 ^ ByteBits
Modulus == 2 ^ (ByteBits * Bytes)
\* A value assigned to the unsigned counter type wraps modulo its size.
Unsigned(x) == x % Modulus
\* Byte j of x, as a value in place.
ByteOf(x, j) == ((x \div (Radix ^ j)) % Radix) * Radix ^ j
Loading == task \in {"yield", "check"}
BetweenLoads == Loading /\ 0 < k /\ k < Bytes

\* OP_SLEEP: pop ms, wake_up_time = ms; Kernel_yield starts loading
\* system_ticks.
Sleep(ms) ==
    /\ task = "run"
    /\ task' = "yield"
    /\ wake' = Unsigned(ms)
    /\ reg' = 0 /\ k' = 0 /\ ticked' = FALSE
    /\ asked' = ms /\ elapsed' = 0
    /\ UNCHANGED ticks

\* One load of the next byte of system_ticks, lowest first.
LoadByte ==
    /\ Loading /\ k < Bytes
    /\ reg' = reg + ByteOf(ticks, k)
    /\ k' = k + 1
    /\ UNCHANGED <<ticks, wake, task, ticked, asked, elapsed>>

\* Kernel_yield: wake_up_time = system_ticks + wake_up_time.
Yield ==
    /\ task = "yield" /\ k = Bytes
    /\ task' = "asleep"
    /\ wake' = Unsigned(reg + wake)
    /\ UNCHANGED <<ticks, reg, k, ticked, asked, elapsed>>

\* Kernel_runScheduler's turn for the task: a task with wake_up_time = 0
\* runs; otherwise the scheduler starts loading system_ticks.
CheckLoad ==
    /\ task = "asleep"
    /\ IF wake = 0
       THEN task' = "run" /\ UNCHANGED <<reg, k, ticked>>
       ELSE task' = "check" /\ reg' = 0 /\ k' = 0 /\ ticked' = FALSE
    /\ UNCHANGED <<ticks, wake, asked, elapsed>>

\* The comparison system_ticks < wake_up_time on the loaded value.
CheckCompare ==
    /\ task = "check" /\ k = Bytes
    /\ IF reg < wake
       THEN task' = "asleep" /\ UNCHANGED wake
       ELSE task' = "run" /\ wake' = 0
    /\ UNCHANGED <<ticks, reg, k, ticked, asked, elapsed>>

\* ISR(TIMER1_COMPA_vect): system_ticks++.
Tick ==
    /\ BetweenLoads => ~ticked
    /\ ticks' = Unsigned(ticks + 1)
    /\ ticked' = (ticked \/ BetweenLoads)
    /\ elapsed' = IF elapsed < Modulus THEN elapsed + 1 ELSE elapsed
    /\ UNCHANGED <<wake, task, reg, k, asked>>

Init ==
    /\ ticks \in 0..(Modulus - 1)
    /\ wake = 0 /\ task = "run" /\ reg = 0 /\ k = 0 /\ ticked = FALSE
    /\ asked = 0 /\ elapsed = 0

Next ==
    \/ \E ms \in SleepArgs : Sleep(ms)
    \/ LoadByte \/ Yield \/ CheckLoad \/ CheckCompare \/ Tick

Spec == Init /\ [][Next]_vars

-----------------------------------------------------------------------------
\* The step in which the scheduler lets the sleeping task run again.
Resumes == task \in {"asleep", "check"} /\ task' = "run"

\* A task that sleeps ms >= 0 is not run again before ms interrupts have
\* passed (OP_SLEEP, Kernel_yield and the scheduler's wake test; spec: the
\* task is resumed once the tick counter reaches current tick + duration).
SleepNotCutShort ==
    [][Resumes /\ asked >= 0 => elapsed >= asked]_vars

=============================================================================
