---------------------------- MODULE CommHeapWrite ----------------------------
(***************************************************************************)
(* The cells of the shared heap that task 0's Comm_process writes when it *)
(* stages a system-call packet's payload for the system call: the         *)
(* Comm_copyToHeap copy at virtual address 1, and for SYS_EXEC the split  *)
(* of "<wait> <cmd> <arg>" into a command at 1 and an argument at 64.     *)
(* A payload is abstracted to its length and the offsets of its first two *)
(* spaces (-1: none), which are all that decide the cells written; the    *)
(* bytes themselves are left out.  Each heap cell holds one byte value.   *)
(***************************************************************************)
EXTENDS Integers

CONSTANTS HeapSize,     \* GLOBAL_HEAP_SIZE, in cells
          HeapBase,     \* task 0's heap_base (its segment is Kernel_init's first malloc)
          HeapLimit,    \* task 0's heap_limit
          IntBytes,     \* sizeof(int) on the target
          Payloads,     \* [len, s1, s2]: payload length and its first two space offsets
          Cmds          \* system-call ids the host sends

VARIABLE written        \* the cells written while handling the last packet

vars == <<written>>

SYS_LS == 1
SYS_EXEC == 2
SYS_CHDIR == 3
SYS_GETCWD == 4

\* A loop writing n cells from phys_base, stopping at the end of the heap,
\* and the terminator written after them if it is still inside the heap.
Run(phys, n) == {c \in phys .. (phys + n - 1) : c < HeapSize}
Terminated(phys, n) == Run(phys, n) \cup ({phys + n} \cap 0..(HeapSize - 1))

\* Comm_copyToHeap: the length is capped by the segment's size in bytes.
CopyLen(len) == IF len >= HeapLimit * IntBytes - 1 THEN HeapLimit * IntBytes - 2 ELSE len
CopyToHeap(len) == Terminated(HeapBase + 1, CopyLen(len))

\* Comm_process's common step for a syscall packet: copy a non-empty
\* payload, or clear cell 1.
Staged(p) == IF p.len > 0 THEN CopyToHeap(p.len) ELSE {HeapBase + 1}

\* The SYS_EXEC split: with a first space, the command up to the second
\* space (or the end) goes to 1 and the rest after the second space to 64;
\* without one, the whole payload is copied again by Comm_copyToHeap.
ExecSplit(p) ==
    IF p.s1 = -1 THEN CopyToHeap(p.len)
    ELSE LET cmdLen == IF p.s2 = -1 THEN p.len - (p.s1 + 1) ELSE p.s2 - (p.s1 + 1)
             argLen == IF p.s2 = -1 THEN 0 ELSE p.len - (p.s2 + 1)
         IN  (IF cmdLen > 0 THEN Terminated(HeapBase + 1, cmdLen) ELSE {})
             \cup (IF argLen > 0 THEN Terminated(HeapBase + 64, argLen) ELSE {})

\* Comm_process for one syscall packet (the system call it then makes is
\* not part of this module).
Handle(c, p) ==
    written' = Staged(p) \cup (IF c = SYS_EXEC THEN ExecSplit(p) ELSE {})

Init == written = {}

Next == \E c \in Cmds, p \in Payloads : Handle(c, p)

Spec == Init /\ [][Next]_vars

-----------------------------------------------------------------------------
\* Task 0 stages a system call's arguments inside its own heap segment
\* (Comm_copyToHeap's length cap, the exec split's copies to 1 and 64), so
\* a packet never overwrites the segment of another task.
WritesStayInSegment == written \subseteq HeapBase .. (HeapBase + HeapLimit - 1)
=============================================================================
