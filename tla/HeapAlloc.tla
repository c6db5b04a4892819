----------------------------- MODULE HeapAlloc -----------------------------
(***************************************************************************)
(* The shared heap's occupancy bitmap and the first-fit scan that          *)
(* Kernel_malloc (src/src/Kernel.cpp) and Kernel_loadTask use to find a    *)
(* run of free cells.  The bitmap heap_bitmap is modelled as the set of    *)
(* occupied cell indices; is_allocated(i) is i \in used.                   *)
(***************************************************************************)
EXTENDS Integers, FiniteSets

CONSTANT HeapSize            \* GLOBAL_HEAP_SIZE (1024 cells in OSConfig.h)

Cells == 0..(HeapSize - 1)

\* The cells [b, b+n) of a block that starts at b and has n cells.
CellRange(b, n) == {c \in Cells : b <= c /\ c < b + n}

(***************************************************************************)
(* The scan loop, cell by cell: run counts consecutive free cells, start   *)
(* is set when a run begins, the scan stops when run reaches size.  It     *)
(* never succeeds for size <= 0 because run is at least 1 when compared.   *)
(***************************************************************************)
\* Faulty variants of the scan: a loop bound one short, and a used cell
\* that does not reset consecutive_free.
RECURSIVE ScanShort(_, _, _, _, _)
ScanShort(used, size, i, run, start) ==
    IF i >= HeapSize - 1 THEN -1
    ELSE IF i \in used THEN ScanShort(used, size, i + 1, 0, start)
    ELSE LET st == IF run = 0 THEN i ELSE start
         IN  IF run + 1 = size THEN st
             ELSE ScanShort(used, size, i + 1, run + 1, st)

RECURSIVE ScanNoReset(_, _, _, _, _)
ScanNoReset(used, size, i, run, start) ==
    IF i >= HeapSize THEN -1
    ELSE IF i \in used THEN ScanNoReset(used, size, i + 1, run, start)
    ELSE LET st == IF run = 0 THEN i ELSE start
         IN  IF run + 1 = size THEN st
             ELSE ScanNoReset(used, size, i + 1, run + 1, st)

RECURSIVE Scan(_, _, _, _, _)
Scan(used, size, i, run, start) ==
    IF i >= HeapSize THEN -1
    ELSE IF i \in used THEN Scan(used, size, i + 1, 0, start)
    ELSE LET st == IF run = 0 THEN i ELSE start
         IN  IF run + 1 = size THEN st
             ELSE Scan(used, size, i + 1, run + 1, st)

FirstFit(used, size) == Scan(used, size, 0, 0, -1)

\* set_allocated(start_index + k, true) for k in 0..size-1
MarkUsed(used, b, n) == used \cup CellRange(b, n)

(***************************************************************************)
(* What first fit means: the lowest start of n free cells inside the heap, *)
(* or -1 when there is none.                                               *)
(***************************************************************************)
FreeRuns(used, n) ==
    {s \in Cells : s + n <= HeapSize /\ CellRange(s, n) \cap used = {}}

RefFirstFit(used, n) ==
    IF n >= 1 /\ FreeRuns(used, n) # {}
    THEN CHOOSE s \in FreeRuns(used, n) : \A t \in FreeRuns(used, n) : s <= t
    ELSE -1
=============================================================================
