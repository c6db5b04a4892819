------------------------------ MODULE MC_Kernel ------------------------------
(***************************************************************************)
(* Instantiates the kernel for TLC: a daemon and two VM slots over a heap *)
(* of a few cells, each .cfg choosing the inputs that matter to its run,  *)
(* and the heap's first-fit scan against its reference definition.       *)
(***************************************************************************)
EXTENDS Kernel

CONSTANTS root, sub

\* The first-fit scan of Kernel_malloc and Kernel_loadTask, on the bitmap of
\* every reachable heap and every request size from -1 to beyond the heap,
\* returns exactly the lowest start of size free cells inside the heap, and
\* -1 when there is none or size is not positive.
FirstFitIsLowestFreeRun ==
    \A n \in -1..(HeapSize + 1) : FirstFit(used, n) = RefFirstFit(used, n)
=============================================================================
