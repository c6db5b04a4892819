---------------------------- MODULE TaskLifecycle ----------------------------
(***************************************************************************)
(* What the kernel promises about tasks and the heap (spec sections 3, 4.2 *)
(* and 5), without scheduling, stacks or code: a task is free, running, or *)
(* waiting on one child; heap cells belong to at most one task; a running  *)
(* task may create a child in a free slot from free cells (and wait on     *)
(* it), acquire more free cells, or end, which returns all its cells to    *)
(* the pool and resumes every task waiting on it.                          *)
(***************************************************************************)
EXTENDS FiniteSets

CONSTANTS TaskIds, HeapCells, Daemon

VARIABLES status, owned

Free == [tag |-> "free"]
Running == [tag |-> "running"]
WaitingOn(c) == [tag |-> "waiting", on |-> c]

FreeCells == HeapCells \ UNION {owned[i] : i \in TaskIds}

Init ==
    /\ status = [i \in TaskIds |-> IF i = Daemon THEN Running ELSE Free]
    /\ owned \in {[i \in TaskIds |-> IF i = Daemon THEN d ELSE {}] :
                     d \in SUBSET HeapCells}

\* Running task p loads child c into a free slot with fresh cells, and
\* waits on it or not.
Create(p, c, cells, wait) ==
    /\ status[p] = Running /\ status[c] = Free /\ p # c
    /\ owned' = [owned EXCEPT ![c] = cells]
    /\ status' = [status EXCEPT ![c] = Running,
                                ![p] = IF wait THEN WaitingOn(c) ELSE Running]

\* Running task i takes more free cells.
Acquire(i, cells) ==
    /\ status[i] = Running
    /\ owned' = [owned EXCEPT ![i] = @ \cup cells]
    /\ UNCHANGED status

\* Running task i ends: its cells return to the pool and its waiters resume.
End(i) ==
    /\ status[i] = Running
    /\ owned' = [owned EXCEPT ![i] = {}]
    /\ status' = [j \in TaskIds |-> IF j = i THEN Free
                                    ELSE IF status[j] = WaitingOn(i) THEN Running
                                    ELSE status[j]]

\* The non-empty sets of free cells a task may be given.
Grants == (SUBSET FreeCells) \ {{}}

Next ==
    \/ \E p, c \in TaskIds, cells \in Grants, w \in BOOLEAN : Create(p, c, cells, w)
    \/ \E i \in TaskIds, cells \in Grants : Acquire(i, cells)
    \/ \E i \in TaskIds : End(i)

Spec == Init /\ [][Next]_<<status, owned>>
=============================================================================
