------------------------------- MODULE Kernel -------------------------------
(***************************************************************************)
(* The ArduOS kernel: the task table (src/src/Task.h), the shared heap and *)
(* its bitmap, the round-robin scheduler, one VM step per opcode class     *)
(* (src/src/VirtualMachine.cpp), the syscalls ls/exec/chdir/getcwd         *)
(* (src/src/syscall/*.h) and the communication daemon that issues them on  *)
(* behalf of the host (src/src/Communication.cpp).                         *)
(*                                                                         *)
(* Data is abstracted: operand values are not stored, only the stack       *)
(* pointer; a value a step pops is chosen from a small set, since a        *)
(* program can push any 16-bit immediate.  The code stream is abstracted   *)
(* to whether the task's file is open; whether a fetch finds the stream    *)
(* exhausted is a nondeterministic choice (the program's length is         *)
(* arbitrary).  Storage results (file found, header valid, directory       *)
(* exists, reopen succeeds) are nondeterministic too.                      *)
(***************************************************************************)
EXTENDS HeapAlloc, FiniteSetsExt

CONSTANTS
    TaskCount,        \* TASK_COUNT; task 0 is the communication daemon
    CommHeapSize,     \* the 128 cells Kernel_init allocates for task 0
    MaxAllocations,   \* MAX_ALLOCATIONS (Task.h)
    StackSize,        \* VM_STACK_SIZE
    SegSizes,         \* segment sizes an executable header may request
    MallocSizes,      \* sizes a program may pass to OP_MALLOC
    Addrs,            \* addresses a program may pass to OP_LOAD/OP_STORE
    TickMod,          \* system_ticks wraps modulo this (2^32 on the target)
    SleepDurations,   \* durations a program may pass to OP_SLEEP
    Dirs,             \* directories a task's cwd may name
    Root,             \* "/", the cwd Kernel_init gives every task
    ReopenCanFail,    \* whether sd.open of the task's own file can fail in ls
    TickWrap          \* whether system_ticks may wrap within a behaviour

FREE == -2            \* TASK_FREE
RUNNING == -1         \* TASK_RUNNING; a value >= 0 is PAUSED on that child id

Tasks == 0..(TaskCount - 1)
VMTasks == 1..(TaskCount - 1)
Slots == 0..(MaxAllocations - 1)
NoEntry == [ptr |-> -1, size |-> 0]

VARIABLES
    state,      \* task_state of each task
    sp,         \* sp of each task
    heapBase,   \* heap_base: start of the task's segment, -1 if none
    heapLimit,  \* heap_limit: size of the segment, 0 if none
    alloc,      \* alloc_table: MaxAllocations entries [ptr, size]
    fileOpen,   \* whether the task's code file is open
    wake,       \* wake_up_time, 0 when the task is not sleeping
    cwd,        \* cwd
    used,       \* heap_bitmap, as the set of occupied cells
    cur,        \* the index of the scheduler's for-loop
    ticks       \* system_ticks, advanced by the timer ISR

memVars == <<used, heapBase, heapLimit, alloc>>
vars == <<state, sp, heapBase, heapLimit, alloc, fileOpen, wake, cwd, used,
          cur, ticks>>

\* Task::isRunnable and Task::getWaitingFor.
isRunnable(i) == state[i] = RUNNING
getWaitingFor(i) == IF state[i] >= 0 THEN state[i] ELSE -1

(***************************************************************************)
(* Kernel_malloc(t, size) on table a and bitmap u: the result address (-1 *)
(* on failure), the new bitmap and the new table.  The free run is found  *)
(* first; a full table is only discovered once a run exists.              *)
(***************************************************************************)
Malloc(a, u, size) ==
    LET s == FirstFit(u, size)
        free == {k \in Slots : a[k].ptr = -1}
    IN  IF size <= 0 \/ s = -1 \/ free = {}
        THEN [addr |-> -1, used |-> u, tab |-> a]
        ELSE [addr |-> s, used |-> MarkUsed(u, s, size),
              tab |-> [a EXCEPT ![Min(free)] = [ptr |-> s, size |-> size]]]

\* Kernel_getPhysAddr: offsets below heap_limit are segment-relative,
\* anything else is taken to be an absolute heap address.
PhysAddr(i, v) == IF v >= 0 /\ v < heapLimit[i] THEN heapBase[i] + v ELSE v

InHeap(p) == p >= 0 /\ p < HeapSize

\* The cells a task's bookkeeping holds: its alloc_table entries and its
\* segment, each as a set of cells.
AllocBlocks(i) ==
    {CellRange(alloc[i][k].ptr, alloc[i][k].size) :
        k \in {k2 \in Slots : alloc[i][k2].ptr # -1}}
SegBlock(i) ==
    IF heapBase[i] # -1 THEN {CellRange(heapBase[i], heapLimit[i])} ELSE {}
Blocks(i) == AllocBlocks(i) \cup SegBlock(i)

\* Kernel_free(t, ptr) on table row and bitmap u: the first entry holding
\* ptr has its cells cleared (set_allocated false) and its ptr set to -1;
\* with no such entry nothing changes.
KernelFree(row, u, ptr) ==
    LET m == {k \in Slots : row[k].ptr = ptr}
    IN  IF m = {} THEN [tab |-> row, used |-> u]
        ELSE [tab |-> [row EXCEPT ![Min(m)].ptr = -1],
              used |-> u \ CellRange(ptr, row[Min(m)].size)]

\* Kernel_terminateTask's first loop: Kernel_free(t, ptr) for every entry
\* in use, from slot k on.
RECURSIVE FreeEntries(_, _, _)
FreeEntries(row, u, k) ==
    IF k >= MaxAllocations THEN [tab |-> row, used |-> u]
    ELSE IF row[k].ptr = -1 THEN FreeEntries(row, u, k + 1)
    ELSE LET r == KernelFree(row, u, row[k].ptr)
         IN  FreeEntries(r.tab, r.used, k + 1)

(***************************************************************************)
(* Kernel_init: every task free with an empty table and cwd "/", then     *)
(* task 0 made running with a CommHeapSize segment obtained through       *)
(* Kernel_malloc, so that block is recorded both in task 0's alloc_table  *)
(* and as its heap_base/heap_limit.                                        *)
(***************************************************************************)
Init ==
    LET m == Malloc([k \in Slots |-> NoEntry], {}, CommHeapSize)
    IN  /\ used = m.used
        /\ state = [i \in Tasks |-> IF i = 0 THEN RUNNING ELSE FREE]
        /\ sp = [i \in Tasks |-> -1]
        /\ wake = [i \in Tasks |-> 0]
        /\ heapBase = [i \in Tasks |-> IF i = 0 /\ m.addr # -1 THEN m.addr ELSE -1]
        /\ heapLimit = [i \in Tasks |-> IF i = 0 /\ m.addr # -1 THEN CommHeapSize ELSE 0]
        /\ alloc = [i \in Tasks |-> IF i = 0 THEN m.tab ELSE [k \in Slots |-> NoEntry]]
        /\ cwd = [i \in Tasks |-> Root]
        /\ fileOpen = [i \in Tasks |-> FALSE]
        /\ cur = 0
        /\ ticks = 0

\* Faulty variants of Kernel_terminateTask: one that does not release the
\* segment, one that does not wake the tasks paused on i.
TerminateKeepSegment(i) ==
    /\ used' = used \ UNION AllocBlocks(i)
    /\ alloc' = [alloc EXCEPT ![i] = [k \in Slots |-> [@[k] EXCEPT !.ptr = -1]]]
    /\ UNCHANGED <<heapBase, heapLimit>>
    /\ state' = [j \in Tasks |-> IF j = i THEN FREE
                                 ELSE IF getWaitingFor(j) = i THEN RUNNING
                                 ELSE state[j]]
    /\ fileOpen' = [fileOpen EXCEPT ![i] = FALSE]

TerminateNoWake(i) ==
    /\ used' = used \ UNION Blocks(i)
    /\ alloc' = [alloc EXCEPT ![i] = [k \in Slots |-> [@[k] EXCEPT !.ptr = -1]]]
    /\ heapBase' = [heapBase EXCEPT ![i] = -1]
    /\ heapLimit' = [heapLimit EXCEPT ![i] = IF heapBase[i] # -1 THEN 0 ELSE @]
    /\ state' = [state EXCEPT ![i] = FREE]
    /\ fileOpen' = [fileOpen EXCEPT ![i] = FALSE]

(***************************************************************************)
(* Kernel_terminateTask(i): free every alloc_table entry, free the        *)
(* segment, wake every task paused on i, mark i free, close its file.     *)
(* It leaves sp, wake_up_time and cwd as they are.                        *)
(***************************************************************************)
Terminate(i) ==
    LET f == FreeEntries(alloc[i], used, 0)
    IN  /\ used' = f.used \ UNION SegBlock(i)
        /\ alloc' = [alloc EXCEPT ![i] = f.tab]
        /\ heapBase' = [heapBase EXCEPT ![i] = -1]
        /\ heapLimit' = [heapLimit EXCEPT ![i] = IF heapBase[i] # -1 THEN 0 ELSE @]
        /\ state' = [j \in Tasks |-> IF j = i THEN FREE
                                     ELSE IF getWaitingFor(j) = i THEN RUNNING
                                     ELSE state[j]]
        /\ fileOpen' = [fileOpen EXCEPT ![i] = FALSE]

\* Faulty variant: the scheduler does not clear a reached wake_up_time.
WokenNoReset == wake

\* The scheduler, finding the current task's wake_up_time reached, resets it
\* to 0 before the step; a task that is not sleeping already has 0.
Woken == [wake EXCEPT ![cur] = 0]

(***************************************************************************)
(* Kernel_loadTask(c, name, NULL, pcwd, arg): the slot's cwd is set from  *)
(* the parent before the file is searched for.  Loading fails when no     *)
(* candidate file opens or its 4-byte header is short or has a bad magic  *)
(* (the slot is left free), or when no run of the requested segment size  *)
(* is free (Out of Memory, the slot is left free).  The task's state and  *)
(* sp are set by the caller, which also changes its own.                  *)
(***************************************************************************)
LoadFails(c, pcwd) ==
    /\ \/ TRUE                                        \* not found, bad header
       \/ \E s \in SegSizes : FirstFit(used, s) = -1  \* Out of Memory
    /\ cwd' = [cwd EXCEPT ![c] = pcwd]
    /\ fileOpen' = [fileOpen EXCEPT ![c] = FALSE]
    /\ wake' = Woken
    /\ UNCHANGED memVars

LoadSucceeds(c, pcwd, s) ==
    LET b == FirstFit(used, s)
    IN  /\ b # -1
        /\ used' = MarkUsed(used, b, s)
        /\ heapBase' = [heapBase EXCEPT ![c] = b]
        /\ heapLimit' = [heapLimit EXCEPT ![c] = s]
        /\ cwd' = [cwd EXCEPT ![c] = pcwd]
        /\ fileOpen' = [fileOpen EXCEPT ![c] = TRUE]
        /\ wake' = [Woken EXCEPT ![c] = 0]
        /\ UNCHANGED alloc

(***************************************************************************)
(* The syscalls.  Each is called with spAfter, the caller's sp once the  *)
(* syscall id has been popped, and pops its own arguments without any     *)
(* underflow check.                                                        *)
(***************************************************************************)

\* Faulty variant: the slot search takes any slot that is not running.
SysExecNotRunningSlot(i, spAfter, waitOpt) ==
    LET free == {j \in VMTasks : state[j] # RUNNING}
        c == Min(free)
    IN  \/ /\ free = {}
           /\ sp' = [sp EXCEPT ![i] = spAfter - 3]
           /\ wake' = Woken /\ UNCHANGED <<state, memVars, fileOpen, cwd>>
        \/ /\ free # {}
           /\ LoadFails(c, cwd[i])
           /\ sp' = [sp EXCEPT ![i] = spAfter - 3]
           /\ UNCHANGED state
        \/ /\ free # {}
           /\ \E s \in SegSizes : LoadSucceeds(c, cwd[i], s)
           /\ sp' = [sp EXCEPT ![i] = spAfter - 3, ![c] = -1]
           /\ state' = [state EXCEPT ![c] = RUNNING,
                                     ![i] = IF waitOpt = 1 THEN c ELSE @]

\* Syscall_exec: pop wait option, command and argument; take the lowest free
\* slot from 1 up; load it with the caller's cwd; a caller passing wait
\* option 1 pauses on the child when the load succeeds.
SysExec(i, spAfter, waitOpt) ==
    LET free == {j \in VMTasks : state[j] = FREE}
        c == Min(free)
    IN  \/ /\ free = {}
           /\ sp' = [sp EXCEPT ![i] = spAfter - 3]
           /\ wake' = Woken /\ UNCHANGED <<state, memVars, fileOpen, cwd>>
        \/ /\ free # {}
           /\ LoadFails(c, cwd[i])
           /\ sp' = [sp EXCEPT ![i] = spAfter - 3]
           /\ UNCHANGED state
        \/ /\ free # {}
           /\ \E s \in SegSizes : LoadSucceeds(c, cwd[i], s)
           /\ sp' = [sp EXCEPT ![i] = spAfter - 3, ![c] = -1]
           /\ state' = [state EXCEPT ![c] = RUNNING,
                                     ![i] = IF waitOpt = 1 THEN c ELSE @]

\* Syscall_ls: pop selector, size and buffer.  A task running from a file
\* closes it before opening the directory.  A missing directory writes -1
\* and returns at once; otherwise the listing is written and the file is
\* reopened and sought back, and if that open fails the task is only
\* marked free.
SysLs(i, spAfter) ==
    /\ sp' = [sp EXCEPT ![i] = spAfter - 3]
    /\ \/ /\ fileOpen' = [fileOpen EXCEPT ![i] = FALSE]    \* no such directory
          /\ UNCHANGED state
       \/ /\ UNCHANGED <<state, fileOpen>>                 \* listed, reopened
       \/ /\ ReopenCanFail /\ fileOpen[i]                  \* listed, reopen fails
          /\ fileOpen' = [fileOpen EXCEPT ![i] = FALSE]
          /\ state' = [state EXCEPT ![i] = FREE]
    /\ wake' = Woken /\ UNCHANGED <<memVars, cwd>>

\* Syscall_chdir: pop path and buffer; on success cwd becomes the resolved
\* directory, on failure (or a null path) it is unchanged.  Which directory
\* results is abstracted to any member of Dirs.
SysChdir(i, spAfter) ==
    /\ sp' = [sp EXCEPT ![i] = spAfter - 2]
    /\ \E d \in Dirs : cwd' = [cwd EXCEPT ![i] = d]
    /\ wake' = Woken /\ UNCHANGED <<state, memVars, fileOpen>>

\* Syscall_getcwd: pop the buffer address and copy cwd into the heap.
SysGetcwd(i, spAfter) ==
    /\ sp' = [sp EXCEPT ![i] = spAfter - 1]
    /\ wake' = Woken /\ UNCHANGED <<state, memVars, fileOpen, cwd>>

\* Kernel_systemCall: ids 1..4; any other id is ignored.
SystemCall(i, spAfter) ==
    \/ SysLs(i, spAfter)
    \/ \E w \in {0, 1} : SysExec(i, spAfter, w)
    \/ SysChdir(i, spAfter)
    \/ SysGetcwd(i, spAfter)
    \/ /\ sp' = [sp EXCEPT ![i] = spAfter]
       /\ wake' = Woken /\ UNCHANGED <<state, memVars, fileOpen, cwd>>

(***************************************************************************)
(* Kernel_runScheduler: the for-loop visits tasks in index order; every   *)
(* step below is one iteration for task cur.                              *)
(***************************************************************************)
Turn(i) == cur = i /\ cur' = (cur + 1) % TaskCount

Awake(i) == wake[i] = 0 \/ ticks >= wake[i]

\* A task that is not running, or a VM task whose wake time is not reached,
\* is skipped.
Skip(i) ==
    /\ Turn(i)
    /\ \/ ~isRunnable(i)
       \/ i # 0 /\ ~Awake(i)
    /\ UNCHANGED <<state, sp, memVars, fileOpen, wake, cwd, ticks>>

\* Comm_process for task 0: HAL_readPacket yields no packet, a packet with
\* id >= 100, or a syscall packet; for the latter the daemon resets sp,
\* pushes the syscall's arguments and calls Kernel_systemCall.  ls passes
\* buffer 0, size 128 and a selector; exec passes arg, cmd and a wait option
\* taken from the payload's first character; chdir passes buffer 64 and the
\* path at 1; getcwd passes buffer 0.
CommIdle ==
    /\ Turn(0) /\ isRunnable(0)
    /\ UNCHANGED <<state, sp, memVars, fileOpen, wake, cwd, ticks>>

CommSyscall ==
    /\ Turn(0) /\ isRunnable(0)
    /\ \/ SysLs(0, 2)
       \/ \E w \in {0, 1} : SysExec(0, 2, w)
       \/ SysChdir(0, 1)
       \/ SysGetcwd(0, 0)
    /\ UNCHANGED ticks

(***************************************************************************)
(* VM_runStep for a VM task: one opcode.  Every stack check that fails    *)
(* writes a diagnostic and terminates the task (Fault).  A fetch that     *)
(* finds the buffer spent and the file at its end (or closed) terminates  *)
(* the task inside Kernel_refillBuffer; VM_runStep returns after an       *)
(* opcode fetch that did so, but an immediate operand fetch that did so   *)
(* lets the opcode finish on the terminated task.                         *)
(***************************************************************************)
VMTurn(i) == Turn(i) /\ isRunnable(i) /\ Awake(i) /\ UNCHANGED ticks

Fault(i) == Terminate(i) /\ wake' = Woken /\ UNCHANGED <<sp, cwd>>

SetSp(i, v) == sp' = [sp EXCEPT ![i] = v]

\* The rest of a step that changes nothing but sp.
Plain(i, v) ==
    SetSp(i, v) /\ wake' = Woken /\ UNCHANGED <<state, memVars, fileOpen, cwd>>

\* Faulty variant: CHECK_STACK_OVERFLOW one slot late.
OverflowLate(i) == sp[i] >= StackSize
Overflow(i) == sp[i] >= StackSize - 1
Underflow(i, n) == sp[i] < n - 1

\* The opcode fetch finds the code stream exhausted.
FetchEnd(i) == VMTurn(i) /\ Fault(i)

\* OP_PUSH: overflow check, then a 2-byte immediate.
OpPush(i) ==
    /\ VMTurn(i)
    /\ \/ Overflow(i) /\ Fault(i)
       \/ ~Overflow(i) /\ Plain(i, sp[i] + 1)
       \/ ~Overflow(i) /\ Terminate(i) /\ SetSp(i, sp[i] + 1)
          /\ wake' = Woken /\ UNCHANGED cwd

\* OP_ADD, OP_SUB, OP_EQ: two operands, one result.
OpBinary(i) ==
    /\ VMTurn(i)
    /\ \/ Underflow(i, 2) /\ Fault(i)
       \/ ~Underflow(i, 2) /\ Plain(i, sp[i] - 1)

\* OP_DUP: underflow check, then overflow check.
OpDup(i) ==
    /\ VMTurn(i)
    /\ \/ (Underflow(i, 1) \/ Overflow(i)) /\ Fault(i)
       \/ ~Underflow(i, 1) /\ ~Overflow(i) /\ Plain(i, sp[i] + 1)

\* OP_POP: pop one value.
OpPop(i) ==
    /\ VMTurn(i)
    /\ \/ Underflow(i, 1) /\ Fault(i)
       \/ ~Underflow(i, 1) /\ Plain(i, sp[i] - 1)

\* OP_PRINT, OP_PRTC, OP_PRTE, OP_PRTS: the same underflow check and pop as
\* OP_POP; the value, or the string at its translated address, written to
\* an output stream is not modelled.
OpPrint(i) == OpPop(i)

\* OP_READ: push one byte of input, or 0 when there is none.
OpRead(i) ==
    /\ VMTurn(i)
    /\ \/ Overflow(i) /\ Fault(i)
       \/ ~Overflow(i) /\ Plain(i, sp[i] + 1)

\* OP_JMP: a 2-byte target, then a seek that forces a refill.
OpJmp(i) ==
    /\ VMTurn(i)
    /\ \/ Plain(i, sp[i])
       \/ Fault(i)

\* OP_JIF: underflow check, the 2-byte target, then pop the condition.
OpJif(i) ==
    /\ VMTurn(i)
    /\ \/ Underflow(i, 1) /\ Fault(i)
       \/ ~Underflow(i, 1) /\ Plain(i, sp[i] - 1)
       \/ ~Underflow(i, 1) /\ Terminate(i) /\ SetSp(i, sp[i] - 1)
          /\ wake' = Woken /\ UNCHANGED cwd

\* OP_SYS: pop the syscall id and dispatch.
OpSys(i) ==
    /\ VMTurn(i)
    /\ \/ Underflow(i, 1) /\ Fault(i)
       \/ ~Underflow(i, 1) /\ SystemCall(i, sp[i] - 1)

\* OP_SLEEP: pop ms; wake_up_time = system_ticks + ms (unsigned, wrapping).
OpSleep(i) ==
    /\ VMTurn(i)
    /\ \/ Underflow(i, 1) /\ Fault(i)
       \/ /\ ~Underflow(i, 1)
          /\ \E ms \in SleepDurations :
                wake' = [wake EXCEPT ![i] = (ticks + ms) % TickMod]
          /\ SetSp(i, sp[i] - 1)
          /\ UNCHANGED <<state, memVars, fileOpen, cwd>>

\* OP_EXIT
OpExit(i) == VMTurn(i) /\ Fault(i)

\* OP_MALLOC: pop size, Kernel_malloc, push the address or 0 on failure.
\* (Its overflow check follows a pop and cannot fail.)
OpMalloc(i) ==
    /\ VMTurn(i)
    /\ \/ Underflow(i, 1) /\ Fault(i)
       \/ /\ ~Underflow(i, 1)
          /\ \E n \in MallocSizes :
                LET m == Malloc(alloc[i], used, n)
                IN  /\ used' = m.used
                    /\ alloc' = [alloc EXCEPT ![i] = m.tab]
          /\ wake' = Woken
          /\ UNCHANGED <<sp, state, heapBase, heapLimit, fileOpen, cwd>>

\* OP_LOAD: pop the address; a translated address outside the heap is a
\* SegFault that terminates the task, otherwise the cell is pushed.  (Its
\* overflow check follows a pop and cannot fail.)
OpLoad(i) ==
    /\ VMTurn(i)
    /\ \/ Underflow(i, 1) /\ Fault(i)
       \/ /\ ~Underflow(i, 1)
          /\ \E a \in Addrs :
                \/ InHeap(PhysAddr(i, a)) /\ Plain(i, sp[i])
                \/ ~InHeap(PhysAddr(i, a)) /\ Terminate(i)
                   /\ SetSp(i, sp[i] - 1) /\ wake' = Woken /\ UNCHANGED cwd

\* OP_STORE: pop the address, then the value; a translated address outside
\* the heap is a SegFault that terminates the task.
OpStore(i) ==
    /\ VMTurn(i)
    /\ \/ Underflow(i, 2) /\ Fault(i)
       \/ /\ ~Underflow(i, 2)
          /\ \E a \in Addrs :
                \/ InHeap(PhysAddr(i, a)) /\ Plain(i, sp[i] - 2)
                \/ ~InHeap(PhysAddr(i, a)) /\ Terminate(i)
                   /\ SetSp(i, sp[i] - 2) /\ wake' = Woken /\ UNCHANGED cwd

\* Opcodes the switch has no case for (OP_PIN_MODE and OP_D_WRITE among
\* them) do nothing.
OpNone(i) == VMTurn(i) /\ Plain(i, sp[i])

VMStep(i) ==
    \/ FetchEnd(i) \/ OpPush(i) \/ OpBinary(i) \/ OpDup(i) \/ OpPop(i) \/ OpPrint(i)
    \/ OpRead(i) \/ OpJmp(i) \/ OpJif(i) \/ OpSys(i) \/ OpSleep(i)
    \/ OpExit(i) \/ OpMalloc(i) \/ OpLoad(i) \/ OpStore(i) \/ OpNone(i)

\* One iteration of the scheduler's loop.
Schedule ==
    \/ Skip(cur)
    \/ CommIdle
    \/ CommSyscall
    \/ \E i \in VMTasks : VMStep(i)

\* The timer ISR (TIMER1_COMPA_vect) advancing system_ticks.
\* Without TickWrap the model covers the behaviours before system_ticks
\* wraps: it counts up to TickMod - 1 and stays there.
Tick ==
    /\ TickWrap \/ ticks + 1 < TickMod
    /\ ticks' = (ticks + 1) % TickMod
    /\ UNCHANGED <<state, sp, memVars, fileOpen, wake, cwd, cur>>

Next == Schedule \/ Tick

(***************************************************************************)
(* loop() calls the scheduler, which never blocks: some iteration is       *)
(* always enabled, so the scheduler is weakly fair.  The timer interrupt   *)
(* fires every millisecond, so it is weakly fair too.                      *)
(***************************************************************************)
Spec == Init /\ [][Next]_vars /\ WF_vars(Schedule) /\ WF_vars(Tick)

-----------------------------------------------------------------------------
TypeOK ==
    /\ state \in [Tasks -> {FREE, RUNNING} \cup Tasks]
    /\ sp \in [Tasks -> -4..(StackSize - 1)]
    /\ heapBase \in [Tasks -> {-1} \cup Cells]
    /\ heapLimit \in [Tasks -> {0, CommHeapSize} \cup SegSizes]
    /\ alloc \in [Tasks -> [Slots -> [ptr : {-1} \cup Cells,
                                      size : {0, CommHeapSize} \cup MallocSizes]]]
    /\ fileOpen \in [Tasks -> BOOLEAN]
    /\ wake \in [Tasks -> 0..(TickMod - 1)]
    /\ cwd \in [Tasks -> Dirs]
    /\ used \subseteq Cells
    /\ cur \in Tasks
    /\ ticks \in 0..(TickMod - 1)

\* Spec 3/8, allocator: no heap cell is held by two blocks.  Every block a
\* task's alloc_table or segment records is marked in the bitmap, and two
\* different blocks, of one task or of two, never share a cell.  Breaking it
\* needs a scan that ignores the bitmap, a free that clears another block, or
\* a load into a slot still in use.
NoOverlap ==
    /\ \A i \in Tasks : UNION Blocks(i) \subseteq used
    /\ \A i, j \in Tasks : \A b1 \in Blocks(i), b2 \in Blocks(j) :
          b1 # b2 => b1 \cap b2 = {}

\* Spec 3/8, allocator and Kernel_terminateTask: the bitmap holds exactly the
\* cells of the blocks of tasks that are not free, and a task holds blocks
\* (its heap_base is set) exactly when it is not free.  A terminate that
\* forgets a block, or a path that frees a task without terminating it,
\* leaks cells that no task can ever release.
HeapAccounting ==
    /\ used = UNION {UNION Blocks(i) : i \in {j \in Tasks : state[j] # FREE}}
    /\ \A i \in Tasks : (state[i] = FREE) <=> (Blocks(i) = {})
    /\ \A i \in Tasks : (heapBase[i] = -1) <=> (heapLimit[i] = 0)

\* Spec 5: the heap is changed only by the task whose turn it is: a step
\* never changes the blocks of another task that is in use, except to
\* release them when that task is the one being terminated.
OnlyOwnerChangesHeap ==
    [][\A j \in Tasks \ {cur} :
          state[j] # FREE /\ state'[j] # FREE => Blocks(j)' = Blocks(j)]_vars

\* OP_SLEEP/Kernel_runScheduler: a sleeping task that stays running has its
\* wake_up_time reached and cleared eventually.
SleeperWakes ==
    \A i \in VMTasks :
        (state[i] = RUNNING /\ wake[i] > 0) ~> (wake[i] = 0 \/ state[i] # RUNNING)

\* Spec 3: the stack pointer stays within [-1, VM_STACK_SIZE-1]; each
\* syscall pops exactly its declared arguments.
SpInRange == \A i \in Tasks : sp[i] \in -1..(StackSize - 1)

\* Spec 4.1: translate returns an address that allocate returned unchanged,
\* so a program reaches its malloc'd block through the address it was given.
TranslateKeepsAllocations ==
    \A i \in Tasks, k \in Slots :
        alloc[i][k].ptr # -1 => PhysAddr(i, alloc[i][k].ptr) = alloc[i][k].ptr

\* Syscall_ls ("return the error flag -1 to every task, do not kill it"):
\* a VM task that is in use, running or paused on a child, still has its
\* code file open, so its next buffer refill reads its program.  ls closes
\* the file before opening the directory and reopens it only after a
\* listing.
FileOpenWhileInUse == \A i \in VMTasks : state[i] # FREE => fileOpen[i]

-----------------------------------------------------------------------------
(***************************************************************************)
(* The kernel implements TaskLifecycle: task_state maps to free, running  *)
(* or waiting on the child id, and a task owns the cells of its blocks.   *)
(***************************************************************************)
AbsStatus ==
    [i \in Tasks |-> IF state[i] = FREE THEN [tag |-> "free"]
                     ELSE IF state[i] = RUNNING THEN [tag |-> "running"]
                     ELSE [tag |-> "waiting", on |-> state[i]]]

AbsOwned == [i \in Tasks |-> UNION Blocks(i)]

Lifecycle == INSTANCE TaskLifecycle
    WITH TaskIds <- Tasks, HeapCells <- Cells, Daemon <- 0,
         status <- AbsStatus, owned <- AbsOwned

\* Every kernel step is a TaskLifecycle step or leaves its state alone: cells
\* move only between the pool and one task, tasks start only in free slots,
\* a task waits only on a child it just created, and only a task's end frees
\* its cells and resumes its waiters.
ImplementsLifecycle == Lifecycle!Spec
=============================================================================
