----------------------------- MODULE CodeStream -----------------------------
(***************************************************************************)
(* The buffered code stream of one task slot: Kernel_loadTask reads the    *)
(* first block, VM_fetchByte serves bytes from code_buffer and calls       *)
(* Kernel_refillBuffer when buffer_index reaches CODE_BUFFER_SIZE, and     *)
(* Kernel_jump seeks and forces a refill.  A buffer cell is a byte value   *)
(* with the offset past the header it was read from (-5: never read, the  *)
(* zeroed global table; -4..-1: the header); the offset is not in the      *)
(* code, it only serves to state which byte the VM executes.  An int is 16 *)
(* bits: VM_fetchInt's result and Kernel_jump's addr + 4 wrap to negative  *)
(* values (the avr-gcc build wraps the signed sum), and a negative seek    *)
(* position converts to a uint32_t past any file.  file.read copies only   *)
(* what is left of the file and leaves the rest of the buffer as it was.  *)
(* Seeking past the end of a file fails and leaves the position unchanged *)
(* (SdFat's seekSet).                                                      *)
(* Operand values, stack checks and the other opcodes are abstracted: any  *)
(* step may end the task, and other opcodes only advance the stream.       *)
(***************************************************************************)
EXTENDS Integers, Sequences, FiniteSets

CONSTANTS Programs,     \* the programs that may be loaded (byte sequences)
          Chunk         \* CODE_BUFFER_SIZE

VARIABLES prog,         \* the program in t->file
          buf,          \* t->code_buffer
          idx,          \* t->buffer_index
          pos,          \* file position, as an offset past the 4-byte header
          live          \* the task is active and its file open

vars == <<prog, buf, idx, pos, live>>

OP_EXIT == 0
OP_PUSH == 16
OP_JMP  == 32
OP_JIF  == 33
WithImmediate == {OP_PUSH, OP_JMP, OP_JIF}

Slots == 0..(Chunk - 1)
\* The 4-byte header Kernel_loadTask checks: magic 0xAD, version 1, and a
\* segment size (here 1 cell).
HeaderBytes == <<173, 1, 1, 0>>
\* The byte at offset o past the header, o >= -4.
Byte(p, o) == (HeaderBytes \o p)[o + 5]
\* An int value of the 16-bit target.
Int16(x) == ((x + 32768) % 65536) - 32768
Zeroed == [k \in Slots |-> [v |-> 0, at |-> -5]]

\* file.read(code_buffer, CODE_BUFFER_SIZE) at position from: the bytes
\* still in the file overwrite the front of the buffer.
ReadInto(b, p, from) ==
    [k \in Slots |-> IF from + k < Len(p)
                     THEN [v |-> Byte(p, from + k), at |-> from + k]
                     ELSE b[k]]
ReadCount(p, from) == IF Len(p) - from < Chunk THEN Len(p) - from ELSE Chunk

\* The stream as a record, threaded through the fetches of one VM_runStep.
Stream == [buf |-> buf, idx |-> idx, pos |-> pos, live |-> live]

\* Kernel_refillBuffer: read the next block if file.available(), else
\* Kernel_terminateTask.
Refill(s) ==
    IF s.live /\ s.pos < Len(prog)
    THEN [s EXCEPT !.buf = ReadInto(s.buf, prog, s.pos),
                   !.pos = @ + ReadCount(prog, s.pos), !.idx = 0]
    ELSE [s EXCEPT !.live = FALSE]

\* VM_fetchByte: the byte and the stream after it; 0 if the task ended.
FetchByte(s) ==
    LET r == IF s.idx >= Chunk THEN Refill(s) ELSE s
    IN  IF r.idx >= Chunk
        THEN [byte |-> 0, st |-> r]
        ELSE [byte |-> r.buf[r.idx].v, st |-> [r EXCEPT !.idx = @ + 1]]

\* VM_fetchInt: two fetches, little endian.
FetchInt(s) ==
    LET lo == FetchByte(s)
        hi == FetchByte(lo.st)
    IN  [val |-> Int16(lo.byte + 256 * hi.byte), st |-> hi.st]

\* file.seek(addr + 4) succeeds for a position inside the file or at its end.
Seeks(s, a) == s.live /\ 0 <= Int16(a + 4) /\ Int16(a + 4) <= Len(prog) + 4

JumpNoRebuffer(s, a) ==
    IF Seeks(s, a) THEN [s EXCEPT !.pos = Int16(a + 4) - 4] ELSE s

\* Kernel_jump: file.seek(addr + 4), then force a refill.
Jump(s, a) ==
    [s EXCEPT !.pos = IF Seeks(s, a) THEN Int16(a + 4) - 4 ELSE @,
              !.idx = Chunk]

Commit(s) ==
    /\ buf' = s.buf /\ idx' = s.idx /\ pos' = s.pos /\ live' = s.live
    /\ UNCHANGED prog

(***************************************************************************)
(* Kernel_loadTask's success path for the stream: the file is open after   *)
(* the header, the first block is read, buffer_index = 0.  The slot's      *)
(* code_buffer still holds what the previous occupant left there.          *)
(***************************************************************************)
Load(p) ==
    /\ ~live
    /\ prog' = p
    /\ buf' = ReadInto(buf, p, 0)
    /\ idx' = 0
    /\ pos' = ReadCount(p, 0)
    /\ live' = TRUE

\* EXIT, a failed stack or heap check, or an ls whose reopen fails.
Fault ==
    /\ live
    /\ live' = FALSE
    /\ UNCHANGED <<prog, buf, idx, pos>>

\* VM_runStep: fetch the opcode, return if that ended the task, then fetch
\* the immediate of PUSH, JMP and JIF and jump.
Step ==
    /\ live
    /\ LET f == FetchByte(Stream)
           i == FetchInt(f.st)
       IN  \/ ~f.st.live /\ Commit(f.st)
           \/ f.st.live /\ f.byte = OP_EXIT /\ Commit([f.st EXCEPT !.live = FALSE])
           \/ f.st.live /\ f.byte \notin WithImmediate \cup {OP_EXIT} /\ Commit(f.st)
           \/ f.st.live /\ f.byte = OP_PUSH /\ Commit(i.st)
           \/ f.st.live /\ f.byte = OP_JMP /\ Commit(Jump(i.st, i.val))
           \/ f.st.live /\ f.byte = OP_JIF
              /\ \/ Commit(i.st)
                 \/ Commit(Jump(i.st, i.val))

Init ==
    /\ prog \in Programs
    /\ buf = Zeroed
    /\ idx = 0
    /\ pos = 0
    /\ live = FALSE

Next == (\E p \in Programs : Load(p)) \/ Fault \/ Step

Spec == Init /\ [][Next]_vars

-----------------------------------------------------------------------------
(***************************************************************************)
(* Refinement: the offset of the next byte the VM will execute is the     *)
(* program counter.  While the buffer has bytes left it is the offset the *)
(* byte at buffer_index was read from; once it is spent it is the file    *)
(* position the next refill reads from.                                    *)
(***************************************************************************)
PC == IF ~live THEN -1 ELSE IF idx < Chunk THEN buf[idx].at ELSE pos

Control == INSTANCE ProgramCounter WITH pc <- PC

\* The VM executes exactly the program's bytes in program order, jumps to
\* the offset its immediate names, and ends the task when it runs out of
\* program (VM_fetchByte, Kernel_refillBuffer, Kernel_jump, Load).
ExecutesProgram == Control!Spec
=============================================================================
