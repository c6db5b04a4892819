--------------------------- MODULE ProgramCounter ---------------------------
(***************************************************************************)
(* What the VM's fetch-execute loop promises about control flow (spec      *)
(* sections 5 and 6), with the code stream seen as the program itself: a   *)
(* live task executes the instruction at its program counter; straight-   *)
(* line opcodes advance it, PUSH, JMP and JIF take a 16-bit immediate,     *)
(* jumps set it to an absolute byte offset, and running out of program,    *)
(* whether at an opcode or inside an immediate, terminates the task.       *)
(* Any step may also end the task (EXIT, a stack or heap fault).           *)
(***************************************************************************)
EXTENDS Integers, Sequences

CONSTANT Programs          \* the programs that may be loaded (byte sequences)

VARIABLES prog, pc, live

\* Opcode values of OSConfig.h that change control flow or take an immediate.
OP_EXIT == 0
OP_PUSH == 16
OP_JMP  == 32
OP_JIF  == 33
WithImmediate == {OP_PUSH, OP_JMP, OP_JIF}

\* The byte at 0-based offset o of program p.
Byte(p, o) == p[o + 1]

\* The little-endian 16-bit immediate that follows the opcode at o.
Immediate(p, o) == Byte(p, o + 1) + 256 * Byte(p, o + 2)

Init == prog \in Programs /\ pc = -1 /\ ~live

Load(p) == ~live /\ prog' = p /\ pc' = 0 /\ live'

Halt == live /\ ~live' /\ pc' = -1 /\ UNCHANGED prog

\* One instruction at pc.
Execute ==
    /\ live /\ pc < Len(prog)
    /\ LET op == Byte(prog, pc) IN
       \/ op \notin WithImmediate \cup {OP_EXIT} /\ pc' = pc + 1
       \/ op \in WithImmediate /\ pc + 2 < Len(prog)
          /\ \/ op = OP_PUSH /\ pc' = pc + 3
             \/ op = OP_JMP /\ pc' = Immediate(prog, pc)
             \/ op = OP_JIF /\ pc' \in {pc + 3, Immediate(prog, pc)}
    /\ UNCHANGED <<prog, live>>

Next == (\E p \in Programs : Load(p)) \/ Halt \/ Execute

Spec == Init /\ [][Next]_<<prog, pc, live>>
=============================================================================
