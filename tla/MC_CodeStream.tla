---------------------------- MODULE MC_CodeStream ----------------------------
EXTENDS CodeStream

\* Programs that never execute a byte past their end: every path ends at an
\* EXIT, at a jump to the very end, or at the end of a full last block.
\* They are a loop through JIF across a block boundary, a PUSH and a JMP
\* over a byte, a longer loop back to the start with a jump into the middle
\* of a block, a loop that never ends, a single EXIT, two full blocks
\* without EXIT, and a jump to the end of the file.
WellFormed ==
    { <<1, 33, 0, 0, 0>>,
      <<16, 5, 0, 32, 7, 0, 1, 0>>,
      <<1, 1, 16, 0, 0, 33, 1, 0, 1, 0>>,
      <<1, 1, 1, 1, 16, 2, 0, 32, 10, 0, 0>>,
      <<16, 0, 0, 32, 0, 0>>,
      <<0>>,
      <<1, 1, 1, 1, 1, 1>>,
      <<32, 3, 0>> }
=============================================================================
