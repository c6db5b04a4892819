---------------------------- MODULE MC_WorkingDir ----------------------------
(***************************************************************************)
(* Paths a program or the daemon passes to chdir: "..", ".", "/", the     *)
(* empty string, an 8-character name (the FAT short-name limit) with and  *)
(* without a trailing "/", and an absolute path of one such name.         *)
(***************************************************************************)
EXTENDS WorkingDir

Name(k) == [i \in 1..k |-> "a"]

MCPaths ==
    { <<".", ".">>, <<".">>, <<"/">>, <<>>,
      Name(8), Name(8) \o <<"/">>, <<"/">> \o Name(8) }

=============================================================================
