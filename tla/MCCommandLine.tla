---------------------------- MODULE MCCommandLine ----------------------------
(***************************************************************************)
(* An instance of CommandLine in which projects, shells and PIDs are alike.   *)
(***************************************************************************)
EXTENDS CommandLine, TLC

Symmetry == Permutations(Name) \cup Permutations(Shell) \cup Permutations(Pid)
=============================================================================
