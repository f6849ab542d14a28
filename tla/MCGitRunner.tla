---------------------------- MODULE MCGitRunner ----------------------------
(***************************************************************************)
(* Small instances of GitRunner: calls and directories are model values.   *)
(***************************************************************************)
EXTENDS GitRunner, TLC

\* The safety runs treat calls, and directories, as interchangeable.
RunnerSymmetry == Permutations(Calls) \union Permutations(Cwds)
=============================================================================
