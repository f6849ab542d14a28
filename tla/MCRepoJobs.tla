----------------------------- MODULE MCRepoJobs -----------------------------
(***************************************************************************)
(* Small instances of RepoJobs.  Requests, edits and branches are          *)
(* interchangeable: nothing in the model tells two of them apart.          *)
(***************************************************************************)
EXTENDS RepoJobs, TLC

\* Symmetric sets of the runs.
JobSymmetry == Permutations(Requests) \union Permutations(Edits) \union Permutations(Branches)
=============================================================================
