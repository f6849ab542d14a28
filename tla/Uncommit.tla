------------------------------ MODULE Uncommit ------------------------------
(***************************************************************************)
(* src/core/history/uncommit.ts: which of the two "return commit" actions  *)
(* a snapshot of the repository allows, and why not.                       *)
(***************************************************************************)
EXTENDS Naturals

Context(maxCommits) ==
    [unpushedCount : 0..maxCommits, hasUpstream : BOOLEAN, workingTreeClean : BOOLEAN,
     headIsMerge : BOOLEAN, headIsRoot : BOOLEAN, rangeHasMerge : BOOLEAN,
     inProgressOp : BOOLEAN, detachedHead : BOOLEAN]

\* A global refusal blocks both actions.
GlobalRefusal(ctx) ==
    IF ctx.detachedHead THEN "detached-head"
    ELSE IF ctx.inProgressOp THEN "in-progress-op"
    ELSE IF ~ctx.workingTreeClean THEN "dirty-tree"
    ELSE "none"

\* Mutant: nothing unpushed is no reason to refuse.
LastRefusalPushed(ctx) ==
    IF GlobalRefusal(ctx) # "none" THEN GlobalRefusal(ctx)
    ELSE IF ctx.headIsMerge THEN "merge-commit"
    ELSE IF ctx.headIsRoot THEN "root-commit"
    ELSE "none"

LastRefusal(ctx) ==
    IF GlobalRefusal(ctx) # "none" THEN GlobalRefusal(ctx)
    ELSE IF ctx.unpushedCount < 1 THEN "nothing-unpushed"
    ELSE IF ctx.headIsMerge THEN "merge-commit"
    ELSE IF ctx.headIsRoot THEN "root-commit"
    ELSE "none"

AllRefusal(ctx) ==
    IF LastRefusal(ctx) # "none" THEN LastRefusal(ctx)
    ELSE IF ~ctx.hasUpstream THEN "no-upstream-for-all"
    ELSE IF ctx.rangeHasMerge THEN "merge-commit"
    ELSE "none"

CanReturnLast(ctx) == LastRefusal(ctx) = "none"
CanReturnAllUnpushed(ctx) == AllRefusal(ctx) = "none"
=============================================================================
