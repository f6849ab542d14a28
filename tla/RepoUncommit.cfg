SPECIFICATION Spec
CONSTANTS
  Branches = {b1, b2}
  Edits = {e1, e2}
  Requests = {r1, r2, r3}
  Nobody = Nobody
  Ops = {"commit", "create", "pull", "push", "merge", "returnLast", "returnAll"}
  MaxCommits = 4
  TerminalActs = 0
  TerminalMidJob = FALSE
  CountMayFail = FALSE
SYMMETRY JobSymmetry
INVARIANT NothingIsLost
PROPERTIES ActsOnExpectedBranch NeverReturnsPushed ReturnAllIsComplete
CHECK_DEADLOCK FALSE
