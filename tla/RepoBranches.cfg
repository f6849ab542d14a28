SPECIFICATION Spec
CONSTANTS
  Branches = {b1, b2}
  Edits = {e1, e2}
  Requests = {r1, r2, r3}
  Nobody = Nobody
  Ops = {"commit", "switch", "create", "fetch", "delete", "forceDelete", "stashSwitch"}
  MaxCommits = 4
  TerminalActs = 1
  TerminalMidJob = FALSE
  CountMayFail = FALSE
SYMMETRY JobSymmetry
INVARIANTS NothingIsLost StashReturned
PROPERTY PopsOnlyItsOwn
CHECK_DEADLOCK FALSE
