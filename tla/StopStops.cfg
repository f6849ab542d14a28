\* A reply that was stopped.
CONSTANTS
    None = None
    Repos = {"ra", "rb"}
    First = "ra"
    Paths <- TwoPaths
    Differs = {"q"}
    MaxSends = 2
    MaxApplies = 2
    MaxMoves = 1
    Origin = "origin"
    Remotes = {"origin", "fork", "mirror"}
    Https = {"origin"}
    PushBranches = {"main", "dev"}
    Start <- StartOnMain
    RemotesOf <- TwoRemotes
    Guarded <- DevOfTheOther
    Foreign <- ForkAndMirror
    Worktree <- SomeChanges
    NSlots = 2
    MaxCommits = 0
    PushActs = 0
    PushMoves = 0
SPECIFICATION MCSpec
PROPERTY StopStops
CHECK_DEADLOCK FALSE
