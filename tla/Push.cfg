\* Commit and push, the chat and its proposals.
CONSTANTS
    None = None
    Repos = {"ra", "rb"}
    First = "ra"
    Paths <- TwoPaths
    Differs = {"q"}
    MaxSends = 2
    MaxApplies = 2
    MaxMoves = 1
    Origin = "origin"
    Remotes = {"origin", "fork", "mirror"}
    Https = {"origin"}
    PushBranches = {"main", "dev"}
    Start <- StartOnMain
    RemotesOf <- TwoRemotes
    Guarded <- DevOfTheOther
    Foreign <- ForkAndMirror
    Worktree <- SomeChanges
    NSlots = 2
    MaxCommits = 2
    PushActs = 4
    PushMoves = 1
SPECIFICATION MCFairSpec
INVARIANTS
    
    FlowTellsTruth
    ChatIsTrue
    EditsLandWhole
PROPERTY EverythingEnds
CHECK_DEADLOCK FALSE
