CONSTANTS
    Repos = {"r1", "r2"}
    Branches = {"b1", "b2"}
    Main = "b1"
    Paths = {"p1"}
    Versions = {"v1", "v2"}
    Absent = "absent"
    Trees <- EditedOrRemoved
    None = None
    PageSize = 1
    NSlots = 2
    MaxId = 4
    StatusActs = 4
    HistoryActs = 3
    MaxMoves = 1
SPECIFICATION FairSpec
INVARIANT ShowsItsOwn
PROPERTIES
    ReturnsFromNamedBranch
    
CHECK_DEADLOCK FALSE
