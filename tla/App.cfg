\* The branches of the active repository; profiles, repositories, the active ones.
CONSTANTS
    None = None
    Repos = {"r1", "r2"}
    Branches = {"b1", "b2"}
    First = "r1"
    Main = "b1"
    Held <- OneHeld
    Profiles = {"p1", "p2", "p3"}
    FirstProfiles = {"p1", "p2"}
    Assigned <- FirstAssigned
    Refusable = {"switch", "delete"}
    NSlots = 2
    MaxActs = 4
    MaxMoves = 1
    RecordActs = 5
    RecordMoves = 1
SPECIFICATION AppFairSpec
CHECK_DEADLOCK FALSE
INVARIANTS
    
    SwitchesAreSafe
    

    
    
