\* The badge of the header, the Safety Center, the remedies, and the message's drafts.
CONSTANTS
    None = None
    Repos = {"r1", "r2"}
    Branches = {"b1", "b2"}
    Start <- StartAtR1
    MaxActs = 6
    Profiles = {"p1", "p2"}
    Policies <- SomePolicies
    RemotesOf <- OnlyOrigin
    FirstAssigned <- R1ToP1
    FirstIdentity <- GlobalP1
    GivenIdentities <- LocalOrGlobal
    Origin = "origin"
    GuardActs = 3
    RemedyActs = 2
    MaxMoves = 1
SPECIFICATION MCFairSpec
CHECK_DEADLOCK FALSE
INVARIANTS
    NeverDisagree
    BadgesAreTrue
    DraftsStayHome
PROPERTIES
    
    GuardEnds
