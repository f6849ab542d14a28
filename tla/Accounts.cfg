\* The settings, the sign-ins and the AI connection.
CONSTANTS
    Txs = {t1, t2, t3}
    None = None
    Fields = {profile, ai}
    Values = {v1, v2}
    Defaults <- AllUnset
    Unreadable = FALSE
    Profiles = {p1, p2}
    Flows = {f1, f2}
    Patient = TRUE
    MaxConns = 2
    MaxActs = 4
SPECIFICATION AllFairSpec
INVARIANTS
    TypeOK
    LinksRightly
    SetupIsTrue
PROPERTIES
    UpdatesAreAtomic
    
CHECK_DEADLOCK FALSE
