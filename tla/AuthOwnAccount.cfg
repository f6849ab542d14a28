\* Sign-ins of two profiles by a user who does not wait for the codes.
CONSTANTS
    Txs = {t1}
    None = None
    Fields = {profile}
    Values = {v1}
    Defaults <- AllUnset
    Unreadable = FALSE
    Profiles = {p1, p2}
    Flows = {f1, f2}
    Patient = FALSE
    MaxConns = 1
    MaxActs = 0
SPECIFICATION AllSpec
INVARIANT LinksOwnAccount
CHECK_DEADLOCK FALSE
