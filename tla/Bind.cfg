CONSTANTS
    Profiles = {p1, p2, p3}
    Aliased = {p1, p2}
    Named = {p1, p2}
    Updates = {u1, u2, u3}
    None = None
    GitHub = GitHub
    Elsewhere = Elsewhere
    Absent = Absent
    Overlap = TRUE
    Failures = {"git", "store", "crash"}
SPECIFICATION MCSpec
SYMMETRY UpdateSymmetry
INVARIANTS
    
    IdentityIsWhole
    GovernsApart
    RecoverableApart
CHECK_DEADLOCK FALSE
