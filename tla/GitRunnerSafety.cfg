CONSTANTS
    Calls = {c1, c2, c3}
    Cwds = {r1, r2}
    NoCall = NoCall
    MaxSteps = 2
SPECIFICATION Spec
SYMMETRY RunnerSymmetry
INVARIANTS
    TypeOK
    FifoExclusive
    OneUnsignalledWriter
CHECK_DEADLOCK FALSE
