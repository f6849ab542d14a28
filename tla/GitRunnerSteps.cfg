CONSTANTS
    Calls = {c1, c2, c3}
    Cwds = {r1}
    NoCall = NoCall
    MaxSteps = 1
SPECIFICATION FairSpec
PROPERTIES
    
    ImplementsQueue
    EveryCallSettles
CHECK_DEADLOCK FALSE
