CONSTANTS
    s1 = s1
    s2 = s2
    Requested = {s1, s2}
    NoScenario = NoScenario
    MaxStreams = 2
    Buffer = 1
    Parallel = 1
    Outcome <- MCOutcome
    MaxTrouble = 1
SPECIFICATION FairSpec
CHECK_DEADLOCK FALSE
INVARIANTS
    StoreIsConsistent
PROPERTIES
    ClosedStreamIsTold
