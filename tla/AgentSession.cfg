SPECIFICATION Spec
CONSTANTS
    Slashed <- MCSlashed
    Contained <- MCContained
    Sessions <- MCSessions
    Changing <- MCChanging
    Harmful <- MCHarmful
    Hints <- MCHints
    Modes <- MCModes
    MaxRetries = 1
    MaxInjections = 1
    MaxPolls = 2
INVARIANTS
    ContextIsWellFormed
    CallsKeepTheirResults
    
PROPERTIES
    SessionEnds
