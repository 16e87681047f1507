CONSTANTS
    Call = {c1}
    N = 3
    Parallel = 2
    MaxAttempts = 2
    Threshold = 2
    MaxWorkspaceFailures = 1
SPECIFICATION FairSpec
CHECK_DEADLOCK FALSE
INVARIANTS
    ResultAddsUp
    FinalReportIsSent
PROPERTIES
    CallReturns
