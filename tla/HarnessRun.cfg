CONSTANTS
    Scenarios <- MCScenarios
    MaxTurns = 2
    GoalCapacity = 4
    MaxCancels = 1
SPECIFICATION FairSpec
CHECK_DEADLOCK FALSE
INVARIANTS
    VerifiedStateIsFinal
    VerdictIsObserved
    EvidenceBracketsActions
    CleanReturn
PROPERTIES
    RunReturns
