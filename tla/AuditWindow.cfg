CONSTANTS
    connect = connect
    Op = {connect}
    Kind <- MCKind
    Node = {n1}
    StageTimes = FALSE
    MaxRotations = 2
    MaxPasses = 2
SPECIFICATION Spec
CHECK_DEADLOCK FALSE
INVARIANTS
    CompleteListsAll
    OnlyThisCase
CONSTRAINT Unjudged
