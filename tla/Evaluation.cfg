CONSTANTS
    Plans <- MCPlans
    N = 2
SPECIFICATION FairSpec
CHECK_DEADLOCK FALSE
INVARIANTS
    ExitCodeIsEarned
PROPERTIES
    NothingIsLeft
    ClusterIsDeletedByItsOwner
