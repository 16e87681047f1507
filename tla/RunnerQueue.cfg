CONSTANTS
    r1 = r1
    r2 = r2
    m1 = m1
    m2 = m2
    Runner = {r1, r2}
    Job = {j1}
    Model = {m1, m2}
    NoRunner = NoRunner
    MaxRequests = 1
    ModelsOf <- MCModelsOf
SPECIFICATION Spec
PROPERTIES
    OwnershipMovesThroughQueue
    ImplementsLifecycle
