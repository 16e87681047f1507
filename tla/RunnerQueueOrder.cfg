CONSTANTS
    r1 = r1
    r2 = r2
    m1 = m1
    m2 = m2
    Runner = {r1}
    Job = {j1, j2}
    Model = {m1}
    NoRunner = NoRunner
    MaxRequests = 0
    ModelsOf <- MCModelsOf
SPECIFICATION FairSpec
PROPERTIES
    ImplementsLifecycle
    ClaimIsResolved
    QueuedIsServed
