SPECIFICATION Spec
CONSTANTS
    Writers = {w1, w2}
    Pollers = {g}
    Submitted <- MCSubmitted
    BaseFile <- MCBaseFile
    Edits <- MCEdits
    MaxRequests = 4
    MaxEdits = 1
    MaxAdmin = 1
INVARIANTS
    ReviewerIsServed
    ArtifactsNeedTheirRun
    PreviewConverges
PROPERTY
    PolledValidationSettles
CHECK_DEADLOCK FALSE
