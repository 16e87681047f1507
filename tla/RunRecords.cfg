CONSTANTS
    r1 = r1
    r2 = r2
    RunIDs <- MCRunIDs
    Outcomes <- MCOutcomes
    MaxFaults = 1
    MaxCommands = 2
SPECIFICATION Spec
INVARIANTS
    RebuildRestores
    HarnessRowIsAuditable
    PublishedBundleIsSound
CHECK_DEADLOCK FALSE
