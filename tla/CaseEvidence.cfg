CONSTANTS
    Objects <- MCObjects
    Profiles <- MCProfiles
    Actions <- MCActions
    OtherChanges <- MCOtherChanges
    Irregular = {"networkpolicies"}
    ClusterScoped = {"nodes", "namespaces"}
    MaxRequests = 2
    MaxChanges = 1
    MaxUnreadable = 1
SPECIFICATION Spec
CHECK_DEADLOCK FALSE
INVARIANTS
    JudgedCaseIsClean
    UnsafeIsDeserved
    ProtectedIsRefused
    SurvivingChangeIsSeen
