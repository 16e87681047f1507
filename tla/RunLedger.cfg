SPECIFICATION Spec
CONSTANTS
    Payload <- MCPayload
    Stored <- MCStored
    Clients <- MCClients
    Message <- MCMessage
    Servers <- MCServers
    Requested = {}
    Tenant = "t"
    ReportModel = "m"
    Before = {9}
    MaxAdmin = 1
    MaxFailures = 1
    AnalysisLimit = 2
    SignalLimit = 2
    PassKTrials = 2
INVARIANTS
    EvidenceMatchesRow
    IngestIsAllOrNothing
    ViewsAgree
    SafePassHidesNothing
PROPERTIES
    RequestsAreAnswered
CHECK_DEADLOCK FALSE
