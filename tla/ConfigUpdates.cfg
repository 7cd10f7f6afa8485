SPECIFICATION ConfigFairSpec
CONSTANTS
    r1 = r1
    r2 = r2
    Contents <- MCContents
    Broken = Broken
    Missing = Missing
    InitialFiles <- MCInitial
    Edits <- MCEditsMissing
    Monitor = Monitor
    Requests = {r1, r2}
    NoOne = NoOne
    MaxTime = 2
    EarlyEdits = TRUE
    SameSecond = TRUE
CHECK_DEADLOCK FALSE
INVARIANTS
    ConfigTypeOK
    ManagedUsable
    AppliedWhenQuiet
PROPERTIES
    UpdatesInRange
    OnlyRequestsLoseEdits
    RequestsReply
    MonitorReadsEdits
    ImplementsConfig
