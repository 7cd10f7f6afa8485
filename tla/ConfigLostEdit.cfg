SPECIFICATION ConfigFairSpec
CONSTANTS
    r1 = r1
    r2 = r2
    Contents <- MCContents
    Broken = Broken
    Missing = Missing
    InitialFiles <- MCFirst
    Edits <- MCEdits
    Monitor = Monitor
    Requests = {r1}
    NoOne = NoOne
    MaxTime = 3
    EarlyEdits = FALSE
    SameSecond = FALSE
CHECK_DEADLOCK FALSE
PROPERTY EditsAreRead
