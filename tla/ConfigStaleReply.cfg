SPECIFICATION ConfigSpec
CONSTANTS
    r1 = r1
    r2 = r2
    Contents <- MCContents
    Broken = Broken
    Missing = Missing
    InitialFiles <- MCFirst
    Edits <- MCEdits
    Monitor = Monitor
    Requests = {r1, r2}
    NoOne = NoOne
    MaxTime = 2
    EarlyEdits = FALSE
    SameSecond = FALSE
CHECK_DEADLOCK FALSE
INVARIANT ReplyIsMine
