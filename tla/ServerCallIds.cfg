SPECIFICATION ServerSpec
CONSTANTS
    c1 = c1
    c2 = c2
    c3 = c3
    c4 = c4
    c5 = c5
    same = same
    other = other
    bad = bad
    t1 = t1
    t2 = t2
    t3 = t3
    r1 = r1
    Calls = {c1, c2}
    Number <- MCNumber
    Numbers = {same, other, bad}
    BadNumbers = {bad}
    Recorders = {}
    Configurations <- MCOneConfiguration
    Longest = 2
    MaxTime = 1
    UpdateRequests = {r1}
    OtherRequests = {r1}
    OtherMethods = {r1}
    ThreadIds = {t1, t2}
    Hash <- MCHash
    NoThread = NoThread
    NumberValue <- MCNumberValue
    Modulus = 1000000
INVARIANT CallIdsUnique
