SPECIFICATION ManagerSpec
CONSTANTS
    c1 = c1
    c2 = c2
    c3 = c3
    c4 = c4
    o1 = o1
    o2 = o2
    o3 = o3
    file = file
    same = same
    other = other
    bad = bad
    poolA = poolA
    poolB = poolB
    Calls = {c1, c2, c4}
    Number <- MCNumber
    Numbers = {same, other, bad}
    BadNumbers = {bad}
    Recorders = {file}
    Operators = {o1, o2, o3}
    FirstOperators = {o1}
    AmountsOfOperators = {1, 2}
    SizesOfQueue = {2}
    Limit = 1
    Pools = {poolA, poolB}
    Pool = poolA
    NoCall = NoCall
    NoThread = NoThread
    Owner = Owner
    EarlyCalls = FALSE
    OwnerMayStop = FALSE
    TaskMayThrow = FALSE
SYMMETRY NewOperatorSymmetry
INVARIANTS
    ManagerTypeOK
    NoCallLost
    NoCallTwice
    
    OnePoolServes
    OperatorsStay
    NumberAlive
    DistinctNumbers
    MutexesHeld
    OldPoolAwake
    AtMostOneMisses
PROPERTIES
    ServerServesInOrder
