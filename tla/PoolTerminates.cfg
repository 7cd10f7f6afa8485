SPECIFICATION PoolSpec
CONSTANTS
    c1 = c1
    c2 = c2
    c3 = c3
    o1 = o1
    o2 = o2
    file = file
    same = same
    other = other
    Calls <- MCTwoCalls
    Number <- MCNumber
    Numbers = {same, other}
    BadNumbers = {}
    Recorders = {file}
    Operators = {o1, o2}
    Pools = {thePool}
    Pool = thePool
    NoCall = NoCall
    NoThread = NoThread
    Owner = Owner
    Limit = 2
    EarlyCalls = FALSE
    OwnerMayStop = FALSE
    TaskMayThrow = TRUE
INVARIANT NeverTerminated
