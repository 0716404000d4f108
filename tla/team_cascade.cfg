SPECIFICATION Spec
CONSTANTS
    w1 = w1
    w2 = w2
    a = a
    b = b
    c = c
    Worker = {w1, w2}
    Task = {a, b, c}
    Deps <- ConstChain
    Supervised = {w1}
    Assigned <- ConstAssigned
    None = None
    Lease = 1
    MaxTotalLease = 2
    MaxTime = 1
    MaxOps = 2
    MaxFault = 1
PROPERTIES
    ReopeningReachesAll
CHECK_DEADLOCK FALSE
