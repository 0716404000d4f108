SPECIFICATION FairSpec
CONSTANTS
    w1 = w1
    w2 = w2
    a = a
    b = b
    c = c
    Worker = {w1, w2}
    Task = {a, b, c}
    Deps <- ConstFan
    Supervised = {w1}
    Assigned <- ConstAssigned
    None = None
    Lease = 1
    MaxTotalLease = 2
    MaxTime = 2
    MaxOps = 2
    MaxFault = 2
INVARIANTS
    TypeOK
    RestsOnCompleted
PROPERTIES
    TakeoversJustified
    GenerationsRise
    ReopeningReachesAll
    CallsReturn
    VersionsRise
CHECK_DEADLOCK FALSE
