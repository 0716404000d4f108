SPECIFICATION Spec
CONSTANTS
    Proc = {p1, p2, p3}
    Ino = {i1, i2, i3}
    NoIno = NoIno
    Free = Free
    Empty = Empty
    NoToken = NoToken
    MaxOps = 2
    MaxFailure = 1
    Orphans = TRUE
    Heartbeat = TRUE
SYMMETRY Symmetry
INVARIANTS
    TypeOK
    OneEntry
    ExclusiveUntilCrash
PROPERTY
    LiveLockKept
CHECK_DEADLOCK FALSE
