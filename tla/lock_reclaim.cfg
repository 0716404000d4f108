SPECIFICATION FairSpec
CONSTANTS
    Proc = {p1, p2, p3}
    Ino = {i1, i2, i3}
    NoIno = NoIno
    Free = Free
    Empty = Empty
    NoToken = NoToken
    MaxOps = 1
    MaxFailure = 1
    Orphans = FALSE
    Heartbeat = FALSE
INVARIANT
    MutualExclusion
PROPERTIES
    CallsReturn
    DeadOwnerReclaimed
CHECK_DEADLOCK FALSE
