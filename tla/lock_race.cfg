SPECIFICATION Spec
CONSTANTS
    Proc = {p1, p2, p3, p4}
    Ino = {i1, i2, i3, i4}
    NoIno = NoIno
    Free = Free
    Empty = Empty
    NoToken = NoToken
    MaxOps = 1
    MaxFailure = 1
    Orphans = FALSE
    Heartbeat = FALSE
SYMMETRY Symmetry
INVARIANT
    MutualExclusion
CHECK_DEADLOCK FALSE
