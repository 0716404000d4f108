SPECIFICATION Spec
CONSTANTS
    Worker = {w1, w2}
    Id = {i1, i2}
    None = None
    MaxRuns = 2
    MaxFault = 0
INVARIANT
    RetainsEveryWorktree
CHECK_DEADLOCK FALSE
