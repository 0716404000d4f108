SPECIFICATION Spec
CONSTANTS
    Actor = {x1, x2}
    Task = {t1, t2}
    Handoff = {h1, h2}
    MaxCalls = 2
    MaxFault = 0
    None = None
PROPERTY
    CancellationReaches
CHECK_DEADLOCK FALSE
