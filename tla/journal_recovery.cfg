SPECIFICATION Spec
CONSTANTS
    Reader = {}
    Size = {2, 4}
    MaxSegmentBytes = 4
    MaxSegmentRecords = 2
    MaxStreamRecords = 4
    None = None
    MaxAppend = 4
    MaxRepair = 2
    MaxInterrupt = 3
INVARIANTS
    AcknowledgedKept
CHECK_DEADLOCK FALSE
