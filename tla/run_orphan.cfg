SPECIFICATION OrphanSpec
CONSTANTS
    Client = {c1, c2}
    Absent = Absent
    MaxTime = 1
    Ttl = 1
    MaxOps = 4
    MaxRev = 3
PROPERTY
    SettledStays
CHECK_DEADLOCK FALSE
