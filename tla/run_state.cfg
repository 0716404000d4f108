SPECIFICATION FairSpec
CONSTANTS
    Client = {c1, c2}
    Absent = Absent
    MaxTime = 1
    Ttl = 1
    MaxOps = 4
    MaxRev = 3
INVARIANTS
    TypeOK
    PersistedReadable
    NoLostUpdate
PROPERTIES
    SettledStays
    LeaseSuccession
    CallsReturn
    ImplementsContract
CHECK_DEADLOCK FALSE
