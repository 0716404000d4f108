SPECIFICATION Spec
SYMMETRY Symmetry
CONSTANTS
    None = None
    Process = {p1, p2}
    Item = {i1, i2}
    q1 = q1
    q2 = q2
    x1 = x1
    x2 = x2
    x3 = x3
    Reader = {r1}
    Size = {2}
    MaxSegmentBytes = 4
    MaxSegmentRecords = 2
    MaxStreamRecords = 4
    MaxAppend = 5
    MaxRepair = 3
    MaxInterrupt = 3
    Release = {v1, v2}
    Foreign = {f}
    Keep = {0, 1}
    User = User
    MaxTxn = 3
    MaxCalls = 4
    MaxFault = 2
    MaxDrift = 1
INVARIANTS
    ComponentsTyped
    
    
    InstallConsistent
    InvokedOnce
    
    GraphInOrder
    HooksSound
    AnswersHonest
    
    
    
PROPERTIES
    RepairHeals
    
    AllOrNothing
    FailureRestores
    KeptForGood
    ImportsByPolicy
    
CHECK_DEADLOCK FALSE
