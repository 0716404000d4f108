SPECIFICATION Spec
CONSTANTS
    Release = {v1}
    Foreign = {f}
    Keep = {1}
    None = None
    User = User
    MaxTxn = 2
    MaxCalls = 2
    MaxFault = 1
    MaxDrift = 0
PROPERTIES
    Restored
CHECK_DEADLOCK FALSE
