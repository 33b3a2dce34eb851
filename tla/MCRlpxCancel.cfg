SPECIFICATION Spec
CONSTANTS
    HeaderLen = 2
    Block = 2
    MacLen = 1
    SizeMod = 8
    NetCap = 6
    MaxWrite = 2
    MaxRead = 2
    MaxBytes = 5
INVARIANTS
    NeverDesynchronised
CHECK_DEADLOCK FALSE
