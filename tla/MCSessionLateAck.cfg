SPECIFICATION Spec
CONSTANTS
    AckLen = 3
    MaxData = 0
    CopyBuf = 1
    Room = 2
INVARIANT
    FallbackWorks
CHECK_DEADLOCK FALSE
