SPECIFICATION FairSpec
CONSTANTS
    AckLen = 3
    MaxData = 1
    CopyBuf = 1
    Room = 2
PROPERTY
    RelayEnds
CHECK_DEADLOCK FALSE
