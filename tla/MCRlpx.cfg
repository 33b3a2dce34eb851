SPECIFICATION RlpxSpec
CONSTANTS
    HeaderLen = 2
    Block = 2
    MacLen = 1
    SizeMod = 4
    NetCap = 6
    MaxWrite = 2
    MaxRead = 2
    MaxBytes = 5
INVARIANTS
    SessionsAgree
    PeersAreRecognised
    DeliveredIsPrefix
    OnlyTornOrOversized
PROPERTY
    HandshakesEnd
CHECK_DEADLOCK FALSE
