SPECIFICATION CipherSpec
CONSTANTS
    Interval = 224
    LenBytes = 3
    KeyBytes = 32
    BlockBytes = 64
    MaxPackets = 675
    Window = 2
INVARIANTS
    NeverGarbled
PROPERTIES
    KeystreamUsedOnce
    NonceUsedOnce
CHECK_DEADLOCK FALSE
