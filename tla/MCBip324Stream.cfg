SPECIFICATION FairSpec
CONSTANTS
    LenBytes = 3
    Overhead = 2
    NetCap = 5
    MaxWrite = 2
    MaxRead = 3
    MaxBytes = 3
    MaxPackets = 3
INVARIANTS
    NeverDesynchronised
    DeliveredIsPrefix
    FlushOutlivesWriter
PROPERTY
    ImplementsByteChannel
    AcceptedIsDelivered
CHECK_DEADLOCK FALSE
