SPECIFICATION FairSpec
CONSTANTS
    KeyLen = 3
    PrefixLen = 2
    MaxGarbage = 3
    NetCap = 3
    V1Len = 4
INVARIANTS
    ClientIsRecognised
    SpliceIsVerbatim
PROPERTY
    EveryPeerIsAnswered
CHECK_DEADLOCK FALSE
