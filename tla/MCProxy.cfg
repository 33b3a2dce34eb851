SPECIFICATION ProxySpec
CONSTANTS
    AckLen = 3
    MaxData = 2
    CopyBuf = 1
    Room = 2
    d1 = d1
    d2 = d2
    d3 = d3
    n1 = n1
    n2 = n2
    Dests = {d1, d2, d3}
    Targets = {n1, n2}
    Sockets = {s1, s2}
    Resolutions <- MCResolutions
    MaxDests = 2
    Idle = 1
INVARIANTS
    AnswerIsTruthful
    DataIsVerbatim
    FailsForAReason
    RecentAreKept
    RepliesAreNamed
PROPERTIES
    AsksAreAnswered
    ResetsEndBoth
    EndsTogether
CHECK_DEADLOCK FALSE
