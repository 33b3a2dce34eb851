SPECIFICATION FairSpec
CONSTANTS
    Ips = {ip1, ip2}
    FailWindow = 2
    MaxFails = 2
    TarpitDuration = 2
    Conns = {c1, c2}
    Uuids = {u1}
    MaxAccepts = 4
INVARIANTS
    ActiveIsExact
    LateProbesAreBounded
PROPERTIES
    ImplementsProbePolicy
    ProbesAreReleased
CHECK_DEADLOCK FALSE
