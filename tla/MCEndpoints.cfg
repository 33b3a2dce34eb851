SPECIFICATION FairSpec
CONSTANTS
    Uri <- MCUri
    Threshold = 3
    Demotion = 2
    Tasks = {t1, t2}
INVARIANTS
    DemotedIsFailing
PROPERTIES
    StartsWell
    EveryConnectEnds
CHECK_DEADLOCK FALSE
