SPECIFICATION Spec
CONSTANTS
    h1 = h1
    h2 = h2
    Gateways = {g1, g2}
    Resolvers = {g1, r1}
    Clients = {c1, c2}
    Keys = {k1, k2}
    Hosts = {h1, h2}
    ServerLists <- MCServerLists
    HostLists <- MCHostLists
    Backups <- MCBackups
    MaxNumber = 1
    Admins = {a1, a2}
    Users = {u1, u2, u3}
INVARIANTS
    NeverLoops
    RoutesRestored
    EndpointsAreVouchedFor
    SerialEditsAreKept
    ReloadIsNotLost
PROPERTY
    ReloadDropsNobody
CHECK_DEADLOCK FALSE
