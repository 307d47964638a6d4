SPECIFICATION ServiceSpec
CONSTANTS
    Clients = {c1, c2}
    Tables = {t, meta}
    Reserved = meta
    Keys = {k1, k2}
    IdentityKey = k1
    Actions <- AllActions
    Seeded = {t, meta}
    Capacity = 1
    Faults <- DiskFaults
    MaxCalls = 3
SYMMETRY ClientSymmetry
INVARIANTS
    ServiceTypeOK
    LogRespectsRealTime
    LogIsHonest
    ReplayAgrees
    ResultsExplained
CHECK_DEADLOCK FALSE
