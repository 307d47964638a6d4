SPECIFICATION ServiceSpec
CONSTANTS
    Clients = {c1, c2}
    Tables = {t, meta}
    Reserved = meta
    Keys = {k}
    IdentityKey = k
    Actions <- Mutations
    Seeded = {t, meta}
    Capacity = 1
    Faults <- NoFaults
    MaxCalls = 2
INVARIANTS
    OneEntryPerMutation
CHECK_DEADLOCK FALSE
