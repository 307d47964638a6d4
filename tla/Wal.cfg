SPECIFICATION WalSpec
CONSTANTS
    SyncOnFlush = TRUE
    Faults <- AllFaults
    MaxEntries = 5
    MaxBatch = 2
INVARIANTS
    AcknowledgedIsReplayed
    ReplayInOrder
    PositionExact
    CleanBetweenCalls
CHECK_DEADLOCK FALSE
