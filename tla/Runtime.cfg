SPECIFICATION FairSpec
CONSTANTS
    Publishers = {p1, p2}
    Threads = {r1, r2}
    None = None
    Capacity = 2
    Faults <- AllFaults
    MaxTasks = 3
    MaxPanics = 2
INVARIANTS
    TypeOK
    SingleRunner
    ExactlyOnceInOrder
    QueueAccounting
    RunnerCount
    GracefulStopDrains
PROPERTIES
    ImplementsSerialExecutor
    StoppedIsFinal
    AcceptedTasksRun
    CallsReturn
