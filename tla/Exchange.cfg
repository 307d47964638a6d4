SPECIFICATION FairExchange
CONSTANTS
    Kinds <- BothClients
    MaxRetries = 1
    Outcomes <- Mixed
    Faults <- Refusals
    MaxRequests = 2
    MaxBreaks = 2
    MaxConnections = 6
INVARIANTS
    RepliesMatch
    ExecutionsBounded
    FaultlessExactlyOnce
PROPERTIES
    SendReturns
    TasksEnd
CHECK_DEADLOCK FALSE
