SPECIFICATION ExchangeSpec
CONSTANTS
    Kinds <- ResilientOnly
    MaxRetries = 3
    Outcomes <- Answered
    Faults <- NoFaults
    MaxRequests = 2
    MaxBreaks = 0
    MaxConnections = 2
INVARIANTS
    ConnectionIsReusable
CHECK_DEADLOCK FALSE
