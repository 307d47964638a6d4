SPECIFICATION ReadingSpec
CONSTANTS
    DefaultWindow = 1
    FlushThreshold = 4
    MaxBuffer = 7
    HeaderSize = 1
    MaxId = 3
    MaxOpen = 1
    MaxFlight = 2
    PingSizes = {0}
    MayBreak = TRUE
    MaxPings = 1
PROPERTIES
    CreditReturns
    HandshakeCompletes
    ResetReachesPeer
CHECK_DEADLOCK FALSE
