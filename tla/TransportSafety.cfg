SPECIFICATION TransportSpec
CONSTANTS
    DefaultWindow = 2
    FlushThreshold = 3
    MaxBuffer = 6
    HeaderSize = 1
    MaxId = 3
    MaxOpen = 1
    MaxFlight = 4
    PingSizes = {4}
    MayBreak = FALSE
    MaxPings = 1
INVARIANTS
    TypeOK
    CreditConserved
    RecvWindowExact
    OnlyPingsOverflow
    RemoteCloseIsFinal
    HandshakeFirst
CHECK_DEADLOCK FALSE
