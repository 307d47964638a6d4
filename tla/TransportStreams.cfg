SPECIFICATION TransportSpec
CONSTANTS
    DefaultWindow = 1
    FlushThreshold = 1
    MaxBuffer = 3
    HeaderSize = 1
    MaxId = 5
    MaxOpen = 1
    MaxFlight = 2
    PingSizes = {0}
    MayBreak = TRUE
    MaxPings = 0
INVARIANTS
    OnlyLateFramesRefused
PROPERTIES
    IdsNeverReused
CHECK_DEADLOCK FALSE
