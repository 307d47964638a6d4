SPECIFICATION ReadingSpec
CONSTANTS
    DefaultWindow = 2
    FlushThreshold = 4
    MaxBuffer = 7
    HeaderSize = 1
    MaxId = 3
    MaxOpen = 1
    MaxFlight = 3
    PingSizes = {0}
    MayBreak = FALSE
    MaxPings = 0
PROPERTIES
    GrantReachesSender
CHECK_DEADLOCK FALSE
