SPECIFICATION ReadingWireSpec
CONSTANTS
    HeaderSize = 2
    MaxFrameSize = 7
    MaxBuffer = 6
    LengthModulus = 8
    Payloads <- Lengths
    MaxFrames = 3
PROPERTIES
    ImplementsFrameChannel
    FramesArrive
CHECK_DEADLOCK FALSE
