SPECIFICATION HidFairSpec
CONSTANTS
    PayloadLen <- Lengths
    MaxPayload = 2
    MaxBoard = 0
    BadCmd = {}
    MaxFaults = 2
PROPERTY WriteReconnects
CHECK_DEADLOCK FALSE
