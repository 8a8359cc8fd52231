SPECIFICATION Spec
CONSTANTS
    B = 6
    W = 3
    HiMod = 6
    Threshold = 2
    ResyncCap = 1
    WqCap = 1
    OutboundCap = 1
    Starts <- MCStarts
    NetCap = 1
    MaxFaults = 2
    RoundTrip = 2
    CoolPackets = 5
PROPERTY Recovers
CHECK_DEADLOCK FALSE
