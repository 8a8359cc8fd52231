SPECIFICATION Spec
CONSTANTS
    B = 6
    W = 3
    HiMod = 6
    Threshold = 2
    ResyncCap = 1
    WqCap = 1
    OutboundCap = 1
    Starts <- MCStarts
    LastLap = 4
    MaxSent = 6
    MaxAnswers = 2
    Lag = 3
INVARIANTS NoReplay NeverAhead
PROPERTY DeliversOnce
CHECK_DEADLOCK FALSE
