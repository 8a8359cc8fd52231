SPECIFICATION Spec
CONSTANTS
    MaxSessions = 2
    Discs = {d1}
    MaxSwitches = 1
    target <- MCTwo
INVARIANTS NeverHeadless ConnectedIsLive
CHECK_DEADLOCK FALSE
