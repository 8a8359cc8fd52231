SPECIFICATION FairSpec
CONSTANTS
    UdpCap = 1  TcpCap = 1  CmdCap = 1  AudioCap = 1  OutCap = 1
    MaxInbound = 1  MaxToggles = 2  MaxAudio = 0
    CommandLists <- MCCommandLists
    MayAbort = FALSE
PROPERTIES DisconnectHonoured LossNoticed ForceHonoured TasksEnd
CHECK_DEADLOCK FALSE
