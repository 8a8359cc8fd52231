SPECIFICATION Spec
CONSTANTS
    UdpCap = 1  TcpCap = 1  CmdCap = 1  AudioCap = 1  OutCap = 1
    MaxInbound = 3  MaxToggles = 2  MaxAudio = 1
    CommandLists <- MCCommandLists
    MayAbort = TRUE
INVARIANTS TransportAgrees NoOrphanReader
CHECK_DEADLOCK FALSE
