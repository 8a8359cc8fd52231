SPECIFICATION Spec
CONSTANTS
    Servers = {"a", "b"}  Workers = {"w1"}  MaxTasks = 3  MaxOrders = 5  MaxRefusals = 1
    Speakers = {"s1"}  BufferCap = 3  GapTolerance = 1  RestartJump = 1  PreBuffer = 2
    MixChunk = 1  RepriseAfter = 2  MaxSeq = 4  MaxFrame = 1  MaxPackets = 3  MaxSwaps = 2
    HoldFrames = 1  ChannelCap = 2  MaxFrames = 6  MaxCalls = 2
    FrameSize = 2  StaleFrames = 2  RingCap = 6  FeedCap = 5  Voices = {"v1", "v2"}  Enough = 3
    MinRamp = 2  MaxRamp = 3  SilentCallbacks = 2  Rates <- DeviceRates
    MaxRecorded = 8  MaxOpened = 2  MaxVoiced = 4
    UdpCap = 2  TcpCap = 2  CmdCap = 2  AudioCap = 2
INVARIANTS MicFollowsVoice  RecordedOnce IndicatorHonest SpeechEnds FramesCurrent
PROPERTY InboundNeverStarved
CHECK_DEADLOCK FALSE
