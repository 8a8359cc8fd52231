SPECIFICATION Spec
CONSTANTS
    p1 = p1  p2 = p2  p3 = p3  k1 = k1  k2 = k2  me = me  None = None
    Me = me  Peers <- MCPeers  Keys <- MCKeys  Requests = {1}  Epochs = {1}
    Announces <- MCAnnounces  Lists <- MCLists  Founders <- MCFounders  MaxRequests = 1
    MaxMsgs = 2  MaxFetches = 1  MaxDrops = 1  MaxKeys = 2  ThreadCap = 1  StashCap = 1
SYMMETRY Symmetry
   
PROPERTIES  ConsensusSound
CHECK_DEADLOCK FALSE
