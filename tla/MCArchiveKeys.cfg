SPECIFICATION FairSpec
CONSTANTS
  c1 = c1  c2 = c2  t1 = t1  t2 = t2
  Chans <- MCChans
  Tasks <- MCTasks
  MaxEvents = 2
  MaxKills = 1
  BridgeLoads = TRUE
INVARIANTS PeerKeyFresh 
PROPERTIES LoadingEnds
CHECK_DEADLOCK FALSE
