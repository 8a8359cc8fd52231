SPECIFICATION Spec
CONSTANTS
    Peers = {2}  Channels = {0, 1}  Versions = {0, 14, 20}  MaxSteps = 4  InFlight = 1
    Outgoing <- StreamMessages  MaxMessages = 2
    Uploads = {"u1", "u2", "u3"}  Quiet = {"u3"}  Pieces = 2  Downloads = {"d1", "d2"}  MaxTickets = 3
    Chats = {"c1"}  MaxStored = 5  MaxPage = 2
    Tabs = {"t1", "t2"}  Deletions = {"d1", "d2"}  MaxAcks = 2
INVARIANTS ViewFollowsServer AudienceIsChannel StreamExact StaysAtHome PayloadsSurvive PagesUnbroken CancelReaches
CHECK_DEADLOCK FALSE
