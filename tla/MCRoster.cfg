SPECIFICATION Spec
CONSTANTS
    Channels = {"c0", "c1"}  Chans = {"c0", "c1"}  Peers = {"p1", "p2"}
    MaxCommands = 2  MaxMoves = 2  MaxTexts = 1
    Marks = {"r1"}  Posts = {"m1"}  Names = {"n1", "n2"}  MaxChanges = 5  MaxStream = 3
INVARIANTS   ViewedIsRead AnnotationsFollow
PROPERTY ReaderNamed
CHECK_DEADLOCK FALSE
