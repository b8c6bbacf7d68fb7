SPECIFICATION FairSpec
CHECK_DEADLOCK FALSE
CONSTANTS
    Clients <- Two
    Name <- OwnName
    Chunks <- Pieces
    MaxConns = 2
    Cap = 3
    BufSize = 2
    MaxEvents = 2
    MaxFeeds = 2
    MaxFaults = 1
    MaxLeaves = 1
INVARIANTS
    SaidInOrder
    HeardInOrder
    NothingStranded
PROPERTIES
    Settles
