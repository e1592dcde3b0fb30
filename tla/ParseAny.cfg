CONSTANTS
    a = a
    b = b
    Client <- Two
    Cap = 3
    HeadSize = 2
    Chunk = 2
    MaxPos = 4
    MaxPacket = 3
    Layouts <- Mixed
    Garbage <- AnyGarbage
SPECIFICATION FairSpec
INVARIANTS BufferFits
PROPERTIES LoopEnds
CHECK_DEADLOCK FALSE
