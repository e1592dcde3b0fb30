CONSTANTS
    Writes = 2
    PacketSize = 2
    Expect = 2
    Timeouts <- OffOrOne
    MaxSent = 3
SPECIFICATION FairSpec
INVARIANTS TypeOK ReadsInOrder PacketsDoNotMix
PROPERTIES NoEarlyTimeout SilentReadEnds ClosedIsQuiet OpsSpec
CHECK_DEADLOCK FALSE
