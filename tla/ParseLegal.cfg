CONSTANTS
    a = a
    b = b
    Client <- One
    Cap = 6
    HeadSize = 2
    Chunk = 3
    MaxPos = 12
    MaxPacket = 4
    Layouts <- Legal
    Garbage <- NoGarbage
SPECIFICATION Spec
INVARIANTS NothingLost NoThrow PacketsIntact
CHECK_DEADLOCK FALSE
