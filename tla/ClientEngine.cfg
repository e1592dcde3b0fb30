CONSTANTS
    w1 = w1
    w2 = w2
    Write <- WriteTwo
    MaxSession = 2
    MaxChunk = 2
SPECIFICATION FairSpec
INVARIANTS InSession
PROPERTIES SilentWhenOut DisConnectReturns GoneIsClosed
