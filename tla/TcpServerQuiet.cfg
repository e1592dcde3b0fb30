CONSTANTS
    c1 = c1
    c2 = c2
    w1 = w1
    k1 = k1
    Socket <- SocketThree
    Conn <- ConnTwo
    Write <- NoWrite
    Caller <- CallerOne
    NextSize = 1
    MayReject = FALSE
    NoConn = NoConn
    NoSock = NoSock
    NoId = NoId
    NoPeerId = NoPeerId
SPECIFICATION FairSpec
INVARIANTS TypeOK OpenIsOwned OpenHasId StopClosesAll
PROPERTIES GoneIsReleased StopReturns
