CONSTANTS
    c1 = c1
    c2 = c2
    w1 = w1
    k1 = k1
    Socket <- SocketThree
    Conn <- ConnTwo
    Write <- NoWrite
    Caller <- CallerOne
    NextSize = 3
    MayReject = FALSE
    NoConn = NoConn
    NoSock = NoSock
    NoId = NoId
    NoPeerId = NoPeerId
    MaxQueue = 2
SPECIFICATION EngineSpec
SYMMETRY Symmetry
INVARIANTS OpenIsReachable PostedInOrder
PROPERTIES FeedSpec
