CONSTANTS
    c1 = c1
    c2 = c2
    w1 = w1
    k1 = k1
    Socket <- SocketTwo
    Conn <- ConnOne
    Write <- NoWrite
    Caller <- CallerOne
    NextSize = 1
    MayReject = FALSE
    NoConn = NoConn
    NoSock = NoSock
    NoId = NoId
    NoPeerId = NoPeerId
    MaxQueue = 2
SPECIFICATION EngineSpec
INVARIANTS IdIsOfEvent
