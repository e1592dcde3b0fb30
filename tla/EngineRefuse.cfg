CONSTANTS
    c1 = c1
    c2 = c2
    w1 = w1
    k1 = k1
    Socket <- SocketTwo
    Conn <- ConnTwo
    Write <- NoWrite
    Caller <- CallerOne
    NextSize = 2
    MayReject = TRUE
    NoConn = NoConn
    NoSock = NoSock
    NoId = NoId
    NoPeerId = NoPeerId
    MaxQueue = 2
SPECIFICATION EngineSpec
SYMMETRY Symmetry
VIEW NoHistory
INVARIANTS UsersOwnSocket
CONSTRAINT Unstopped
