CONSTANTS
    c1 = c1
    c2 = c2
    w1 = w1
    k1 = k1
    Socket <- SocketTwo
    Conn <- ConnTwo
    Write <- WriteOne
    Caller <- CallerOne
    NextSize = 1
    MayReject = TRUE
    NoConn = NoConn
    NoSock = NoSock
    NoId = NoId
    NoPeerId = NoPeerId
SPECIFICATION Spec
SYMMETRY Symmetry
INVARIANTS PoolDisjoint ArmedIsClosed KeepsListening IdFromOwnSocket
