-------------------------- MODULE ServerWorkEngine --------------------------
(***************************************************************************)
(* server_work_engine over tlhh::tcp::server. The handlers that the server *)
(* calls from the acceptor thread and the io threads post lambdas to       *)
(* work_io_; one work thread runs them in order, calls the sink of the     *)
(* application and keeps users_map_. A lambda captures the socket, and     *)
(* reads its unique_id only when it runs. Nobody waits for the work thread, *)
(* so that the socket may by then be closed, or serve another connection.  *)
(***************************************************************************)
EXTENDS TcpServer, Sequences

CONSTANTS
    MaxQueue    \* bound: no chunk, failed accept or refusal is posted to a queue this long

ASSUME QueueAssumption == MaxQueue \in Nat \ {0}

VARIABLES
    workq,      \* lambdas posted to work_io_ and not begun
    wpc, wev,   \* the lambda being run: where it is, and the event it stands for
    users,      \* users_map_
    told, call  \* history: the callbacks made for each connection; the last one

workVars   == <<workq, wpc, wev, users, told, call>>
engineVars == <<vars, workVars>>

Id == Conn \cup {NoId, NoPeerId}

\* The event of a lambda: the handler that posted it, the socket it captured,
\* and the connection it is about (which the code does not keep).
Event(kind, s, c) == [kind |-> kind, sock |-> s, conn |-> c]

Events == [kind : {"accept", "recv", "close"}, sock : Socket, conn : Conn \cup {NoConn}]
NoEvent == Event("none", NoSock, NoConn)

EngineTypeOK ==
    /\ TypeOK
    /\ workq \in Seq(Events)
    /\ wpc \in {"idle", "find", "insert", "packet"}
    /\ wev \in Events \cup {NoEvent}
    /\ users \in [Id -> Socket \cup {NoSock}]
    /\ told \in [Conn -> {"never", "open", "closed", "confused"}]
    /\ call.kind \in {"none", "connected", "read", "disconnected"} /\ call.id \in Id

EngineInit ==
    /\ Init
    /\ workq = <<>> /\ wpc = "idle" /\ wev = NoEvent
    /\ users = [id \in Id |-> NoSock]
    /\ told = [c \in Conn |-> "never"]
    /\ call = [kind |-> "none", id |-> NoId, conn |-> NoConn]

-----------------------------------------------------------------------------
(* The handlers given to the server: each posts a lambda.                  *)

\* Mutant of Post: lambdas are not run in the order they are posted.
PostFirst(e) ==
    /\ workq' = <<e>> \o workq
    /\ UNCHANGED <<wpc, wev, users, told, call>>

Post(e) ==
    /\ workq' = Append(workq, e)
    /\ UNCHANGED <<wpc, wev, users, told, call>>

HasRoom == Len(workq) < MaxQueue

\* accept_handler_; the lambda of a failed accept returns at once.
PostAccept ==
    /\ AcceptNotify
    /\ IF hconn = NoConn THEN UNCHANGED workVars
                         ELSE Post(Event("accept", hsock, hconn))

\* recv_handler_ with a copy of the chunk received.
PostRecv(c) ==
    /\ HandlerRead(c) /\ HasRoom
    /\ Post(Event("recv", sk[c], on[c]))

\* Mutant of PostClose: handler_read, which goes on to call recv_handler_,
\* posts a chunk although the read failed.
PostCloseAndRecv ==
    \/ /\ AcceptClose /\ HasRoom
       /\ Post(Event("close", hsock, NoConn))
    \/ \E x \in Chain :
           /\ HandlerClose(x)
           /\ workq' = workq \o <<Event("close", sk[x], on[x]), Event("recv", sk[x], on[x])>>
           /\ UNCHANGED <<wpc, wev, users, told, call>>


\* close_handler_, called by free_client before it frees the socket.
PostClose ==
    \/ /\ AcceptClose /\ HasRoom
       /\ Post(Event("close", hsock, NoConn))
    \/ \E x \in Chain : HandlerClose(x) /\ Post(Event("close", sk[x], on[x]))

-----------------------------------------------------------------------------
(* The work thread.                                                        *)

\* The sink is called with an id, in a lambda about connection c. A callback out of
\* its turn leaves the connection confused.
Callback(kind, id, c) ==
    /\ call' = [kind |-> kind, id |-> id, conn |-> c]
    /\ told' = IF c \notin Conn THEN told
               ELSE [told EXCEPT ![c] =
                   CASE kind = "connected" /\ @ = "never" -> "open"
                     [] kind = "read" /\ @ = "open" -> "open"
                     [] kind = "disconnected" /\ @ = "open" -> "closed"
                     [] OTHER -> "confused"]

\* The next lambda starts when the work thread is done with the last one.
Take(kind) ==
    /\ wpc = "idle" /\ appSt = "idle"
    /\ workq # <<>> /\ Head(workq).kind = kind
    /\ workq' = Tail(workq)

\* The accept lambda reads unique_id for the sink ...
WConnected ==
    /\ Take("accept")
    /\ wpc' = "find" /\ wev' = Head(workq)
    /\ Callback("connected", uid[wev'.sock], wev'.conn)
    /\ UNCHANGED <<users, vars>>

\* ... again to look it up in users_map_ ...
WFind ==
    /\ wpc = "find"
    /\ IF users[uid[wev.sock]] = NoSock
       THEN wpc' = "insert" /\ UNCHANGED wev
       ELSE wpc' = "idle" /\ wev' = NoEvent
    /\ UNCHANGED <<workq, users, told, call, vars>>

\* Mutant of WInsert: the lambda captured the acceptor's client by reference.
WInsertReference ==
    /\ wpc = "insert"
    /\ users' = [users EXCEPT ![uid[wev.sock]] = acceptSock]
    /\ wpc' = "idle" /\ wev' = NoEvent
    /\ UNCHANGED <<workq, told, call, vars>>

\* ... and again to insert it.
WInsert ==
    /\ wpc = "insert"
    /\ users' = [users EXCEPT ![uid[wev.sock]] = wev.sock]
    /\ wpc' = "idle" /\ wev' = NoEvent
    /\ UNCHANGED <<workq, told, call, vars>>

\* The close lambda reads unique_id once.
WDisconnected ==
    /\ Take("close")
    /\ LET id == uid[Head(workq).sock] IN
           /\ Callback("disconnected", id, Head(workq).conn)
           /\ users' = [users EXCEPT ![id] = NoSock]
    /\ UNCHANGED <<wpc, wev, vars>>

\* The recv lambda gives its chunk to the parser.
WRecv ==
    /\ Take("recv")
    /\ wpc' = "packet" /\ wev' = Head(workq)
    /\ UNCHANGED <<users, told, call, vars>>

\* The parser finds a packet, which the sink accepts ...
WPacket ==
    /\ wpc = "packet" /\ appSt = "idle"
    /\ UNCHANGED <<wpc, wev, workq, users, vars>>
    /\ Callback("read", uid[wev.sock], wev.conn)

\* ... or refuses: the work thread calls free_client and goes on with the chunk.
WRefuse ==
    /\ wpc = "packet" /\ HasRoom /\ AppReject(wev.sock)
    /\ workq' = Append(workq, Event("close", wev.sock, wev.conn))
    /\ UNCHANGED <<wpc, wev, users>>
    /\ Callback("read", uid[wev.sock], wev.conn)

\* The parser throws: the work thread calls free_client and the lambda ends.
WThrow ==
    /\ wpc = "packet" /\ HasRoom /\ AppReject(wev.sock)
    /\ workq' = Append(workq, Event("close", wev.sock, wev.conn))
    /\ wpc' = "idle" /\ wev' = NoEvent
    /\ UNCHANGED <<users, told, call>>

\* The parser has no complete packet left.
WRecvEnd ==
    /\ wpc = "packet" /\ appSt = "idle"
    /\ wpc' = "idle" /\ wev' = NoEvent
    /\ UNCHANGED <<workq, users, told, call, vars>>

\* send_data writes to the socket that users_map_ has for the id.
SendData(w, id) ==
    /\ wpc \in {"idle", "packet"} /\ users[id] # NoSock
    /\ AppWrite(w, users[id])
    /\ UNCHANGED workVars

-----------------------------------------------------------------------------
\* Steps of the server that reach no handler of the engine.
Silent ==
    \/ \E k \in Caller :
           \/ Start(k) \/ StopFlag(k) \/ StopCancel(k) \/ JoinAcceptor(k) \/ CloseAll(k) \/ JoinIo(k)
    \/ \E c \in Conn : AcceptOk(c) \/ PeerClose(c) \/ Rearm(c)
    \/ AcceptAborted \/ AcceptError \/ AcceptId \/ AcceptFree
    \/ AcceptReset \/ AcceptStopped \/ (\E s \in Socket : AcceptGet(s)) \/ AcceptArm \/ AcceptRead
    \/ \E x \in Chain : OpDone(x) \/ OpFail(x) \/ HandlerFree(x) \/ HandlerReset(x)
    \/ \E w \in Write : HandlerWrite(w)
    \/ AppFree \/ AppReset

WorkNext ==
    \/ WConnected \/ WFind \/ WInsert \/ WDisconnected
    \/ WRecv \/ WPacket \/ WRefuse \/ WThrow \/ WRecvEnd

EngineNext ==
    \/ Silent /\ UNCHANGED workVars
    \/ PostAccept \/ PostClose \/ (\E c \in Conn : PostRecv(c))
    \/ WorkNext
    \/ \E w \in Write, id \in Id : SendData(w, id)

EngineSpec == EngineInit /\ [][EngineNext]_engineVars

\* The fairness of the server, and of the work thread, which finds finitely
\* many packets in a chunk. work_io_ takes any number of lambdas: a chunk that
\* MaxQueue holds up is posted in the end (SF), although accepts that fail may
\* go on filling the queue.
EngineFairness ==
    /\ WF_engineVars(EngineNext /\ (AcceptAborted \/ HandlerNext))
    /\ \A x \in Chain :
           /\ WF_engineVars(EngineNext /\ ChainNext(x))
           /\ SF_engineVars(EngineNext /\ HandlerFree(x))
    /\ \A c \in Conn : SF_engineVars(PostRecv(c))
    /\ WF_engineVars(WConnected \/ WFind \/ WInsert \/ WDisconnected \/ WRecv)
    /\ WF_engineVars(WRecvEnd)
    /\ WF_engineVars(EngineNext /\ (AppFree \/ AppReset))

EngineFairSpec == EngineSpec /\ EngineFairness

-----------------------------------------------------------------------------
\* README.md:4: the logic runs in a single thread to avoid the problems of
\* several threads. The id that it reads for an event is the id of the
\* connection of the event.
IdIsOfEvent ==
    call.id # NoPeerId => call.id = (IF call.conn = NoConn THEN NoId ELSE call.conn)

\* The lambdas posted and not finished, the one being run first.
Pending == IF wev = NoEvent THEN workq ELSE <<wev>> \o workq

\* When no packet is refused, the events of a connection wait in their order:
\* its accept first, then its chunks, then its only close, although they are
\* posted by two threads.
PostedInOrder ==
    \A i, j \in DOMAIN Pending :
        i < j /\ Pending[i].conn = Pending[j].conn /\ Pending[i].conn # NoConn
            => Pending[i].kind # "close" /\ Pending[j].kind # "accept"

\* users_map_ maps the id of a connection to the socket that accepted it.
UsersOwnSocket == \A c \in Conn : users[c] # NoSock => users[c] = sk[c]

\* Once the accept lambda of a connection has run, and until its close lambda or
\* the reset of its socket, send_data finds the connection in users_map_, although
\* lambdas of earlier connections of the socket may have run late, read its id, and
\* inserted it or erased it before.
OpenIsReachable ==
    \A c \in Conn :
        /\ told[c] = "open" /\ uid[sk[c]] = c
        /\ ~(wpc \in {"find", "insert"} /\ wev.conn = c)
        => users[c] = sk[c]


\* The callbacks of the work thread are those of the abstract feed.
Feed == INSTANCE ConnectionFeed

FeedSpec == Feed!Spec
=============================================================================
