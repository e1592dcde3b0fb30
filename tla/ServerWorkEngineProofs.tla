----------------------- MODULE ServerWorkEngineProofs -----------------------
(***************************************************************************)
(* What server_work_engine guarantees for every number of sockets,         *)
(* connections, writes and control threads, and every length of work_io_.  *)
(***************************************************************************)
EXTENDS ServerWorkEngine, TcpServerQuietProofs, SequenceTheorems

USE DEF Chain

(* The engine runs the server.                                             *)

\* The sockets that the application was given are sockets of the pool.
LEMMA HandedSockets == TypeInv => Handed \subseteq Socket
BY DEF TypeInv, Shape, Handed

\* What the engine does to the server, the server can do.
LEMMA EngineStep == TypeInv /\ [EngineNext]_engineVars => [Next]_vars
<1> SUFFICES ASSUME TypeInv, [EngineNext]_engineVars PROVE [Next]_vars
  OBVIOUS
<1>1. CASE Silent
  <2>1. ASSUME NEW k \in Caller,
               \/ Start(k) \/ StopFlag(k) \/ StopCancel(k) \/ JoinAcceptor(k) \/ JoinIo(k)
               \/ CloseAll(k)
        PROVE  Next
    BY <2>1 DEF Next, ControlNext
  <2>2. ASSUME NEW c \in Conn, AcceptOk(c) \/ PeerClose(c) \/ Rearm(c)
        PROVE  Next
    BY <2>2 DEF Next, ChainNext
  <2>3. ASSUME \/ AcceptAborted \/ AcceptError \/ AcceptId \/ AcceptFree
               \/ AcceptReset \/ AcceptStopped \/ (\E s \in Socket : AcceptGet(s)) \/ AcceptArm \/ AcceptRead
        PROVE  Next
    BY <2>3 DEF Next, HandlerNext
  <2>4. ASSUME NEW x \in Chain, OpDone(x) \/ OpFail(x) \/ HandlerReset(x) \/ HandlerFree(x)
        PROVE  Next
    BY <2>4 DEF Next, ChainNext
  <2>5. ASSUME NEW w \in Write, HandlerWrite(w)
        PROVE  Next
    BY <2>5 DEF Next, ChainNext
  <2>6. ASSUME AppFree \/ AppReset
        PROVE  Next
    BY <2>6 DEF Next, AppNext
  <2> QED
    BY <1>1, <2>1, <2>2, <2>3, <2>4, <2>5, <2>6 DEF Silent
<1>2. CASE PostAccept \/ PostClose \/ \E c \in Conn : PostRecv(c)
  BY <1>2 DEF PostAccept, PostClose, PostRecv, Next, HandlerNext, ChainNext
<1>3. CASE WorkNext
  <2>1. CASE WRefuse \/ WThrow
    BY <2>1, HandedSockets DEF WRefuse, WThrow, AppReject, Next, AppNext
  <2>2. CASE ~(WRefuse \/ WThrow)
    BY <1>3, <2>2 DEF WorkNext, WConnected, WFind, WInsert, WDisconnected, WRecv, WPacket, WRecvEnd
  <2> QED
    BY <2>1, <2>2
<1>4. ASSUME NEW w \in Write, NEW id \in Id, SendData(w, id)
      PROVE  Next
  BY <1>4, HandedSockets DEF SendData, AppWrite, Next, AppNext
<1>5. CASE UNCHANGED engineVars
  BY <1>5 DEF engineVars
<1> QED
  BY <1>1, <1>2, <1>3, <1>4, <1>5 DEF EngineNext

\* Under the engine the server behaves as TcpServer says, so that each theorem
\* of TcpServer holds of the server that the engine drives.
THEOREM EngineIsServer == EngineSpec => Spec
<1>1. EngineInit => TypeInv /\ Init
  BY TypeInit DEF EngineInit
<1>2. TypeInv /\ [EngineNext]_engineVars => [Next]_vars /\ TypeInv'
  BY EngineStep, TypeStep
<1> QED
  BY <1>1, <1>2, PTL DEF EngineSpec, Spec

-----------------------------------------------------------------------------
(* Types, and the users of the map.                                        *)

\* The lambda being run.
Running ==
    /\ wpc = "idle" <=> wev = NoEvent
    /\ wpc \in {"find", "insert"} => wev.kind = "accept"
    /\ wpc = "packet" => wev.kind = "recv"

\* The variables of the work thread.
WorkTypeOK ==
    /\ workq \in Seq(Events)
    /\ wpc \in {"idle", "find", "insert", "packet"}
    /\ wev \in Events \cup {NoEvent}
    /\ users \in [Id -> Socket \cup {NoSock}]
    /\ told \in [Conn -> {"never", "open", "closed", "confused"}]
    /\ call.kind \in {"none", "connected", "read", "disconnected"} /\ call.id \in Id

EngineInv == SafeInv /\ WorkTypeOK /\ Running /\ UsersOwnSocket

LEMMA EngineStart == EngineInit => EngineInv
<1> SUFFICES ASSUME EngineInit PROVE EngineInv
  OBVIOUS
<1>1. WorkTypeOK /\ Running /\ UsersOwnSocket
  BY SMTT(30) DEF EngineInit, WorkTypeOK, Running, UsersOwnSocket, Id, NoEvent, Event
<1> QED
  BY <1>1, SafeInit DEF EngineInit, EngineInv

\* An event given by Head is a posted one, and Tail leaves posted ones.
LEMMA TakeType ==
    ASSUME WorkTypeOK, NEW kind, Take(kind)
    PROVE  /\ Head(workq) \in Events /\ Head(workq).kind = kind /\ Head(workq) # NoEvent
           /\ Tail(workq) \in Seq(Events)
           /\ workq' = Tail(workq)
           /\ wpc = "idle"
<1>1. workq \in Seq(Events) /\ workq # <<>>
  BY DEF WorkTypeOK, Take
<1>2. Head(workq) \in Events /\ Tail(workq) \in Seq(Events)
  BY <1>1, HeadTailProperties
<1> QED
  BY <1>2 DEF Take, Events, NoEvent, Event

LEMMA PostType ==
    ASSUME WorkTypeOK, NEW e \in Events, Post(e)
    PROVE  WorkTypeOK'
<1>1. Append(workq, e) \in Seq(Events)
  BY AppendProperties DEF WorkTypeOK
<1> QED
  BY <1>1 DEF Post, WorkTypeOK

\* A callback tells of the connection it is about only.
LEMMA CallbackType ==
    ASSUME WorkTypeOK, NEW kind \in {"connected", "read", "disconnected"}, NEW id \in Id, NEW c,
           Callback(kind, id, c)
    PROVE  /\ told' \in [Conn -> {"never", "open", "closed", "confused"}]
           /\ call'.kind = kind /\ call'.id = id
BY DEF Callback, WorkTypeOK

\* The events posted.
LEMMA PostedTypes ==
    ASSUME TypeInv
    PROVE  /\ hpc = "notify" /\ hconn # NoConn => Event("accept", hsock, hconn) \in Events
           /\ hpc = "failed" => Event("close", hsock, NoConn) \in Events
           /\ \A x \in Chain, kind \in {"recv", "close"} : st[x] # "none" => Event(kind, sk[x], on[x]) \in Events
           /\ \A kind \in {"recv", "close"} :
                  wev \in Events => Event(kind, wev.sock, wev.conn) \in Events
BY DEF TypeInv, TypeOK, Shape, Event, Events

LEMMA IdType == ASSUME TypeInv, NEW s \in Socket PROVE uid[s] \in Id
BY DEF TypeInv, TypeOK, Id

\* Only the accept of a connection gives it a socket.
LEMMA SocketOfConn ==
    ASSUME TypeInv, [Next]_vars, NEW c \in Conn, sk'[c] # sk[c]
    PROVE  \E d \in Conn : AcceptOk(d)
<1> USE DEF vars, ctlVars, chainVars
<1>1. ASSUME UNCHANGED sk PROVE FALSE
  BY <1>1
<1>2. CASE \/ \E k \in Caller : ControlNext(k)
           \/ AcceptAborted \/ AcceptError \/ HandlerNext \/ UNCHANGED vars
           \/ \E d \in Conn : PeerClose(d)
  BY <1>1, <1>2 DEF ControlNext, HandlerNext, Start, StopFlag, StopCancel, JoinAcceptor, CloseAll, JoinIo,
     AcceptAborted, AcceptError, AcceptId, AcceptClose, AcceptFree, AcceptReset, AcceptStopped, AcceptGet,
     AcceptArm, AcceptNotify, AcceptRead, PeerClose
<1>3. ASSUME NEW x \in Chain, OpDone(x) \/ ChainNext(x) PROVE FALSE
  BY <1>1, <1>3 DEF ChainNext, OpDone, OpFail, HandlerRead, Rearm, HandlerWrite, HandlerClose, HandlerFree,
     HandlerReset
<1>4. CASE AppNext
  <2>1. ASSUME NEW w \in Write, NEW s, AppWrite(w, s) PROVE FALSE
    <3>1. c # w
      BY ConnAssumption
    <3> QED
      BY <2>1, <3>1 DEF AppWrite, TypeInv, TypeOK
  <2> QED
    BY <1>1, <1>4, <2>1 DEF AppNext, AppReject, AppFree, AppReset
<1> QED
  BY <1>2, <1>3, <1>4 DEF Next

LEMMA EngineNextStep == EngineInv /\ [EngineNext]_engineVars => EngineInv'
<1> SUFFICES ASSUME EngineInv, [EngineNext]_engineVars PROVE EngineInv'
  OBVIOUS
<1>s. SafeInv /\ TypeInv /\ WorkTypeOK /\ Running /\ UsersOwnSocket
  BY DEF EngineInv, SafeInv
<1>t. /\ users \in [Id -> Socket \cup {NoSock}] /\ Conn \subseteq Id /\ wev \in Events \cup {NoEvent}
      /\ wev # NoEvent => wev.sock \in Socket
  BY <1>s DEF WorkTypeOK, Id, Events
<1>1. [Next]_vars /\ SafeInv'
  BY <1>s, EngineStep, SafeStep
<1>2. \A c \in Conn : users[c] # NoSock => sk'[c] = sk[c]
  <2>1. ASSUME NEW d \in Conn, AcceptOk(d)
        PROVE  sk[d] = NoSock /\ \A c \in Conn : c # d => sk'[c] = sk[c]
    BY <2>1, <1>s DEF AcceptOk, SafeInv, Fresh, TypeInv, TypeOK
  <2> QED
    BY <2>1, <1>1, <1>s, SocketOfConn DEF UsersOwnSocket
<1>3. ASSUME UNCHANGED users PROVE UsersOwnSocket'
  BY <1>2, <1>3, <1>s DEF UsersOwnSocket
<1>4. ASSUME UNCHANGED workVars PROVE WorkTypeOK' /\ Running' /\ UsersOwnSocket'
  BY <1>4, <1>3, <1>s DEF workVars, WorkTypeOK, Running
<1>5. ASSUME NEW e \in Events, Post(e) PROVE WorkTypeOK' /\ Running' /\ UsersOwnSocket'
  BY <1>5, <1>3, <1>s, PostType DEF Post, Running
<1>6. CASE PostAccept \/ PostClose \/ \E c \in Conn : PostRecv(c)
  <2>1. CASE PostAccept
    BY <2>1, <1>1, <1>4, <1>5, <1>s, PostedTypes DEF PostAccept, AcceptNotify, EngineInv
  <2>2. CASE PostClose
    BY <2>2, <1>1, <1>5, <1>s, PostedTypes DEF PostClose, AcceptClose, HandlerClose, Step, EngineInv
  <2>3. ASSUME NEW c \in Conn, PostRecv(c) PROVE EngineInv'
    BY <2>3, <1>1, <1>5, <1>s, PostedTypes DEF PostRecv, HandlerRead, Step, EngineInv
  <2> QED
    BY <1>6, <2>1, <2>2, <2>3
<1>7. CASE WConnected
  <2>1. Take("accept") /\ wpc' = "find" /\ wev' = Head(workq) /\ UNCHANGED users
        /\ Callback("connected", uid[wev'.sock], wev'.conn)
    BY <1>7 DEF WConnected
  <2>2. wev' \in Events /\ wev' # NoEvent /\ wev'.kind = "accept" /\ wev'.sock \in Socket
        /\ workq' \in Seq(Events)
    BY <2>1, <1>s, TakeType DEF Events
  <2>3. uid[wev'.sock] \in Id
    BY <2>2, <1>s, IdType
  <2>4. told' \in [Conn -> {"never", "open", "closed", "confused"}]
        /\ call'.kind = "connected" /\ call'.id \in Id
    BY <2>1, <2>3, <1>s, CallbackType
  <2> QED
    BY <2>1, <2>2, <2>4, <1>1, <1>3, <1>s DEF EngineInv, WorkTypeOK, Running
<1>8. CASE WFind
  BY <1>8, <1>1, <1>3, <1>s DEF WFind, EngineInv, WorkTypeOK, Running
<1>9. CASE WInsert
  <2>1. uid[wev.sock] \in Id /\ wev.sock \in Socket /\ wev # NoEvent
    BY <1>9, <1>s, <1>t, IdType DEF WInsert, Running
  <2>2. users' \in [Id -> Socket \cup {NoSock}]
        /\ \A c \in Conn : users'[c] # users[c] => c = uid[wev.sock] /\ users'[c] = wev.sock
    BY <1>9, <2>1, <1>t DEF WInsert
  <2>3. UsersOwnSocket'
    BY <1>2, <1>9, <2>1, <2>2, <1>s DEF WInsert, UsersOwnSocket, SafeInv, IdFromOwnSocket, vars, chainVars
  <2> QED
    BY <1>9, <2>2, <2>3, <1>1, <1>s DEF WInsert, EngineInv, WorkTypeOK, Running
<1>10. CASE WDisconnected
  <2> DEFINE e == Head(workq)
  <2>1. Take("close") /\ UNCHANGED <<wpc, wev>>
        /\ Callback("disconnected", uid[e.sock], e.conn)
        /\ users' = [users EXCEPT ![uid[e.sock]] = NoSock]
    BY <1>10 DEF WDisconnected
  <2>2. e.sock \in Socket /\ workq' \in Seq(Events)
    BY <2>1, <1>s, TakeType DEF Events
  <2>3. uid[e.sock] \in Id
    BY <2>2, <1>s, IdType
  <2> HIDE DEF e
  <2>4. told' \in [Conn -> {"never", "open", "closed", "confused"}]
        /\ call'.kind = "disconnected" /\ call'.id \in Id
    BY <2>1, <2>3, <1>s, CallbackType
  <2>5. users' \in [Id -> Socket \cup {NoSock}]
        /\ \A c \in Conn : users'[c] \in {users[c], NoSock}
    BY <2>1, <2>3, <1>t
  <2>6. UsersOwnSocket'
    BY <1>2, <2>5, <1>s DEF UsersOwnSocket
  <2> QED
    BY <2>1, <2>2, <2>4, <2>5, <2>6, <1>1, <1>s DEF EngineInv, WorkTypeOK, Running
<1>11. CASE WRecv
  <2>1. Take("recv") /\ wpc' = "packet" /\ wev' = Head(workq) /\ UNCHANGED <<users, told, call>>
    BY <1>11 DEF WRecv
  <2>2. wev' \in Events /\ wev' # NoEvent /\ wev'.kind = "recv" /\ workq' \in Seq(Events)
    BY <2>1, <1>s, TakeType DEF Events
  <2> QED
    BY <2>1, <2>2, <1>1, <1>3, <1>s DEF EngineInv, WorkTypeOK, Running
<1>12. ASSUME wpc = "packet", Callback("read", uid[wev.sock], wev.conn)
       PROVE  told' \in [Conn -> {"never", "open", "closed", "confused"}]
              /\ call'.kind = "read" /\ call'.id \in Id
  <2>1. uid[wev.sock] \in Id
    BY <1>12, <1>s, <1>t, IdType DEF Running
  <2> QED
    BY <1>12, <2>1, <1>s, CallbackType
<1>13. CASE WPacket
  BY <1>13, <1>12, <1>1, <1>3, <1>s DEF WPacket, EngineInv, WorkTypeOK, Running
<1>14. CASE WRefuse \/ WThrow
  <2>1. Append(workq, Event("close", wev.sock, wev.conn)) \in Seq(Events)
    BY <1>14, <1>s, <1>t, PostedTypes, AppendProperties DEF WRefuse, WThrow, Running, WorkTypeOK
  <2>2. CASE WRefuse
    BY <2>1, <2>2, <1>12, <1>1, <1>3, <1>s DEF WRefuse, EngineInv, WorkTypeOK, Running
  <2>3. CASE WThrow
    BY <2>1, <2>3, <1>1, <1>3, <1>s DEF WThrow, EngineInv, WorkTypeOK, Running
  <2> QED
    BY <1>14, <2>2, <2>3
<1>15. CASE WRecvEnd
  BY <1>15, <1>1, <1>3, <1>s DEF WRecvEnd, EngineInv, WorkTypeOK, Running
<1>16. CASE UNCHANGED workVars
  BY <1>16, <1>1, <1>4 DEF EngineInv
<1> QED
  BY <1>6, <1>7, <1>8, <1>9, <1>10, <1>11, <1>13, <1>14, <1>15, <1>16
     DEF EngineNext, WorkNext, SendData, engineVars

\* The variables of the engine have their types.
THEOREM EngineTypeCorrect == EngineSpec => []EngineTypeOK
<1>1. EngineInv => EngineTypeOK
  BY DEF EngineInv, SafeInv, TypeInv, WorkTypeOK, EngineTypeOK
<1> QED
  BY <1>1, EngineStart, EngineNextStep, PTL DEF EngineSpec

\* The lambdas read the unique_id of a socket late, perhaps when the socket
\* serves another connection already; users_map_ nevertheless never maps the id
\* of a connection to a socket that did not accept that connection, so that
\* send_data cannot reach another client.
THEOREM UsersCorrect == EngineSpec => []UsersOwnSocket
<1>1. EngineInv => UsersOwnSocket
  BY DEF EngineInv
<1> QED
  BY <1>1, EngineStart, EngineNextStep, PTL DEF EngineSpec

-----------------------------------------------------------------------------
(* The order of the events, when no packet is refused and none is sent.    *)

Waiting == {workq[i] : i \in DOMAIN workq}

\* The events posted and not finished.
Live == {e \in Events : e \in Waiting \/ e = wev}

\* The accept handler has been called for the connection; its read chain has
\* failed or ended.
Notified(c) == st[c] # "none" \/ (hconn = c /\ hpc = "read")
Ended(c) == st[c] \in {"free", "reset", "done"}

\* A chain of reads works for its own connection, ...
OwnReads == \A c \in Conn : st[c] \in {"pending", "ready", "rearm", "failed"} => on[c] = c

\* ... an event was posted by the handler that the connection had reached, and
\* only a failed accept is about no connection, ...
CausedEvent(e) ==
    /\ e.conn = NoConn => e.kind = "close"
    /\ e.conn # NoConn => e.sock = sk[e.conn] /\ Notified(e.conn)
    /\ e.conn # NoConn /\ e.kind = "close" => Ended(e.conn)

Caused == \A e \in Live : CausedEvent(e)

\* ... and two of the same connection are in order.
InOrderInQueue ==
    \A i, j \in DOMAIN workq :
        i < j /\ workq[i].conn = workq[j].conn /\ workq[i].conn # NoConn
            => workq[i].kind # "close" /\ workq[j].kind # "accept"

RunBefore ==
    \A e \in Waiting : wev # NoEvent /\ e.conn = wev.conn /\ e.conn # NoConn => e.kind # "accept"

OrderInv == OwnInv /\ EngineInv /\ OwnReads /\ Caused /\ InOrderInQueue /\ RunBefore


\* How a chain of reads goes on.
Goes(c) ==
    \/ UNCHANGED <<st[c], on[c]>>
    \/ hpc = "read" /\ hconn = c /\ BeginOp(c, hsock)
    \/ st[c] = "rearm" /\ BeginOp(c, sk[c])
    \/ /\ <<st[c], st'[c]>> \in {<<"pending", "ready">>, <<"pending", "failed">>, <<"ready", "rearm">>,
               <<"failed", "free">>, <<"free", "reset">>, <<"free", "done">>, <<"reset", "done">>}
       /\ on'[c] = on[c]

LEMMA ChainGoes ==
    ASSUME Quiet, TypeInv, [Next]_vars, NEW c \in Conn
    PROVE  Goes(c)
<1> USE DEF Goes, vars, ctlVars, chainVars
<1>q. Write = {} /\ MayReject = FALSE
  BY DEF Quiet
<1>t. /\ st \in [Chain -> {"none", "pending", "ready", "rearm", "failed", "free", "reset", "done"}]
      /\ on \in [Chain -> Conn \cup {NoConn}] /\ c \in Chain
  BY DEF TypeInv, TypeOK
<1>1. CASE UNCHANGED <<st, on>>
  BY <1>1
<1>2. CASE \/ \E k \in Caller : ControlNext(k)
           \/ \E d \in Conn : AcceptOk(d)
           \/ AcceptAborted \/ AcceptError \/ (HandlerNext /\ ~AcceptRead) \/ UNCHANGED vars
           \/ \E d \in Conn : PeerClose(d)
           \/ AppNext
  BY <1>1, <1>2, <1>q DEF ControlNext, HandlerNext, Start, StopFlag, StopCancel, JoinAcceptor, CloseAll, JoinIo,
     AcceptOk, AcceptAborted, AcceptError, AcceptId, AcceptClose, AcceptFree, AcceptReset, AcceptStopped, AcceptGet,
     AcceptArm, AcceptNotify, PeerClose, AppNext, AppReject, AppFree, AppReset
<1>3. CASE AcceptRead
  BY <1>3, <1>t DEF AcceptRead, BeginOp
<1>4. ASSUME NEW x \in Chain, Rearm(x) PROVE Goes(c)
  BY <1>4, <1>t DEF Rearm, BeginOp
<1>5. ASSUME NEW x \in Chain, OpDone(x) \/ OpFail(x) \/ HandlerRead(x) PROVE Goes(c)
  BY <1>5, <1>t DEF OpDone, OpFail, HandlerRead, Step
<1>6. ASSUME NEW x \in Chain, HandlerClose(x) \/ HandlerFree(x) \/ HandlerReset(x) PROVE Goes(c)
  BY <1>6, <1>t DEF HandlerClose, HandlerFree, HandlerReset, Step, AfterFree
<1> QED
  BY <1>2, <1>3, <1>4, <1>5, <1>6, <1>q DEF Next, ChainNext, HandlerNext

\* handler_accept between the call of the accept handler and the first read.
LEMMA ReadStage ==
    ASSUME TypeInv, Serial, [Next]_vars
    PROVE  /\ hpc = "read" => UNCHANGED <<hpc, hconn>> \/ AcceptRead
           /\ hpc' = "read" => UNCHANGED <<hpc, hconn>> \/ AcceptNotify
<1>1. CASE \/ \E x \in Chain : OpDone(x) \/ ChainNext(x)
           \/ AppNext \/ (\E c \in Conn : PeerClose(c)) \/ UNCHANGED vars
  BY <1>1, ElsewhereSteps DEF Elsewhere, handlerVars
<1>2. ASSUME NEW k \in Caller, ControlNext(k) PROVE (hpc # "read" /\ hpc' # "read") \/ UNCHANGED <<hpc, hconn>>
  BY <1>2 DEF Serial, ControlNext, Start, StopFlag, StopCancel, JoinAcceptor, CloseAll, JoinIo, handlerVars
<1>3. CASE (\E c \in Conn : AcceptOk(c)) \/ AcceptAborted \/ AcceptError
  BY <1>3 DEF AcceptOk, AcceptAborted, AcceptError, EnterHandler
<1>4. CASE HandlerNext /\ ~AcceptRead /\ ~AcceptNotify
  BY <1>4 DEF HandlerNext, AcceptId, AcceptClose, AcceptFree, AcceptReset, AcceptStopped, AcceptGet, AcceptArm,
     AcceptClientReturns, AfterFree
<1>5. AcceptRead => hpc' # "read"
  BY DEF AcceptRead
<1>6. AcceptNotify => hpc # "read"
  BY DEF AcceptNotify
<1> QED
  BY <1>1, <1>2, <1>3, <1>4, <1>5, <1>6 DEF Next

\* A connection stays announced, with its socket, and its chain stays ended.
LEMMA StaysNotified ==
    ASSUME Quiet, OwnInv, [Next]_vars, NEW c \in Conn, Notified(c)
    PROVE  /\ Notified(c)' /\ sk'[c] = sk[c]
           /\ Ended(c) => Ended(c)'
<1>s. SafeInv /\ TypeInv /\ TypeOK /\ Fresh /\ Serial /\ Shape
  BY DEF OwnInv, SafeInv, TypeInv
<1>t. /\ st \in [Chain -> {"none", "pending", "ready", "rearm", "failed", "free", "reset", "done"}]
      /\ c \in Chain
  BY <1>s DEF TypeOK
<1>1. Goes(c)
  BY <1>s, ChainGoes
<1>2. sk'[c] = sk[c]
  <2>1. ASSUME NEW d \in Conn, AcceptOk(d)
        PROVE  sk'[c] = sk[c]
    BY <2>1, <1>s DEF AcceptOk, EnterHandler, Notified, Fresh, TypeOK
  <2> QED
    BY <2>1, <1>s, SocketOfConn
<1>3. Ended(c) => Ended(c)'
  BY <1>1, <1>s DEF Goes, Ended, Shape, Fresh
<1>4. CASE st[c] # "none"
  <2>1. st'[c] # "none"
    BY <1>1, <1>4, <1>t DEF Goes, BeginOp
  <2> QED
    BY <2>1, <1>2, <1>3 DEF Notified
<1>5. CASE hpc = "read" /\ hconn = c
  <2>1. UNCHANGED <<hpc, hconn>> \/ AcceptRead
    BY <1>5, <1>s, ReadStage
  <2>2. AcceptRead => st'[c] # "none"
    BY <1>5, <1>t DEF AcceptRead, BeginOp
  <2> QED
    BY <1>2, <1>3, <1>5, <2>1, <2>2 DEF Notified
<1> QED
  BY <1>2, <1>3, <1>4, <1>5 DEF Notified

\* Only a call of the accept handler announces a connection.
LEMMA NewlyNotified ==
    ASSUME Quiet, OwnInv, [Next]_vars, NEW c \in Conn, ~Notified(c), Notified(c)'
    PROVE  AcceptNotify /\ hconn = c
<1>s. SafeInv /\ TypeInv /\ TypeOK /\ Serial
  BY DEF OwnInv, SafeInv, TypeInv
<1>1. st'[c] = "none"
  BY <1>s, ChainGoes DEF Goes, Notified
<1>2. hconn' = c /\ hpc' = "read" /\ ~(hconn = c /\ hpc = "read")
  BY <1>1 DEF Notified
<1> QED
  BY <1>2, <1>s, ReadStage DEF AcceptNotify

\* A chain of reads works for the connection it was started for.
LEMMA OwnReadsStep ==
    ASSUME Quiet, OwnInv, OwnReads, [Next]_vars
    PROVE  OwnReads'
<1> SUFFICES ASSUME NEW c \in Conn, st'[c] \in {"pending", "ready", "rearm", "failed"}
             PROVE  on'[c] = c
  BY DEF OwnReads
<1>s. SafeInv /\ TypeInv /\ TypeOK /\ Fresh /\ Shape /\ OpenIsOwned
  BY OwnedIsOpenIsOwned DEF OwnInv, SafeInv, TypeInv
<1>t. /\ st \in [Chain -> {"none", "pending", "ready", "rearm", "failed", "free", "reset", "done"}]
      /\ on \in [Chain -> Conn \cup {NoConn}] /\ c \in Chain
  BY <1>s DEF TypeOK
<1>1. Goes(c)
  BY <1>s, ChainGoes
<1>2. ASSUME hpc = "read", hconn = c, BeginOp(c, hsock) PROVE on'[c] = c
  BY <1>2, <1>s, <1>t DEF BeginOp, OpenIsOwned, HandlerOwns, Shape
<1>3. ASSUME st[c] = "rearm", BeginOp(c, sk[c]) PROVE on'[c] = c
  BY <1>3, <1>s, <1>t DEF BeginOp, OpenIsOwned, ReadOwns, Shape
<1> QED
  BY <1>1, <1>2, <1>3 DEF Goes, OwnReads

LEMMA CausedStays ==
    ASSUME Quiet, OwnInv, [Next]_vars, NEW e \in Events, CausedEvent(e)
    PROVE  CausedEvent(e)'
<1>1. e.conn \in Conn \cup {NoConn}
  BY DEF Events
<1>2. ASSUME e.conn # NoConn
      PROVE  Notified(e.conn)' /\ sk'[e.conn] = sk[e.conn] /\ (Ended(e.conn) => Ended(e.conn)')
  BY <1>1, <1>2, StaysNotified DEF CausedEvent
<1> QED
  BY <1>2 DEF CausedEvent

\* The events after one is posted, ...
LEMMA PostLive ==
    ASSUME WorkTypeOK, NEW e \in Events, Post(e)
    PROVE  /\ DOMAIN workq' = 1 .. Len(workq) + 1 /\ DOMAIN workq = 1 .. Len(workq) /\ Len(workq) \in Nat
           /\ \A i \in DOMAIN workq : workq'[i] = workq[i]
           /\ workq'[Len(workq) + 1] = e
           /\ Waiting' = Waiting \cup {e} /\ Live' = Live \cup {e}
<1>1. /\ Len(workq) \in Nat /\ DOMAIN workq = 1 .. Len(workq)
      /\ DOMAIN workq' = 1 .. Len(workq) + 1
      /\ \A i \in DOMAIN workq : workq'[i] = workq[i]
      /\ workq'[Len(workq) + 1] = e
  BY AppendProperties, LenProperties DEF Post, WorkTypeOK
<1>2. Waiting' = Waiting \cup {e}
  BY <1>1 DEF Waiting
<1>3. Live' = Live \cup {e}
  BY <1>2 DEF Live, Post
<1> QED
  BY <1>1, <1>2, <1>3

\* ... and after one is taken.
LEMMA TakeLive ==
    ASSUME WorkTypeOK, Running, NEW kind, Take(kind)
    PROVE  /\ Head(workq) = workq[1] /\ 1 \in DOMAIN workq /\ Head(workq) \in Waiting
           /\ \A i \in DOMAIN workq' : i \in Nat /\ i > 0 /\ i + 1 \in DOMAIN workq /\ workq'[i] = workq[i + 1]
           /\ Waiting' \subseteq Waiting /\ wev = NoEvent
           /\ \A e \in Waiting : e = Head(workq) \/ e \in Waiting'
           /\ wev' \in {NoEvent, Head(workq)} => Live' \subseteq Live
<1>1. workq \in Seq(Events) /\ workq # <<>> /\ workq' = Tail(workq) /\ Head(workq) \in Events
      /\ wpc = "idle"
  BY TakeType DEF WorkTypeOK, Take
<1>2. /\ Len(workq) \in Nat \ {0} /\ DOMAIN workq = 1 .. Len(workq) /\ Head(workq) = workq[1]
      /\ DOMAIN workq' = 1 .. Len(workq) - 1
      /\ \A i \in 1 .. Len(workq) - 1 : workq'[i] = workq[i + 1]
  BY <1>1, HeadTailProperties, LenProperties, EmptySeq
<1>3. /\ \A i \in DOMAIN workq' : i \in Nat /\ i > 0 /\ i + 1 \in DOMAIN workq /\ workq'[i] = workq[i + 1]
      /\ 1 \in DOMAIN workq
      /\ \A i \in DOMAIN workq : i = 1 \/ (i - 1 \in DOMAIN workq' /\ workq'[i - 1] = workq[i])
  BY <1>2
<1>4. Waiting' \subseteq Waiting /\ Head(workq) \in Waiting
      /\ \A e \in Waiting : e = Head(workq) \/ e \in Waiting'
  BY <1>2, <1>3 DEF Waiting
<1>5. wev = NoEvent /\ NoEvent \notin Events
  BY <1>1 DEF Running, NoEvent, Event, Events
<1>6. wev' \in {NoEvent, Head(workq)} => Live' \subseteq Live
  BY <1>4, <1>5 DEF Live
<1> QED
  BY <1>2, <1>3, <1>4, <1>5, <1>6

\* The steps of the engine when no packet is refused and none is sent.
Posts(e) ==
    /\ Post(e)
    /\ \/ AcceptNotify /\ hconn # NoConn /\ e = Event("accept", hsock, hconn)
       \/ AcceptClose /\ e = Event("close", hsock, NoConn)
       \/ \E c \in Conn : HandlerRead(c) /\ e = Event("recv", sk[c], on[c])
       \/ \E c \in Conn : HandlerClose(c) /\ e = Event("close", sk[c], on[c])

Works ==
    /\ UNCHANGED vars
    /\ WConnected \/ WFind \/ WInsert \/ WDisconnected \/ WRecv \/ WPacket \/ WRecvEnd

Serves ==
    /\ UNCHANGED workVars
    /\ Silent \/ (AcceptNotify /\ hconn = NoConn) \/ UNCHANGED vars

LEMMA EngineSteps ==
    ASSUME Quiet, TypeInv, [EngineNext]_engineVars
    PROVE  Serves \/ Works \/ \E e \in Events : Posts(e)
<1>q. Write = {} /\ MayReject = FALSE
  BY DEF Quiet
<1>1. CASE PostAccept
  BY <1>1, PostedTypes DEF PostAccept, AcceptNotify, Posts, Serves
<1>2. CASE PostClose
  <2>1. CASE AcceptClose /\ Post(Event("close", hsock, NoConn))
    BY <2>1, PostedTypes DEF AcceptClose, Posts
  <2>2. ASSUME NEW x \in Chain, HandlerClose(x) /\ Post(Event("close", sk[x], on[x]))
        PROVE  \E e \in Events : Posts(e)
    <3>1. x \in Conn /\ Event("close", sk[x], on[x]) \in Events
      BY <1>q, <2>2, PostedTypes DEF HandlerClose, Step
    <3> QED
      BY <2>2, <3>1 DEF Posts
  <2> QED
    BY <1>2, <2>1, <2>2 DEF PostClose
<1>3. ASSUME NEW c \in Conn, PostRecv(c) PROVE \E e \in Events : Posts(e)
  <2>1. HandlerRead(c) /\ Post(Event("recv", sk[c], on[c])) /\ Event("recv", sk[c], on[c]) \in Events
    BY <1>3, PostedTypes DEF PostRecv, HandlerRead, Step
  <2> QED
    BY <2>1 DEF Posts
<1>4. CASE WorkNext
  BY <1>q, <1>4 DEF WorkNext, WRefuse, WThrow, AppReject, Works, WConnected, WFind, WInsert, WDisconnected, WRecv,
     WPacket, WRecvEnd
<1> QED
  BY <1>q, <1>1, <1>2, <1>3, <1>4 DEF EngineNext, engineVars, Serves

LEMMA OrderStart == EngineInit => OrderInv
<1> SUFFICES ASSUME EngineInit PROVE OrderInv
  OBVIOUS
<1>1. DOMAIN workq = {} /\ wev = NoEvent
  BY DEF EngineInit
<1>2. Live = {}
  BY <1>1 DEF Live, Waiting, Events, NoEvent, Event
<1>3. OwnReads
  BY DEF EngineInit, Init, OwnReads
<1> QED
  BY <1>1, <1>2, <1>3, OwnInit, EngineStart
     DEF EngineInit, OrderInv, Caused, InOrderInQueue, RunBefore, Waiting

\* What is posted comes from the connection itself, which has posted no close
\* before, and nothing before its accept.
LEMMA PostedFits ==
    ASSUME Quiet, OrderInv, [Next]_vars, NEW e \in Events, Posts(e)
    PROVE  /\ CausedEvent(e)'
           /\ \A f \in Live : f.conn = e.conn /\ e.conn # NoConn => f.kind # "close" /\ e.kind # "accept"
<1>s. TypeInv /\ TypeOK /\ Shape /\ Fresh /\ OwnReads /\ Caused /\ OwnInv
  BY DEF OrderInv, OwnInv, SafeInv, TypeInv
<1>l. \A f \in Live : f.conn # NoConn => Notified(f.conn) /\ (f.kind = "close" => Ended(f.conn))
  BY <1>s DEF Caused, CausedEvent
<1>1. CASE AcceptNotify /\ hconn # NoConn /\ e = Event("accept", hsock, hconn)
  <2>1. /\ hconn \in Conn /\ sk[hconn] = hsock /\ st[hconn] = "none" /\ hpc = "notify"
        /\ UNCHANGED <<sk, hconn>> /\ hpc' = "read"
    BY <1>1, <1>s DEF AcceptNotify, chainVars, TypeOK, Shape, Fresh
  <2>2. ~Notified(hconn) /\ Notified(hconn)'
    BY <2>1 DEF Notified
  <2> QED
    BY <1>1, <1>l, <2>1, <2>2 DEF CausedEvent, Event
<1>2. CASE AcceptClose /\ e = Event("close", hsock, NoConn)
  BY <1>2 DEF CausedEvent, Event
<1>3. ASSUME NEW c \in Conn, HandlerRead(c), e = Event("recv", sk[c], on[c])
      PROVE  /\ CausedEvent(e)'
             /\ \A f \in Live : f.conn = e.conn /\ e.conn # NoConn => f.kind # "close" /\ e.kind # "accept"
  <2>1. st[c] = "ready" /\ on[c] = c
    BY <1>3, <1>s DEF HandlerRead, Step, OwnReads
  <2>2. Notified(c) /\ ~Ended(c)
    BY <2>1 DEF Notified, Ended
  <2>3. Notified(c)' /\ sk'[c] = sk[c]
    BY <2>2, <1>s, StaysNotified
  <2> QED
    BY <1>3, <1>l, <2>1, <2>2, <2>3, ConnAssumption DEF CausedEvent, Event
<1>4. ASSUME NEW c \in Conn, HandlerClose(c), e = Event("close", sk[c], on[c])
      PROVE  /\ CausedEvent(e)'
             /\ \A f \in Live : f.conn = e.conn /\ e.conn # NoConn => f.kind # "close" /\ e.kind # "accept"
  <2>1. st[c] = "failed" /\ on[c] = c /\ st'[c] = "free"
    BY <1>4, <1>s DEF HandlerClose, Step, OwnReads, TypeOK
  <2>2. Notified(c) /\ ~Ended(c) /\ Ended(c)'
    BY <2>1 DEF Notified, Ended
  <2>3. Notified(c)' /\ sk'[c] = sk[c]
    BY <2>2, <1>s, StaysNotified
  <2> QED
    BY <1>4, <1>l, <2>1, <2>2, <2>3, ConnAssumption DEF CausedEvent, Event
<1> QED
  BY <1>1, <1>2, <1>3, <1>4 DEF Posts

\* The work thread finishes events and adds none.
LEMMA WorksLive ==
    ASSUME WorkTypeOK, Running, InOrderInQueue, RunBefore, Works
    PROVE  Live' \subseteq Live /\ InOrderInQueue' /\ RunBefore'
<1>1. ASSUME NEW kind, Take(kind), wev' \in {wev, Head(workq)}
      PROVE  Live' \subseteq Live /\ InOrderInQueue' /\ RunBefore'
  <2>1. Live' \subseteq Live /\ wev' \in {NoEvent, Head(workq)}
    BY <1>1, TakeLive
  <2>2. InOrderInQueue'
    BY <1>1, TakeLive DEF InOrderInQueue
  <2>3. RunBefore'
    <3> SUFFICES ASSUME NEW i \in DOMAIN workq', workq'[i].conn = workq[1].conn, workq'[i].conn # NoConn
                 PROVE  workq'[i].kind # "accept"
      BY <1>1, <2>1, TakeLive DEF RunBefore, Waiting
    <3>1. i \in Nat /\ i > 0 /\ i + 1 \in DOMAIN workq /\ workq'[i] = workq[i + 1] /\ 1 \in DOMAIN workq
      BY <1>1, TakeLive
    <3> QED
      BY <3>1 DEF InOrderInQueue
  <2> QED
    BY <2>1, <2>2, <2>3
<1>2. ASSUME UNCHANGED workq, wev' \in {wev, NoEvent}
      PROVE  Live' \subseteq Live /\ InOrderInQueue' /\ RunBefore'
  BY <1>2 DEF Live, Waiting, InOrderInQueue, RunBefore, NoEvent, Event, Events
<1>3. CASE WConnected \/ WRecv \/ WDisconnected
  BY <1>1, <1>3 DEF WConnected, WRecv, WDisconnected
<1>4. CASE WFind \/ WInsert \/ WPacket \/ WRecvEnd
  BY <1>2, <1>4 DEF WFind, WInsert, WPacket, WRecvEnd
<1> QED
  BY <1>3, <1>4 DEF Works

LEMMA OrderStep == ASSUME Quiet PROVE OrderInv /\ [EngineNext]_engineVars => OrderInv'
<1> SUFFICES ASSUME OrderInv, [EngineNext]_engineVars PROVE OrderInv'
  OBVIOUS
<1>s. OwnInv /\ EngineInv /\ TypeInv /\ WorkTypeOK /\ Running
      /\ OwnReads /\ Caused /\ InOrderInQueue /\ RunBefore
  BY DEF OrderInv, OwnInv, SafeInv, EngineInv
<1>1. [Next]_vars /\ OwnInv' /\ EngineInv' /\ OwnReads'
  BY <1>s, EngineStep, OwnStep, EngineNextStep, OwnReadsStep
<1>2. \A e \in Live : e \in Events /\ CausedEvent(e)'
  BY <1>s, <1>1, CausedStays DEF Caused, Live
<1>3. CASE Serves
  BY <1>1, <1>2, <1>3, <1>s
     DEF Serves, workVars, OrderInv, Caused, InOrderInQueue, RunBefore, Live, Waiting
<1>4. ASSUME NEW e \in Events, Posts(e) PROVE OrderInv'
  <2>1. /\ CausedEvent(e)'
        /\ \A f \in Live : f.conn = e.conn /\ e.conn # NoConn => f.kind # "close" /\ e.kind # "accept"
    BY <1>1, <1>4, PostedFits
  <2>2. Post(e)
    BY <1>4 DEF Posts
  <2>3. Caused'
    BY <1>2, <1>s, <2>1, <2>2, PostLive DEF Caused
  <2>4. InOrderInQueue'
    <3>1. \A i \in DOMAIN workq : workq[i] \in Live
      BY <1>s DEF WorkTypeOK, Live, Waiting
    <3>2. \A i, j \in 1 .. Len(workq) + 1 : i < j => i \in 1 .. Len(workq)
      BY <1>s, <2>2, PostLive
    <3> QED
      BY <1>s, <2>1, <2>2, <3>1, <3>2, PostLive DEF InOrderInQueue
  <2>5. RunBefore'
    BY <1>s, <2>1, <2>2, PostLive DEF RunBefore, Post, Live, WorkTypeOK
  <2> QED
    BY <1>1, <2>3, <2>4, <2>5 DEF OrderInv
<1>5. CASE Works
  BY <1>1, <1>2, <1>5, <1>s, WorksLive DEF OrderInv, Caused
<1> QED
  BY <1>3, <1>4, <1>5, <1>s, EngineSteps

LEMMA OrderHolds == OrderInv => PostedInOrder
<1> SUFFICES ASSUME OrderInv,
                    NEW i \in DOMAIN Pending, NEW j \in DOMAIN Pending,
                    i < j, Pending[i].conn = Pending[j].conn, Pending[i].conn # NoConn
             PROVE  Pending[i].kind # "close" /\ Pending[j].kind # "accept"
  BY DEF PostedInOrder
<1>s. WorkTypeOK /\ Running /\ InOrderInQueue /\ RunBefore
  BY DEF OrderInv, EngineInv
<1>1. CASE wev = NoEvent
  BY <1>1, <1>s DEF Pending, InOrderInQueue
<1>2. CASE wev # NoEvent
  <2>1. /\ workq \in Seq(Events) /\ <<wev>> \in Seq(Events) /\ wev \in Events
        /\ wev.kind # "close"
    BY <1>2, <1>s DEF WorkTypeOK, Running
  <2>2. Len(<<wev>>) = 1 /\ <<wev>>[1] = wev /\ Len(workq) \in Nat /\ DOMAIN workq = 1 .. Len(workq)
    BY <2>1, LenProperties
  <2>3. /\ DOMAIN (<<wev>> \o workq) = 1 .. 1 + Len(workq)
        /\ \A k \in 1 .. 1 + Len(workq) :
               (<<wev>> \o workq)[k] = IF k <= 1 THEN <<wev>>[k] ELSE workq[k - 1]
    BY <2>1, <2>2, ConcatProperties, LenProperties
  <2>4. /\ i \in 1 .. 1 + Len(workq) /\ j \in 1 .. 1 + Len(workq)
        /\ Pending[1] = wev
        /\ \A k \in 1 .. 1 + Len(workq) : k > 1 => k - 1 \in DOMAIN workq /\ Pending[k] = workq[k - 1]
    BY <1>2, <2>2, <2>3 DEF Pending
  <2>5. j > 1 /\ j - 1 \in DOMAIN workq /\ Pending[j] = workq[j - 1]
    BY <2>2, <2>4
  <2>6. CASE i = 1
    BY <1>2, <1>s, <2>1, <2>4, <2>5, <2>6 DEF RunBefore, Waiting
  <2>7. CASE i > 1
    <3>1. i - 1 \in DOMAIN workq /\ Pending[i] = workq[i - 1] /\ i - 1 < j - 1
      BY <2>2, <2>4, <2>7
    <3> QED
      BY <1>s, <2>5, <3>1 DEF InOrderInQueue
  <2> QED
    BY <2>2, <2>4, <2>6, <2>7
<1> QED
  BY <1>1, <1>2

\* The events of a connection are posted by the acceptor thread and by an io
\* thread, and wait in one queue: its accept comes before its chunks, and its
\* close, of which there is one, after them.
THEOREM PostedCorrect == ASSUME Quiet PROVE EngineSpec => []PostedInOrder
<1>1. EngineInit => OrderInv
  BY OrderStart
<1>2. OrderInv /\ [EngineNext]_engineVars => OrderInv'
  BY OrderStep
<1> QED
  BY <1>1, <1>2, OrderHolds, PTL DEF EngineSpec

-----------------------------------------------------------------------------
(* What the sink is told, and users_map_, however late the lambdas run.    *)

\* What the sink was told, of the connections whose accept it has or has not seen:
\* nothing before the accept lambda, and "open" until the close lambda.
AcceptWaits(c) == \E e \in Waiting : e.kind = "accept" /\ e.conn = c

Informed ==
    /\ \A c \in Conn : ~Notified(c) => told[c] = "never"
    /\ \A c \in Conn : AcceptWaits(c) => told[c] = "never"
    /\ \A e \in Live :
           e.kind \in {"recv", "close"} /\ e.conn # NoConn => told[e.conn] = "open" \/ AcceptWaits(e.conn)
    /\ \A c \in Conn : Notified(c) /\ ~Ended(c) => told[c] = "open" \/ AcceptWaits(c)

\* An event that finds the id of another connection in its socket was posted before
\* the accept of that connection: the socket is given to the accept only after it is
\* freed, and an event of its earlier use is posted before that.
Late ==
    /\ \A e \in Live, c \in Conn : uid[e.sock] = c /\ e.conn # c => told[c] = "never"
    /\ \A i, j \in DOMAIN workq :
           i < j /\ workq[i].kind = "accept" /\ uid[workq[j].sock] = workq[i].conn
               => workq[j].conn = workq[i].conn

\* An open connection is in the map, or its accept lambda is about to insert it.
Reach ==
    \A c \in Conn :
        told[c] = "open" /\ uid[sk[c]] = c =>
            users[c] = sk[c] \/ (wpc \in {"find", "insert"} /\ wev.conn = c)

FeedInv == OrderInv /\ IdInv /\ Informed /\ Late /\ Reach

LEMMA FeedStart == EngineInit => FeedInv
<1> SUFFICES ASSUME EngineInit PROVE FeedInv
  OBVIOUS
<1>1. DOMAIN workq = {} /\ wev = NoEvent
  BY DEF EngineInit
<1>2. Live = {} /\ Waiting = {}
  BY <1>1 DEF Live, Waiting, Events, NoEvent, Event
<1>3. \A c \in Conn : ~Notified(c) /\ ~AcceptWaits(c) /\ told[c] = "never"
  BY <1>2, ConnAssumption DEF EngineInit, Init, Notified, AcceptWaits
<1> QED
  BY <1>1, <1>2, <1>3, OrderStart, IdInit DEF EngineInit, FeedInv, Informed, Late, Reach

\* A handler posts about a socket that has no id of another connection.
HasItsId(e) == uid[e.sock] \in {e.conn, NoPeerId, NoId}

LEMMA PostedHasItsId ==
    ASSUME Quiet, OrderInv, IdInv, NEW e \in Events, Posts(e)
    PROVE  HasItsId(e)
<1>s. OwnReads /\ TypeOK /\ Shape /\ Fresh /\ FreshId
  BY DEF OrderInv, IdInv, OwnInv, SafeInv, TypeInv
<1>1. CASE AcceptNotify /\ hconn # NoConn /\ e = Event("accept", hsock, hconn)
  <2>1. hconn \in Conn /\ hpc = "notify" /\ sk[hconn] = hsock
    BY <1>1, <1>s DEF AcceptNotify, TypeOK, Shape
  <2> QED
    BY <1>1, <1>s, <2>1 DEF Event, Owns, HandlerOwns, FreshId, HasItsId
<1>2. CASE AcceptClose /\ e = Event("close", hsock, NoConn)
  BY <1>2, <1>s DEF AcceptClose, Event, FreshId, HasItsId
<1>3. ASSUME NEW c \in Conn, st[c] \in {"ready", "failed"}, e.sock = sk[c], e.conn = on[c]
      PROVE  HasItsId(e)
  BY <1>3, <1>s DEF OwnReads, Owns, ReadOwns, FreshId, HasItsId
<1> QED
  BY <1>1, <1>2, <1>3 DEF Posts, HandlerRead, HandlerClose, Step, Event

\* Only socket::accept gives a socket the id of a connection.
LEMMA IdIsMade ==
    ASSUME TypeInv, [Next]_vars, NEW s \in Socket, uid'[s] \notin {uid[s], NoId}
    PROVE  hpc = "accepted" /\ uid'[s] \in {hconn, NoPeerId}
<1> USE DEF poolVars, sockVars, acceptVars, handlerVars, chainVars, appVars, ctlVars, vars
<1>1. ASSUME UNCHANGED uid PROVE FALSE
  BY <1>1
<1>2. ASSUME NEW t, SocketReset(t) PROVE FALSE
  BY <1>2 DEF SocketReset, TypeInv, TypeOK
<1>3. ~\E k \in Caller : ControlNext(k)
  BY <1>1 DEF ControlNext, Start, StopFlag, StopCancel, JoinAcceptor, CloseAll, JoinIo
<1>4. ~((\E c \in Conn : AcceptOk(c) \/ PeerClose(c)) \/ AcceptAborted \/ AcceptError)
  BY <1>1 DEF AcceptOk, AcceptAborted, AcceptError, PeerClose
<1>5. HandlerNext => AcceptId
  BY <1>1, <1>2 DEF HandlerNext, AcceptClose, AcceptFree, PoolFree, AcceptReset, AcceptStopped, AcceptGet,
     AcceptArm, AcceptNotify, AcceptRead
<1>6. AcceptId => hpc = "accepted" /\ uid'[s] \in {hconn, NoPeerId}
  BY DEF AcceptId, TypeInv, TypeOK
<1>7. ~\E x \in Chain : OpDone(x) \/ ChainNext(x)
  BY <1>1, <1>2 DEF OpDone, ChainNext, OpFail, HandlerRead, Rearm, HandlerWrite, HandlerClose, HandlerFree,
     PoolFree, HandlerReset
<1>8. ~AppNext
  BY <1>1, <1>2 DEF AppNext, AppReject, AppWrite, AppFree, PoolFree, AppReset
<1> QED
  BY <1>1, <1>3, <1>4, <1>5, <1>6, <1>7, <1>8 DEF Next

\* An announced connection has its id from before.
LEMMA IdFromBefore ==
    ASSUME Quiet, OwnInv, [Next]_vars, NEW c \in Conn, Notified(c), uid'[sk'[c]] = c
    PROVE  uid[sk[c]] = c
<1>s. TypeInv /\ TypeOK /\ Shape /\ Fresh
  BY DEF OwnInv, SafeInv, TypeInv
<1>1. sk'[c] = sk[c] /\ sk[c] \in Socket
  BY <1>s, StaysNotified DEF Notified, Shape
<1>2. ~(hpc = "accepted" /\ hconn = c)
  BY <1>s DEF Notified, Fresh
<1> QED
  BY <1>1, <1>2, <1>s, IdIsMade, ConnAssumption

\* The id of a socket becomes that of a connection before the connection is announced.
LEMMA NewId ==
    ASSUME TypeInv, Fresh, Serial, [Next]_vars, NEW s \in Socket, NEW c \in Conn, uid'[s] = c, uid[s] # c
    PROVE  ~Notified(c)
<1>1. hpc = "accepted" /\ hconn = c
  BY IdIsMade, ConnAssumption
<1> QED
  BY <1>1 DEF Fresh, Notified

\* Posting and the work thread leave the ids alone.
LEMMA PostsLeave ==
    ASSUME NEW e, Posts(e) \/ Works
    PROVE  UNCHANGED <<uid, sk>>
BY DEF Posts, Works, AcceptNotify, AcceptClose, HandlerRead, HandlerClose, vars, sockVars, chainVars

\* Silent steps do not call the accept handler.
LEMMA ServesAnnouncesNobody ==
    ASSUME Serves, NEW c \in Conn
    PROVE  ~(AcceptNotify /\ hconn = c)
<1> SUFFICES ASSUME AcceptNotify, hconn = c PROVE FALSE
  OBVIOUS
<1>1. hpc = "notify" /\ hpc' = "read" /\ hconn # NoConn
  BY ConnAssumption DEF AcceptNotify
<1>2. ~UNCHANGED hpc /\ Silent
  BY <1>1 DEF Serves, vars, handlerVars
<1> USE DEF handlerVars
<1>3. ~\E k \in Caller : Start(k) \/ StopFlag(k) \/ StopCancel(k) \/ JoinAcceptor(k) \/ JoinIo(k) \/ CloseAll(k)
  BY <1>1, <1>2 DEF Start, StopFlag, StopCancel, JoinAcceptor, JoinIo, CloseAll
<1>4. ~\E d \in Conn : AcceptOk(d) \/ PeerClose(d) \/ Rearm(d)
  BY <1>1, <1>2 DEF AcceptOk, EnterHandler, PeerClose, Rearm
<1>5. ~(AcceptAborted \/ AcceptError \/ AcceptId \/ AcceptFree \/ AcceptReset \/ AcceptStopped
         \/ (\E s \in Socket : AcceptGet(s)) \/ AcceptArm \/ AcceptRead)
  BY <1>1 DEF AcceptAborted, AcceptError, EnterHandler, AcceptId, AcceptFree, AcceptReset, AcceptStopped,
     AcceptGet, AcceptArm, AcceptRead
<1>6. ~\E x \in Chain : OpDone(x) \/ OpFail(x) \/ HandlerReset(x) \/ HandlerFree(x)
  BY <1>2 DEF OpDone, OpFail, HandlerReset, HandlerFree
<1>7. ~((\E w \in Write : HandlerWrite(w)) \/ AppFree \/ AppReset)
  BY <1>2 DEF HandlerWrite, AppFree, AppReset
<1> QED
  BY <1>2, <1>3, <1>4, <1>5, <1>6, <1>7 DEF Silent

\* A step that is not the work thread's and after which the sink knows what it knew.
LEMMA ReachStays ==
    ASSUME Quiet, FeedInv, [Next]_vars, UNCHANGED <<wpc, wev, users, told>>
    PROVE  Reach'
<1> SUFFICES ASSUME NEW c \in Conn, told'[c] = "open", uid'[sk'[c]] = c
             PROVE  users'[c] = sk'[c] \/ (wpc' \in {"find", "insert"} /\ wev'.conn = c)
  BY DEF Reach
<1>1. Notified(c)
  BY DEF FeedInv, Informed
<1>2. uid[sk[c]] = c /\ sk'[c] = sk[c]
  BY <1>1, IdFromBefore, StaysNotified DEF FeedInv, OrderInv
<1> QED
  BY <1>2 DEF FeedInv, Reach

\* The steps of the server tell the sink nothing; socket::accept makes an id that is
\* in no lambda of its connection yet.
LEMMA ServesFeed ==
    ASSUME Quiet, FeedInv, [EngineNext]_engineVars, Serves
    PROVE  Informed' /\ Late' /\ Reach'
<1>s. /\ OwnInv /\ TypeInv /\ Serial /\ Fresh /\ WorkTypeOK /\ Informed /\ Late /\ Caused
      /\ [Next]_vars
  BY EngineStep DEF FeedInv, OrderInv, OwnInv, SafeInv, EngineInv
<1>1. UNCHANGED <<workq, wpc, wev, users, told>> /\ Live' = Live
      /\ \A c \in Conn \cup {NoConn} : AcceptWaits(c)' <=> AcceptWaits(c)
  BY DEF Serves, workVars, Live, Waiting, AcceptWaits
<1>2. \A c \in Conn : /\ Notified(c)' <=> Notified(c)
                      /\ Notified(c) /\ Ended(c) => Ended(c)'
  BY <1>s, StaysNotified, NewlyNotified, ServesAnnouncesNobody
<1>3. \A e \in Live : e.conn \in Conn \cup {NoConn} /\ e.sock \in Socket
  BY DEF Live, Events
<1>4. Informed'
  BY <1>1, <1>2, <1>3, <1>s DEF Informed
<1>5. ASSUME NEW e \in Live, NEW c \in Conn, uid'[e.sock] = c, e.conn # c
      PROVE  told'[c] = "never"
  <2>1. uid[e.sock] = c \/ ~Notified(c)
    BY <1>3, <1>5, <1>s, NewId
  <2> QED
    BY <1>1, <1>5, <1>s, <2>1 DEF Late, Informed
<1>6. ASSUME NEW i \in DOMAIN workq, NEW j \in DOMAIN workq,
             i < j, workq[i].kind = "accept", uid'[workq[j].sock] = workq[i].conn
      PROVE  workq[j].conn = workq[i].conn
  <2>1. workq[i] \in Live /\ workq[j] \in Live
    BY <1>s DEF WorkTypeOK, Live, Waiting
  <2>2. workq[i].conn \in Conn /\ Notified(workq[i].conn)
    BY <1>3, <1>6, <1>s, <2>1 DEF Caused, CausedEvent
  <2>3. uid[workq[j].sock] = workq[i].conn
    BY <1>3, <1>6, <1>s, <2>1, <2>2, NewId
  <2> QED
    BY <1>6, <1>s, <2>3 DEF Late
<1>7. Late'
  BY <1>1, <1>5, <1>6 DEF Late
<1> QED
  BY <1>1, <1>4, <1>7, <1>s, ReachStays

\* A handler posts what the sink is going to be told.
LEMMA PostsFeed ==
    ASSUME Quiet, FeedInv, [EngineNext]_engineVars, NEW e \in Events, Posts(e)
    PROVE  Informed' /\ Late' /\ Reach'
<1>s. /\ OwnInv /\ TypeInv /\ WorkTypeOK /\ Informed /\ Late /\ OwnReads /\ Fresh
      /\ OrderInv /\ IdInv /\ [Next]_vars
  BY EngineStep DEF FeedInv, OrderInv, OwnInv, SafeInv, EngineInv
<1>1. /\ UNCHANGED <<wpc, wev, users, told, uid, sk>>
      /\ Live' = Live \cup {e} /\ Waiting' = Waiting \cup {e}
  BY <1>s, PostLive, PostsLeave DEF Posts, Post
<1>2. \A c : AcceptWaits(c)' <=> AcceptWaits(c) \/ (e.kind = "accept" /\ e.conn = c)
  BY <1>1 DEF AcceptWaits
<1>3. HasItsId(e) /\ e.conn \in Conn \cup {NoConn} /\ (e.conn = NoConn => e.kind = "close")
  BY <1>s, PostedHasItsId, PostedFits DEF CausedEvent, Events
\* What is posted about an announced connection, ...
<1>4. ASSUME e.kind \in {"recv", "close"}, e.conn # NoConn
      PROVE  Notified(e.conn) /\ ~Ended(e.conn)
  <2>1. ASSUME NEW d \in Conn, st[d] \in {"ready", "failed"}, e.conn = on[d]
        PROVE  Notified(e.conn) /\ ~Ended(e.conn)
    BY <2>1, <1>s DEF OwnReads, Notified, Ended
  <2> QED
    BY <2>1, <1>4 DEF Posts, HandlerRead, HandlerClose, Step, Event
\* ... and what announces it.
<1>5. ASSUME NEW c \in Conn, ~Notified(c), Notified(c)'
      PROVE  e.kind = "accept" /\ e.conn = c
  <2>1. AcceptNotify /\ hconn = c
    BY <1>5, <1>s, NewlyNotified
  <2>2. hpc = "notify" /\ hpc' = "read"
    BY <2>1, ConnAssumption DEF AcceptNotify
  <2> QED
    BY <2>1, <2>2 DEF Posts, AcceptClose, HandlerRead, HandlerClose, handlerVars, Event
<1>6. ASSUME NEW c \in Conn, e.kind = "accept", e.conn = c PROVE told[c] = "never"
  <2>1. AcceptNotify /\ hconn = c
    BY <1>6 DEF Posts, Event
  <2>2. ~Notified(c)
    BY <2>1, <1>s DEF AcceptNotify, Notified, Fresh
  <2> QED
    BY <2>2, <1>s DEF Informed
<1>7. Informed'
  <2>1. \A c \in Conn : ~Notified(c)' => told'[c] = "never"
    BY <1>1, <1>s, StaysNotified DEF Informed
  <2>2. \A c \in Conn : AcceptWaits(c)' => told'[c] = "never"
    BY <1>1, <1>2, <1>6, <1>s DEF Informed
  <2>3. \A f \in Live' : f.kind \in {"recv", "close"} /\ f.conn # NoConn =>
            told'[f.conn] = "open" \/ AcceptWaits(f.conn)'
    BY <1>1, <1>2, <1>3, <1>4, <1>s DEF Informed
  <2>4. \A c \in Conn : Notified(c)' /\ ~Ended(c)' => told'[c] = "open" \/ AcceptWaits(c)'
    BY <1>1, <1>2, <1>5, <1>s, StaysNotified DEF Informed
  <2> QED
    BY <2>1, <2>2, <2>3, <2>4 DEF Informed
<1>8. Late'
  <2>1. \A f \in Live', c \in Conn : uid'[f.sock] = c /\ f.conn # c => told'[c] = "never"
    BY <1>1, <1>3, <1>s, ConnAssumption DEF Late, HasItsId
  <2>2. ASSUME NEW i \in DOMAIN workq', NEW j \in DOMAIN workq', i < j, workq'[i].kind = "accept",
               uid'[workq'[j].sock] = workq'[i].conn
        PROVE  workq'[j].conn = workq'[i].conn
    <3>1. i \in DOMAIN workq /\ workq'[i] = workq[i]
      BY <1>s, <2>2, PostLive DEF Posts
    <3>2. workq[i] \in Live
      BY <1>s, <3>1 DEF WorkTypeOK, Live, Waiting
    <3>3. workq[i].conn \in Conn
      BY <2>2, <1>s, <3>1, <3>2 DEF OrderInv, Caused, CausedEvent, Live, Events
    <3>4. CASE j \in DOMAIN workq
      BY <1>1, <1>s, <2>2, <3>1, <3>4, PostLive DEF Posts, Late
    <3>5. CASE j \notin DOMAIN workq
      <4>1. workq'[j] = e
        BY <1>s, <3>5, PostLive DEF Posts
      <4> QED
        BY <1>1, <1>3, <2>2, <3>1, <3>3, <4>1, ConnAssumption DEF HasItsId
    <3> QED
      BY <3>4, <3>5
  <2> QED
    BY <2>1, <2>2 DEF Late
<1> QED
  BY <1>1, <1>7, <1>8, <1>s, ReachStays

\* The event taken from the queue comes before the others of its connection, and if it
\* is the accept, before the others that find the id of its connection.
LEMMA TakeFirst ==
    ASSUME FeedInv, NEW kind, Take(kind), NEW e, e = Head(workq)
    PROVE  /\ e \in Live /\ e.kind = kind /\ e.sock \in Socket /\ uid[e.sock] \in Id
           /\ e.conn \in Conn \cup {NoConn} /\ (e.conn = NoConn => kind = "close")
           /\ e.conn # NoConn =>
                  e.sock = sk[e.conn] /\ Notified(e.conn) /\ (kind = "close" => Ended(e.conn))
           /\ \A f \in Waiting' : f.conn = e.conn /\ e.conn # NoConn => kind # "close" /\ f.kind # "accept"
           /\ kind = "accept" => \A f \in Waiting' : uid[f.sock] = e.conn => f.conn = e.conn
           /\ \A c \in Conn : AcceptWaits(c) <=> AcceptWaits(c)' \/ (kind = "accept" /\ e.conn = c)
           /\ wev = NoEvent /\ \A f \in Live : f = e \/ f \in Waiting'
<1>s. WorkTypeOK /\ Running /\ Caused /\ InOrderInQueue /\ Late /\ TypeInv
  BY DEF FeedInv, OrderInv, OwnInv, SafeInv, EngineInv
<1>1. e \in Events /\ e \in Live /\ e \in Waiting /\ e.kind = kind
  BY <1>s, TakeType, TakeLive DEF Live
<1>2. CausedEvent(e) /\ e.sock \in Socket /\ e.conn \in Conn \cup {NoConn}
  BY <1>1, <1>s DEF Caused, Events
<1>3. ASSUME NEW f \in Waiting'
      PROVE  /\ f.conn = e.conn /\ e.conn # NoConn => kind # "close" /\ f.kind # "accept"
             /\ kind = "accept" /\ uid[f.sock] = e.conn => f.conn = e.conn
  <2>1. PICK i \in DOMAIN workq' : f = workq'[i]
    BY DEF Waiting
  <2>2. /\ i \in Nat /\ i > 0 /\ i + 1 \in DOMAIN workq /\ f = workq[i + 1]
        /\ 1 \in DOMAIN workq /\ workq[1] = e
    BY <1>s, <2>1, TakeLive
  <2> QED
    BY <1>1, <1>s, <2>2 DEF InOrderInQueue, Late
<1>4. \A c \in Conn : AcceptWaits(c) <=> AcceptWaits(c)' \/ (kind = "accept" /\ e.conn = c)
  BY <1>1, <1>s, TakeLive DEF AcceptWaits
<1>5. uid[e.sock] \in Id
  BY <1>2, <1>s, IdType
<1>6. wev = NoEvent /\ NoEvent \notin Events /\ \A f \in Waiting : f = e \/ f \in Waiting'
  BY <1>s, TakeLive DEF NoEvent, Event, Events
<1>7. \A f \in Live : f = e \/ f \in Waiting'
  BY <1>6 DEF Live
<1> QED
  BY <1>1, <1>2, <1>3, <1>4, <1>5, <1>6, <1>7 DEF CausedEvent

\* The id that a lambda reads names its connection, nobody, or a connection that the
\* sink has not heard of.
LEMMA NamesOfEvent ==
    ASSUME FeedInv, NEW e \in Live
    PROVE  uid[e.sock] \in Feed!Names(e.conn)
<1>1. Late /\ e.sock \in Socket /\ TypeInv
  BY DEF FeedInv, OrderInv, OwnInv, SafeInv, Live, Events
<1>2. uid[e.sock] \in Conn \cup {NoId, NoPeerId}
  BY <1>1, IdType DEF Id
<1> QED
  BY <1>1, <1>2 DEF Late, Feed!Names

\* The sink is told of a connection it has not heard of, ...
LEMMA ConnectedTells ==
    ASSUME FeedInv, WConnected, NEW e, e = Head(workq)
    PROVE  /\ e.conn \in Conn /\ told[e.conn] = "never" /\ told' = [told EXCEPT ![e.conn] = "open"]
           /\ call' = [kind |-> "connected", id |-> uid[e.sock], conn |-> e.conn]
           /\ uid[e.sock] \in Feed!Names(e.conn)
<1>s. Informed /\ told \in [Conn -> {"never", "open", "closed", "confused"}]
  BY DEF FeedInv, OrderInv, EngineInv, WorkTypeOK
<1>1. Take("accept") /\ wev' = e /\ Callback("connected", uid[e.sock], e.conn)
  BY DEF WConnected
<1>2. e.conn \in Conn /\ AcceptWaits(e.conn) /\ e \in Live
  BY <1>1, TakeFirst
<1>3. told[e.conn] = "never"
  BY <1>2, <1>s DEF Informed
<1> QED
  BY <1>1, <1>2, <1>3, <1>s, NamesOfEvent DEF Callback

\* ... of the end of one that it believes open, or of a failed accept, ...
LEMMA DisconnectedTells ==
    ASSUME FeedInv, WDisconnected, NEW e, e = Head(workq)
    PROVE  /\ e.conn = NoConn => told' = told
           /\ e.conn # NoConn => /\ e.conn \in Conn /\ told[e.conn] = "open"
                                 /\ told' = [told EXCEPT ![e.conn] = "closed"]
           /\ call' = [kind |-> "disconnected", id |-> uid[e.sock], conn |-> e.conn]
           /\ uid[e.sock] \in Feed!Names(e.conn)
<1>s. Informed /\ told \in [Conn -> {"never", "open", "closed", "confused"}]
  BY DEF FeedInv, OrderInv, EngineInv, WorkTypeOK
<1>1. Take("close") /\ Callback("disconnected", uid[e.sock], e.conn)
  BY DEF WDisconnected
<1>2. e \in Live /\ e.kind = "close" /\ e.conn \in Conn \cup {NoConn}
  BY <1>1, TakeFirst
<1>3. ASSUME e.conn # NoConn PROVE told[e.conn] = "open"
  <2>1. ~AcceptWaits(e.conn)
    BY <1>1, <1>2, <1>3, TakeFirst DEF AcceptWaits
  <2> QED
    BY <1>2, <1>3, <1>s, <2>1 DEF Informed
<1>4. told' = IF e.conn \notin Conn THEN told ELSE [told EXCEPT ![e.conn] = "closed"]
  BY <1>1, <1>2, <1>3, <1>s, ConnAssumption DEF Callback
<1> QED
  BY <1>1, <1>2, <1>3, <1>4, ConnAssumption, NamesOfEvent DEF Callback

\* ... and is given the packets of one that it believes open.
LEMMA PacketTells ==
    ASSUME FeedInv, WPacket
    PROVE  /\ wev.conn \in Conn /\ told[wev.conn] = "open" /\ told' = told
           /\ call' = [kind |-> "read", id |-> uid[wev.sock], conn |-> wev.conn]
           /\ uid[wev.sock] \in Feed!Names(wev.conn)
<1>s. /\ Informed /\ WorkTypeOK /\ Running /\ RunBefore /\ Caused
      /\ told \in [Conn -> {"never", "open", "closed", "confused"}]
  BY DEF FeedInv, OrderInv, EngineInv, WorkTypeOK
<1>1. Callback("read", uid[wev.sock], wev.conn) /\ wev # NoEvent /\ wev.kind = "recv" /\ wev \in Live
  BY <1>s DEF WPacket, Running, WorkTypeOK, Live
<1>2. wev.conn \in Conn /\ wev.conn # NoConn
  BY <1>1, <1>s, ConnAssumption DEF Caused, CausedEvent, Live, Events
<1>3. told[wev.conn] = "open"
  BY <1>1, <1>2, <1>s DEF Informed, RunBefore, AcceptWaits
<1> QED
  BY <1>1, <1>2, <1>3, <1>s, NamesOfEvent DEF Callback

\* A step of the work thread after which the sink knows what it knew.
LEMMA SameTold ==
    ASSUME FeedInv, Works, UNCHANGED told, \A c \in Conn : AcceptWaits(c)' <=> AcceptWaits(c)
    PROVE  Informed'
<1>1. UNCHANGED <<st, hpc, hconn>>
  BY DEF Works, vars, chainVars, handlerVars
<1>2. Live' \subseteq Live /\ Informed
  BY WorksLive DEF FeedInv, OrderInv, EngineInv
<1>3. \A e \in Live : e.conn \in Conn \cup {NoConn}
  BY DEF Live, Events
<1> QED
  BY <1>1, <1>2, <1>3 DEF Informed, Notified, Ended

LEMMA WorksInformed ==
    ASSUME FeedInv, Works
    PROVE  Informed'
<1>s. /\ Informed /\ Live' \subseteq Live /\ WorkTypeOK /\ Running
      /\ told \in [Conn -> {"never", "open", "closed", "confused"}]
  BY WorksLive DEF FeedInv, OrderInv, EngineInv, WorkTypeOK
<1>n. \A c \in Conn : (Notified(c)' <=> Notified(c)) /\ (Ended(c)' <=> Ended(c))
  BY DEF Works, vars, chainVars, handlerVars, Notified, Ended
<1>c. \A e \in Live : e.conn \in Conn \cup {NoConn}
  BY DEF Live, Events
<1>1. CASE WConnected
  <2>a. PICK e : e = Head(workq)
    OBVIOUS
  <2>b. PICK c : c = e.conn
    OBVIOUS
  <2>1. c \in Conn /\ c # NoConn /\ told' = [told EXCEPT ![c] = "open"]
    BY <1>1, <2>a, <2>b, ConnectedTells, ConnAssumption
  <2>2. /\ Notified(c)
        /\ \A d \in Conn : AcceptWaits(d) <=> AcceptWaits(d)' \/ c = d
        /\ \A f \in Waiting' : f.conn = c => f.kind # "accept"
    BY <1>1, <2>a, <2>b, <2>1, TakeFirst DEF WConnected
  <2>3. told'[c] = "open" /\ ~AcceptWaits(c)'
        /\ \A d \in Conn : d # c => told'[d] = told[d] /\ (AcceptWaits(d)' <=> AcceptWaits(d))
    BY <1>s, <2>1, <2>2 DEF AcceptWaits
  <2> QED
    BY <1>s, <1>n, <1>c, <2>1, <2>2, <2>3 DEF Informed
<1>2. CASE WDisconnected
  <2>a. PICK e : e = Head(workq)
    OBVIOUS
  <2>b. PICK c : c = e.conn
    OBVIOUS
  <2>1. \A d \in Conn : AcceptWaits(d) <=> AcceptWaits(d)'
    BY <1>2, <2>a, TakeFirst DEF WDisconnected
  <2>2. CASE c = NoConn
    BY <1>2, <2>a, <2>b, <2>1, <2>2, DisconnectedTells, SameTold
  <2>3. CASE c # NoConn
    <3>1. c \in Conn /\ told[c] = "open" /\ told' = [told EXCEPT ![c] = "closed"]
      BY <1>2, <2>a, <2>b, <2>3, DisconnectedTells
    <3>2. Notified(c) /\ Ended(c) /\ \A f \in Waiting' : f.conn # c
      BY <1>2, <2>a, <2>b, <2>3, TakeFirst DEF WDisconnected
    <3>3. \A f \in Live' : f.conn # c
      <4>1. wev' = NoEvent
        BY <1>2, <2>a, TakeFirst DEF WDisconnected
      <4> QED
        BY <3>2, <4>1 DEF Live, NoEvent, Event, Events
    <3>4. ~AcceptWaits(c)'
      BY <3>2 DEF AcceptWaits
    <3>5. \A d \in Conn : d # c => told'[d] = told[d]
      BY <1>s, <3>1
    <3> QED
      BY <1>s, <1>n, <1>c, <2>1, <3>2, <3>3, <3>4, <3>5 DEF Informed
  <2> QED
    BY <2>2, <2>3
<1>3. CASE WRecv
  <2>1. \A d \in Conn : AcceptWaits(d) <=> AcceptWaits(d)'
    BY <1>3, TakeFirst DEF WRecv
  <2> QED
    BY <1>3, <2>1, SameTold DEF WRecv
<1>4. CASE WFind \/ WInsert \/ WPacket \/ WRecvEnd
  <2>1. UNCHANGED <<told, workq>>
    BY <1>4, PacketTells DEF WFind, WInsert, WPacket, WRecvEnd
  <2> QED
    BY <2>1, SameTold DEF AcceptWaits, Waiting
<1> QED
  BY <1>1, <1>2, <1>3, <1>4 DEF Works

\* The sink hears of a connection when nobody else's events find its id.
LEMMA WorksLate ==
    ASSUME FeedInv, Works
    PROVE  Late'
<1>s. /\ Late /\ Live' \subseteq Live /\ WorkTypeOK /\ Running /\ UNCHANGED uid
      /\ told \in [Conn -> {"never", "open", "closed", "confused"}]
  BY WorksLive, PostsLeave DEF FeedInv, OrderInv, EngineInv, WorkTypeOK
<1>1. ASSUME NEW kind, Take(kind)
      PROVE  \A i, j \in DOMAIN workq' :
                 i < j /\ workq'[i].kind = "accept" /\ uid[workq'[j].sock] = workq'[i].conn
                     => workq'[j].conn = workq'[i].conn
  BY <1>1, <1>s, TakeLive DEF Late
<1>2. ASSUME UNCHANGED told PROVE \A e \in Live', c \in Conn : uid[e.sock] = c /\ e.conn # c => told'[c] = "never"
  BY <1>2, <1>s DEF Late
<1>3. CASE WConnected
  <2>a. PICK e : e = Head(workq)
    OBVIOUS
  <2>1. e.conn \in Conn /\ told' = [told EXCEPT ![e.conn] = "open"]
    BY <1>3, <2>a, ConnectedTells
  <2>2. wev' = e /\ \A f \in Waiting' : uid[f.sock] = e.conn => f.conn = e.conn
    BY <1>3, <2>a, TakeFirst DEF WConnected
  <2>3. ASSUME NEW f \in Live', NEW c \in Conn, uid[f.sock] = c, f.conn # c PROVE told'[c] = "never"
    <3>1. c # e.conn
      BY <2>2, <2>3 DEF Live
    <3> QED
      BY <1>s, <2>1, <2>3, <3>1 DEF Late
  <2> QED
    BY <1>1, <1>3, <1>s, <2>3 DEF WConnected, Late
<1>4. CASE WDisconnected
  <2>a. PICK e : e = Head(workq)
    OBVIOUS
  <2>1. \A c \in Conn : told[c] = "never" => told'[c] = "never"
    BY <1>4, <1>s, <2>a, DisconnectedTells
  <2>2. \A f \in Live', c \in Conn : uid[f.sock] = c /\ f.conn # c => told'[c] = "never"
    BY <1>s, <2>1 DEF Late
  <2> QED
    BY <1>1, <1>4, <1>s, <2>2 DEF WDisconnected, Late
<1>5. CASE WRecv
  BY <1>1, <1>2, <1>5, <1>s DEF WRecv, Late
<1>6. CASE WFind \/ WInsert \/ WPacket \/ WRecvEnd
  <2>1. UNCHANGED <<told, workq>>
    BY <1>6, PacketTells DEF WFind, WInsert, WPacket, WRecvEnd
  <2> QED
    BY <1>2, <1>s, <2>1 DEF Late
<1> QED
  BY <1>3, <1>4, <1>5, <1>6 DEF Works

LEMMA WorksReach ==
    ASSUME FeedInv, Works
    PROVE  Reach'
<1>s. /\ WorkTypeOK /\ Running /\ Reach /\ Late /\ UsersOwnSocket /\ Caused /\ IdFromOwnSocket /\ TypeInv
      /\ told \in [Conn -> {"never", "open", "closed", "confused"}]
      /\ users \in [Id -> Socket \cup {NoSock}] /\ Conn \subseteq Id /\ NoSock \notin Socket
      /\ UNCHANGED <<uid, sk>>
  BY PostsLeave, SocketAssumption DEF FeedInv, OrderInv, OwnInv, SafeInv, EngineInv, WorkTypeOK, Id
<1> SUFFICES ASSUME NEW c \in Conn, told'[c] = "open", uid[sk[c]] = c
             PROVE  users'[c] = sk[c] \/ (wpc' \in {"find", "insert"} /\ wev'.conn = c)
  BY <1>s DEF Reach
<1>w. ASSUME wpc \in {"find", "insert"}
      PROVE  /\ wev \in Live /\ wev.sock \in Socket /\ wev.conn \in Conn /\ wev.sock = sk[wev.conn]
             /\ uid[wev.sock] \in Id
  <2>1. wev # NoEvent /\ wev \in Live /\ wev.kind = "accept"
    BY <1>w, <1>s DEF WorkTypeOK, Running, Live
  <2>2. wev.sock \in Socket /\ wev.conn \in Conn /\ wev.sock = sk[wev.conn]
    BY <1>s, <2>1 DEF Caused, CausedEvent, Live, Events
  <2> QED
    BY <1>s, <2>1, <2>2, IdType
<1>1. CASE WConnected
  <2>a. PICK e : e = Head(workq)
    OBVIOUS
  <2>1. e.conn \in Conn /\ told' = [told EXCEPT ![e.conn] = "open"]
    BY <1>1, <2>a, ConnectedTells
  <2>2. wpc = "idle" /\ wpc' = "find" /\ wev' = e /\ UNCHANGED users
    BY <1>1, <2>a DEF WConnected, Take
  <2>3. CASE c = e.conn
    BY <2>2, <2>3
  <2>4. CASE c # e.conn
    BY <1>s, <2>1, <2>2, <2>4 DEF Reach
  <2> QED
    BY <2>3, <2>4
<1>2. CASE WFind
  <2>1. UNCHANGED <<users, told>> /\ wpc = "find"
    BY <1>2 DEF WFind
  <2>2. users[c] = sk[c] \/ wev.conn = c
    BY <1>s, <2>1 DEF Reach
  <2>3. CASE wev.conn = c /\ users[c] # NoSock
    BY <1>s, <2>1, <2>3 DEF UsersOwnSocket
  <2>4. CASE wev.conn = c /\ users[c] = NoSock
    <3>1. uid[wev.sock] = c
      BY <1>w, <2>1, <2>4
    <3> QED
      BY <1>2, <2>4, <3>1 DEF WFind
  <2> QED
    BY <2>1, <2>2, <2>3, <2>4
<1>3. CASE WInsert
  <2>1. /\ wpc = "insert" /\ UNCHANGED told
        /\ \A d \in Conn : users'[d] = IF d = uid[wev.sock] THEN wev.sock ELSE users[d]
    BY <1>3, <1>s, <1>w DEF WInsert
  <2>2. CASE uid[wev.sock] = c
    BY <1>s, <1>w, <2>1, <2>2 DEF IdFromOwnSocket
  <2>3. CASE uid[wev.sock] # c
    BY <1>s, <1>w, <2>1, <2>3 DEF Reach
  <2> QED
    BY <2>2, <2>3
<1>4. CASE WDisconnected
  <2>a. PICK e : e = Head(workq)
    OBVIOUS
  <2>1. e \in Live /\ uid[e.sock] \in Id /\ e.conn \in Conn \cup {NoConn}
    BY <1>4, <2>a, TakeFirst DEF WDisconnected
  <2>2. /\ wpc = "idle"
        /\ \A d \in Conn : users'[d] = IF d = uid[e.sock] THEN NoSock ELSE users[d]
    BY <1>4, <1>s, <2>a, <2>1 DEF WDisconnected, Take
  <2>3. c # e.conn /\ told[c] = "open"
    BY <1>4, <1>s, <2>a, <2>1, DisconnectedTells, ConnAssumption
  <2>4. uid[e.sock] # c
    BY <1>s, <2>1, <2>3 DEF Late
  <2> QED
    BY <1>s, <2>2, <2>3, <2>4 DEF Reach
<1>5. CASE WRecv \/ WPacket \/ WRecvEnd
  <2>1. wpc \notin {"find", "insert"} /\ UNCHANGED <<users, told>>
    BY <1>5, PacketTells DEF WRecv, WPacket, WRecvEnd, Take
  <2> QED
    BY <1>s, <2>1 DEF Reach
<1> QED
  BY <1>1, <1>2, <1>3, <1>4, <1>5 DEF Works

LEMMA FeedStep == ASSUME Quiet PROVE FeedInv /\ [EngineNext]_engineVars => FeedInv'
<1> SUFFICES ASSUME FeedInv, [EngineNext]_engineVars PROVE FeedInv'
  OBVIOUS
<1>1. TypeInv /\ OrderInv /\ IdInv
  BY DEF FeedInv, OrderInv, OwnInv, SafeInv
<1>2. OrderInv' /\ IdInv'
  BY <1>1, OrderStep, EngineStep, IdStep
<1>3. Informed' /\ Late' /\ Reach'
  BY <1>1, EngineSteps, ServesFeed, PostsFeed, WorksInformed, WorksLate, WorksReach
<1> QED
  BY <1>2, <1>3 DEF FeedInv

\* The work thread runs its lambdas after any delay, and reads ids that may by then be
\* another connection's; while a connection that the sink was told of has its id, the
\* late lambdas neither erase it from users_map_ nor keep it out, so that send_data
\* finds it.
THEOREM ReachableCorrect == ASSUME Quiet PROVE EngineSpec => []OpenIsReachable
<1>1. EngineInit => FeedInv
  BY FeedStart
<1>2. FeedInv /\ [EngineNext]_engineVars => FeedInv'
  BY FeedStep
<1>3. FeedInv => OpenIsReachable
  BY DEF FeedInv, Reach, OpenIsReachable
<1> QED
  BY <1>1, <1>2, <1>3, PTL DEF EngineSpec

\* However late the lambdas run, the sink is called as ConnectionFeed says: each
\* connection is connected, read and disconnected in this order, although its events
\* are posted by two threads and its socket may be in use again; and the id of a
\* connection that was announced is never given for another one.
THEOREM FeedCorrect == ASSUME Quiet PROVE EngineSpec => FeedSpec
<1>1. EngineInit => FeedInv /\ Feed!Init
  BY FeedStart DEF EngineInit, Feed!Init
<1>2. FeedInv /\ [EngineNext]_engineVars => FeedInv'
  BY FeedStep
<1>3. FeedInv /\ [EngineNext]_engineVars => [Feed!Next]_<<told, call>>
  <2> SUFFICES ASSUME FeedInv, [EngineNext]_engineVars
               PROVE  Feed!Next \/ UNCHANGED <<told, call>>
    OBVIOUS
  <2>1. CASE Serves \/ \E e \in Events : Posts(e)
    BY <2>1 DEF Serves, Posts, Post, workVars
  <2>2. CASE WConnected
    <3> DEFINE e == Head(workq)
    <3>1. /\ e.conn \in Conn /\ told[e.conn] = "never" /\ told' = [told EXCEPT ![e.conn] = "open"]
          /\ call' = [kind |-> "connected", id |-> uid[e.sock], conn |-> e.conn]
          /\ uid[e.sock] \in Feed!Names(e.conn)
      BY <2>2, ConnectedTells
    <3> HIDE DEF e
    <3> QED
      BY <3>1 DEF Feed!Next, Feed!Connected, Feed!Report
  <2>3. CASE WDisconnected
    <3> DEFINE e == Head(workq)
    <3>1. /\ e.conn = NoConn => told' = told
          /\ e.conn # NoConn => /\ e.conn \in Conn /\ told[e.conn] = "open"
                                /\ told' = [told EXCEPT ![e.conn] = "closed"]
          /\ call' = [kind |-> "disconnected", id |-> uid[e.sock], conn |-> e.conn]
          /\ uid[e.sock] \in Feed!Names(e.conn)
      BY <2>3, DisconnectedTells
    <3> HIDE DEF e
    <3> QED
      BY <3>1 DEF Feed!Next, Feed!Disconnected, Feed!FailedAccept, Feed!Report
  <2>4. CASE WPacket
    BY <2>4, PacketTells DEF Feed!Next, Feed!Read, Feed!Report
  <2>5. CASE WFind \/ WInsert \/ WRecv \/ WRecvEnd
    BY <2>5 DEF WFind, WInsert, WRecv, WRecvEnd
  <2>6. TypeInv
    BY DEF FeedInv, OrderInv, OwnInv, SafeInv
  <2> QED
    BY <2>1, <2>2, <2>3, <2>4, <2>5, <2>6, EngineSteps DEF Works
<1> QED
  BY <1>1, <1>2, <1>3, PTL DEF EngineSpec, FeedSpec, Feed!Spec
=============================================================================
