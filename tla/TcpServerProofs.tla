--------------------------- MODULE TcpServerProofs ---------------------------
(***************************************************************************)
(* What TcpServer guarantees for every set of sockets, connections, writes *)
(* and control threads.                                                    *)
(***************************************************************************)
EXTENDS TcpServer, TLAPS

USE DEF Chain

\* The program counters and the variables they make sense of.
Shape ==
    /\ acceptSt # "none" => acceptSock \in Socket
    /\ hpc = "arm" => acceptSock \in Socket
    /\ hpc \in {"accepted", "failed", "free", "reset", "notify", "read"} => hsock \in Socket
    /\ hpc \in {"accepted", "read"} => hconn \in Conn
    /\ hconn \in Conn => hsock \in Socket /\ sk[hconn] = hsock
    /\ hpc = "idle" => hsock = NoSock /\ hconn = NoConn
    /\ \A x \in Chain : st[x] # "none" => sk[x] \in Socket

TypeInv == TypeOK /\ Shape

LEMMA TypeInit == Init => TypeInv
<1> SUFFICES ASSUME Init PROVE TypeInv
  OBVIOUS
<1>1. free \subseteq Socket
  BY DEF Init, kSubset
<1>2. TypeOK
  BY <1>1 DEF Init, TypeOK
<1>3. Shape
  BY ConnAssumption DEF Init, Shape
<1> QED
  BY <1>2, <1>3 DEF TypeInv

\* The effect of the three operations on sockets and the pool.
LEMMA PoolGetType ==
    ASSUME TypeInv, NEW s \in Socket, PoolGet(s)
    PROVE  busy' \subseteq Socket /\ free' \subseteq Socket
BY DEF PoolGet, kSubset, TypeInv, TypeOK

LEMMA PoolFreeType ==
    ASSUME TypeInv, NEW s, PoolFree(s)
    PROVE  /\ busy' \subseteq Socket /\ free' \subseteq Socket
           /\ fd' \in [Socket -> Conn \cup {NoConn}]
           /\ uid' \in [Socket -> Conn \cup {NoId, NoPeerId}]
           /\ lock' \in Socket \cup {NoSock}
BY DEF PoolFree, TypeInv, TypeOK

LEMMA SocketResetType ==
    ASSUME TypeInv, NEW s, SocketReset(s)
    PROVE  /\ busy' \subseteq Socket /\ free' \subseteq Socket
           /\ fd' \in [Socket -> Conn \cup {NoConn}]
           /\ uid' \in [Socket -> Conn \cup {NoId, NoPeerId}]
           /\ lock' \in Socket \cup {NoSock}
BY DEF SocketReset, poolVars, TypeInv, TypeOK

LEMMA TypeStep == TypeInv /\ [Next]_vars => TypeInv'
<1> SUFFICES ASSUME TypeInv, [Next]_vars PROVE TypeInv'
  OBVIOUS
<1> USE SocketAssumption, ConnAssumption DEF TypeInv, TypeOK, Shape, poolVars, sockVars,
    acceptVars, handlerVars, chainVars, appVars, ctlVars
<1>1. ASSUME NEW k \in Caller, ControlNext(k) PROVE TypeInv'
  <2> USE DEF Goto
  <2>1. CASE Start(k)
    BY <2>1 DEF Start
  <2>2. CASE StopFlag(k)
    BY <2>2 DEF StopFlag
  <2>3. CASE StopCancel(k)
    BY <2>3 DEF StopCancel
  <2>4. CASE CloseAll(k)
    <3>1. /\ fd' \in [Socket -> Conn \cup {NoConn}]
          /\ uid' \in [Socket -> Conn \cup {NoId, NoPeerId}]
      BY <2>4 DEF CloseAll
    <3>2. ctl' \in [Caller -> {"idle", "start", "stop", "join", "each", "joinio"}]
      BY <2>4 DEF CloseAll
    <3> QED
      BY <2>4, <3>1, <3>2 DEF CloseAll
  <2>5. CASE JoinAcceptor(k)
    BY <2>5 DEF JoinAcceptor
  <2>6. CASE JoinIo(k)
    <3>1. /\ ctl' = [ctl EXCEPT ![k] = "idle"]
          /\ UNCHANGED <<stoped, poolVars, sockVars, acceptVars, handlerVars, peer, chainVars, appVars>>
      BY <2>6 DEF JoinIo
    <3>2. started' \in BOOLEAN
      BY <2>6, Zenon DEF JoinIo
    <3> QED
      BY <3>1, <3>2
  <2> QED
    BY <1>1, <2>1, <2>2, <2>3, <2>4, <2>5, <2>6 DEF ControlNext
<1>2. ASSUME NEW c \in Conn, AcceptOk(c) PROVE TypeInv'
  BY <1>2 DEF AcceptOk, EnterHandler
<1>3. CASE AcceptAborted \/ AcceptError
  BY <1>3 DEF AcceptAborted, AcceptError, EnterHandler
<1>4. CASE HandlerNext
  <2>1. CASE AcceptId
    BY <2>1 DEF AcceptId
  <2>2. CASE AcceptClose
    BY <2>2 DEF AcceptClose
  <2>3. CASE AcceptFree
    BY <2>3, PoolFreeType DEF AcceptFree, AfterFree
  <2>4. CASE AcceptReset
    BY <2>4, SocketResetType DEF AcceptReset
  <2>5. CASE AcceptStopped
    BY <2>5 DEF AcceptStopped, AcceptClientReturns
  <2>6. ASSUME NEW s \in Socket, AcceptGet(s) PROVE TypeInv'
    BY <2>6, PoolGetType DEF AcceptGet
  <2>7. CASE AcceptArm
    BY <2>7 DEF AcceptArm, AcceptClientReturns
  <2>8. CASE AcceptNotify
    BY <2>8 DEF AcceptNotify
  <2>9. CASE AcceptRead
    BY <2>9 DEF AcceptRead, BeginOp
  <2> QED
    BY <1>4, <2>1, <2>2, <2>3, <2>4, <2>5, <2>6, <2>7, <2>8, <2>9 DEF HandlerNext
<1>5. ASSUME NEW x \in Chain, OpDone(x) \/ ChainNext(x) PROVE TypeInv'
  <2>1. CASE OpDone(x) \/ OpFail(x) \/ HandlerRead(x) \/ HandlerWrite(x) \/ HandlerClose(x)
    <3>1. PICK state \in {"ready", "failed", "rearm", "done", "free"} :
              st[x] # "none" /\ st' = [st EXCEPT ![x] = state]
      BY <2>1 DEF OpDone, OpFail, HandlerRead, HandlerWrite, HandlerClose, Step
    <3>2. UNCHANGED <<on, sk, poolVars, sockVars, acceptVars, handlerVars, peer, appVars, ctlVars>>
      BY <2>1 DEF OpDone, OpFail, HandlerRead, HandlerWrite, HandlerClose
    <3> QED
      BY <3>1, <3>2
  <2>2. CASE Rearm(x)
    <3>1. /\ sk[x] \in Socket /\ sk' = sk
          /\ st' \in [Chain -> {"none", "pending", "ready", "rearm", "failed", "free", "reset", "done"}]
          /\ on' \in [Chain -> Conn \cup {NoConn}]
          /\ \A y \in Chain : st'[y] # "none" => st[y] # "none"
      BY <2>2 DEF Rearm, BeginOp
    <3>2. UNCHANGED <<poolVars, sockVars, acceptVars, handlerVars, peer, appVars, ctlVars>>
      BY <2>2 DEF Rearm
    <3> QED
      BY <3>1, <3>2
  <2>3. CASE HandlerFree(x)
    BY <2>3, PoolFreeType DEF HandlerFree, Step, AfterFree
  <2>4. CASE HandlerReset(x)
    BY <2>4, SocketResetType DEF HandlerReset, Step
  <2> QED
    BY <1>5, <2>1, <2>2, <2>3, <2>4 DEF ChainNext
<1>6. CASE AppNext
  <2>1. ASSUME NEW s \in Socket, AppReject(s) PROVE TypeInv'
    BY <2>1 DEF AppReject
  <2>2. ASSUME NEW w \in Write, NEW s \in Socket, AppWrite(w, s) PROVE TypeInv'
    BY <2>2 DEF AppWrite, BeginOp
  <2>3. CASE AppFree
    BY <2>3, PoolFreeType DEF AppFree, AfterFree
  <2>4. CASE AppReset
    BY <2>4, SocketResetType DEF AppReset
  <2> QED
    BY <1>6, <2>1, <2>2, <2>3, <2>4 DEF AppNext
<1>7. ASSUME NEW c \in Conn, PeerClose(c) PROVE TypeInv'
  BY <1>7 DEF PeerClose
<1>8. CASE UNCHANGED vars
  BY <1>8 DEF vars
<1> QED
  BY <1>1, <1>2, <1>3, <1>4, <1>5, <1>6, <1>7, <1>8 DEF Next

\* Every variable keeps its type, and the program counters of the acceptor
\* thread and of the chains agree with the sockets they work on.
THEOREM TypeCorrect == Spec => []TypeOK
<1>1. TypeInv => TypeOK
  BY DEF TypeInv
<1> QED
  BY <1>1, TypeInit, TypeStep, PTL DEF Spec
-----------------------------------------------------------------------------
(* The accept chain.                                                       *)

\* Steps that the acceptor thread and start() / stop() have no part in.
Elsewhere == UNCHANGED <<ctlVars, acceptVars, handlerVars>>

LEMMA ElsewhereSteps ==
    ASSUME \/ \E x \in Chain : OpDone(x) \/ ChainNext(x)
           \/ AppNext
           \/ \E c \in Conn : PeerClose(c)
           \/ UNCHANGED vars
    PROVE  Elsewhere
BY DEF Elsewhere, vars, AppNext, OpDone, ChainNext, OpFail, HandlerRead, Rearm, HandlerWrite, HandlerClose,
    HandlerFree, HandlerReset, PeerClose, AppReject, AppWrite, AppFree, AppReset

\* One accept at a time, and none when the server does not run.
Serial ==
    /\ hpc \in {"accepted", "failed", "free", "reset", "next", "arm"} => acceptSt = "none"
    /\ ~started \/ (\E k \in Caller : ctl[k] \in {"each", "joinio"})
          => hpc = "idle" /\ acceptSt = "none"

LEMMA SerialInit == Init => Serial
BY DEF Init, Serial

LEMMA SerialStep == TypeInv /\ Serial /\ [Next]_vars => Serial'
<1> SUFFICES ASSUME TypeInv, Serial, [Next]_vars PROVE Serial'
  OBVIOUS
<1>ty. TypeOK
  BY DEF TypeInv
<1> USE DEF acceptVars, handlerVars, ctlVars
<1>1. ASSUME NEW k \in Caller, ControlNext(k) PROVE Serial'
  <2> USE <1>ty DEF Goto, TypeOK, Serial
  <2>1. CASE Start(k)
    BY <2>1 DEF Start, StopMutexFree
  <2>2. CASE StopFlag(k)
    BY <2>2 DEF StopFlag
  <2>3. CASE StopCancel(k)
    BY <2>3 DEF StopCancel
  <2>4. CASE JoinAcceptor(k)
    BY <2>4 DEF JoinAcceptor
  <2>5. CASE CloseAll(k)
    BY <2>5 DEF CloseAll
  <2>6. CASE JoinIo(k)
    <3>1. ctl[k] = "joinio" /\ UNCHANGED <<hpc, acceptSt>>
      BY <2>6 DEF JoinIo
    <3> QED
      BY <3>1
  <2> QED
    BY <1>1, <2>1, <2>2, <2>3, <2>4, <2>5, <2>6 DEF ControlNext
<1>2. ASSUME NEW c \in Conn, AcceptOk(c) PROVE Serial'
  BY <1>2 DEF AcceptOk, EnterHandler, Serial
<1>3. CASE AcceptAborted \/ AcceptError
  BY <1>3 DEF AcceptAborted, AcceptError, EnterHandler, Serial
<1>4. CASE HandlerNext
  <2>1. CASE AcceptStopped \/ AcceptArm
    <3>1. /\ hpc \in {"next", "arm"} /\ started' = started
          /\ ctl' \in {ctl, [k \in Caller |-> IF ctl[k] = "start" THEN "idle" ELSE ctl[k]]}
          /\ hpc' \in {"idle", "notify"}
      BY <2>1 DEF AcceptStopped, AcceptArm, AcceptClientReturns
    <3>2. \A k \in Caller : ctl'[k] \in {"each", "joinio"} => ctl[k] \in {"each", "joinio"}
      BY <3>1, <1>ty DEF TypeOK
    <3> QED
      BY <3>1, <3>2 DEF Serial
  <2>2. CASE HandlerNext /\ ~(AcceptStopped \/ AcceptArm)
    BY <2>2 DEF HandlerNext, AcceptId, AcceptClose, AcceptFree, AcceptReset, AcceptGet,
        AcceptNotify, AcceptRead, AfterFree, Serial
  <2> QED
    BY <1>4, <2>1, <2>2
<1>5. CASE Elsewhere
  BY <1>5 DEF Elsewhere, Serial
<1> QED
  BY <1>1, <1>2, <1>3, <1>4, <1>5, ElsewhereSteps DEF Next

\* What the server knows to be listening for.
LEMMA ListeningStep == TypeInv /\ KeepsListening /\ [Next]_vars => KeepsListening'
<1> SUFFICES ASSUME TypeInv, KeepsListening, [Next]_vars PROVE KeepsListening'
  OBVIOUS
<1>ty. TypeOK
  BY DEF TypeInv
<1> USE DEF acceptVars, handlerVars, ctlVars
<1>1. ASSUME NEW k \in Caller, ControlNext(k) PROVE KeepsListening'
  <2> USE <1>ty DEF Goto, TypeOK, KeepsListening
  <2>1. CASE Start(k)
    BY <2>1 DEF Start
  <2>2. CASE StopFlag(k)
    BY <2>2 DEF StopFlag
  <2>3. CASE StopCancel(k)
    BY <2>3 DEF StopCancel
  <2>4. CASE JoinAcceptor(k)
    BY <2>4 DEF JoinAcceptor
  <2>5. CASE CloseAll(k)
    BY <2>5 DEF CloseAll
  <2>6. CASE JoinIo(k)
    BY <2>6 DEF JoinIo
  <2> QED
    BY <1>1, <2>1, <2>2, <2>3, <2>4, <2>5, <2>6 DEF ControlNext
<1>2. ASSUME NEW c \in Conn, AcceptOk(c) PROVE KeepsListening'
  BY <1>2 DEF AcceptOk, EnterHandler, KeepsListening
<1>3. CASE AcceptAborted \/ AcceptError
  BY <1>3 DEF AcceptAborted, AcceptError, EnterHandler, KeepsListening
<1>4. CASE HandlerNext
  <2>1. CASE AcceptStopped
    BY <2>1 DEF AcceptStopped, AcceptClientReturns, KeepsListening
  <2>2. CASE AcceptArm
    BY <2>2 DEF AcceptArm, AcceptClientReturns, KeepsListening
  <2>3. CASE HandlerNext /\ ~(AcceptStopped \/ AcceptArm)
    <3>1. UNCHANGED <<started, stoped, ctl, acceptSt>>
      BY <2>3 DEF HandlerNext, AcceptId, AcceptClose, AcceptFree, AcceptReset, AcceptGet,
          AcceptNotify, AcceptRead
    <3>2. hpc \in {"accepted", "failed", "free", "reset", "next", "arm"}
            => hpc' \in {"accepted", "failed", "free", "reset", "next", "arm"}
      BY <2>3 DEF HandlerNext, AcceptId, AcceptClose, AcceptFree, AcceptReset, AcceptGet,
          AcceptNotify, AcceptRead, AfterFree
    <3> QED
      BY <3>1, <3>2 DEF KeepsListening
  <2> QED
    BY <1>4, <2>1, <2>2, <2>3
<1>5. CASE Elsewhere
  BY <1>5 DEF Elsewhere, KeepsListening
<1> QED
  BY <1>1, <1>2, <1>3, <1>4, <1>5, ElsewhereSteps DEF Next

\* While the server runs and is not asked to stop, an accept is outstanding or
\* about to be started: whatever fails, the accept chain is not broken.
THEOREM ListeningCorrect == Spec => []KeepsListening
<1>1. Init => KeepsListening
  BY DEF Init, KeepsListening
<1> QED
  BY <1>1, TypeInit, TypeStep, ListeningStep, PTL DEF Spec

-----------------------------------------------------------------------------
(* What holds whatever the application does.                               *)

\* A connection that was not accepted yet has no socket and no chain, and the
\* one that handler_accept works on has no chain.
Fresh ==
    /\ \A c \in Conn : peer[c] = "waiting" => sk[c] = NoSock /\ st[c] = "none" /\ hconn # c
    /\ hconn \in Conn => st[hconn] = "none"

SafeInv == TypeInv /\ Serial /\ PoolDisjoint /\ ArmedIsClosed /\ IdFromOwnSocket /\ Fresh

LEMMA SafeInit == Init => SafeInv
<1> SUFFICES ASSUME Init PROVE SafeInv
  OBVIOUS
<1>1. PoolDisjoint /\ ArmedIsClosed /\ Fresh
  BY ConnAssumption DEF Init, PoolDisjoint, ArmedIsClosed, Fresh
<1>2. IdFromOwnSocket
  BY ConnAssumption DEF Init, IdFromOwnSocket
<1> QED
  BY <1>1, <1>2, TypeInit, SerialInit DEF SafeInv

\* The operations on the pool and on one socket open nothing and give no id.
Closes ==
    /\ \A s \in Socket : fd'[s] \in {fd[s], NoConn}
    /\ \A s \in Socket : uid'[s] \in {uid[s], NoId}

LEMMA PoolGetSafe ==
    ASSUME SafeInv, NEW s \in Socket, PoolGet(s)
    PROVE  PoolDisjoint'
BY DEF PoolGet, kSubset, SafeInv, TypeInv, TypeOK, PoolDisjoint

LEMMA PoolFreeSafe ==
    ASSUME SafeInv, NEW s, PoolFree(s)
    PROVE  PoolDisjoint' /\ Closes
BY DEF PoolFree, SafeInv, TypeInv, TypeOK, PoolDisjoint, Closes

LEMMA SocketResetSafe ==
    ASSUME SafeInv, NEW s, SocketReset(s)
    PROVE  PoolDisjoint' /\ Closes
BY DEF SocketReset, poolVars, SafeInv, TypeInv, TypeOK, PoolDisjoint, Closes

\* A step that only closes sockets and forgets ids keeps what relates them to
\* connections.
LEMMA ClosesSafe ==
    ASSUME SafeInv, TypeInv', Serial', Closes, PoolDisjoint',
           UNCHANGED <<acceptSock, peer, sk>>,
           acceptSt' \in {"armed", "cancelled"} => acceptSt \in {"armed", "cancelled"},
           hconn' \in {hconn, NoConn},
           \A c \in Conn : st[c] = "none" => st'[c] = "none"
    PROVE  SafeInv'
<1>1. ArmedIsClosed' /\ Fresh'
  BY ConnAssumption DEF SafeInv, TypeInv, TypeOK, Closes, ArmedIsClosed, Fresh
<1>2. IdFromOwnSocket'
  BY ConnAssumption DEF SafeInv, TypeInv, TypeOK, Closes, IdFromOwnSocket
<1> QED
  BY <1>1, <1>2 DEF SafeInv

LEMMA SafeStep == SafeInv /\ [Next]_vars => SafeInv'
<1> SUFFICES ASSUME SafeInv, [Next]_vars PROVE SafeInv'
  OBVIOUS
<1>t. TypeInv' /\ Serial'
  BY TypeStep, SerialStep DEF SafeInv
<1>ty. TypeOK /\ Shape
  BY DEF SafeInv, TypeInv
<1>a. ASSUME Closes, PoolDisjoint', UNCHANGED <<acceptSock, peer, sk>>, acceptSt' = acceptSt,
             hconn' = hconn, \A c \in Conn : st[c] = "none" => st'[c] = "none"
      PROVE  SafeInv'
  BY <1>a, <1>t, ClosesSafe
<1>b. ASSUME UNCHANGED <<busy, free, fd, uid>>
      PROVE  Closes /\ PoolDisjoint'
  BY <1>b DEF SafeInv, PoolDisjoint, Closes
<1> USE DEF poolVars, sockVars, acceptVars, handlerVars, chainVars, appVars, ctlVars
<1>1. ASSUME NEW k \in Caller, ControlNext(k) PROVE SafeInv'
  <2>1. CASE Start(k)
    BY <1>b, <2>1, <1>t, ClosesSafe DEF Start
  <2>2. CASE StopFlag(k) \/ JoinAcceptor(k) \/ JoinIo(k)
    <3>1. UNCHANGED <<busy, free, fd, uid, acceptSock, acceptSt, peer, sk, st, hconn>>
      BY <2>2 DEF StopFlag, JoinAcceptor, JoinIo
    <3> QED
      BY <1>a, <1>b, <3>1
  <2>3. CASE StopCancel(k)
    BY <1>b, <2>3, <1>t, ClosesSafe DEF StopCancel
  <2>4. CASE CloseAll(k)
    <3>1. Closes
      BY <2>4 DEF CloseAll, Closes
    <3>2. PoolDisjoint'
      BY <2>4 DEF CloseAll, SafeInv, PoolDisjoint
    <3> QED
      BY <3>1, <3>2, <2>4, <1>a DEF CloseAll
  <2> QED
    BY <1>1, <2>1, <2>2, <2>3, <2>4 DEF ControlNext
<1>2. ASSUME NEW c \in Conn, AcceptOk(c) PROVE SafeInv'
  <2>1. /\ acceptSock \in Socket /\ peer[c] = "waiting" /\ fd[acceptSock] = NoConn
        /\ fd' = [fd EXCEPT ![acceptSock] = c] /\ sk' = [sk EXCEPT ![c] = acceptSock]
        /\ uid' = uid /\ sk[c] = NoSock
    BY <1>2, <1>ty DEF AcceptOk, Shape, SafeInv, ArmedIsClosed, Fresh
  <2>2. \A s \in Socket : uid[s] # c /\ fd[s] # c
    BY <2>1, SocketAssumption DEF SafeInv, IdFromOwnSocket
  <2>3. IdFromOwnSocket'
    BY <2>1, <2>2, <1>ty DEF IdFromOwnSocket, SafeInv, TypeOK
  <2>4. PoolDisjoint' /\ ArmedIsClosed'
    BY <1>2 DEF AcceptOk, EnterHandler, SafeInv, PoolDisjoint, ArmedIsClosed
  <2>5. Fresh'
    BY <1>2, <1>ty DEF AcceptOk, EnterHandler, SafeInv, Fresh, TypeOK
  <2> QED
    BY <1>t, <2>3, <2>4, <2>5 DEF SafeInv
<1>3. CASE AcceptAborted \/ AcceptError
  <2>1. /\ UNCHANGED <<busy, free, fd, uid, peer, sk, st>>
        /\ hconn' = NoConn /\ acceptSt' = "none"
    BY <1>3 DEF AcceptAborted, AcceptError, EnterHandler
  <2>2. ArmedIsClosed' /\ PoolDisjoint'
    BY <2>1 DEF ArmedIsClosed, PoolDisjoint, SafeInv
  <2>3. IdFromOwnSocket' /\ Fresh'
    BY <2>1, ConnAssumption DEF IdFromOwnSocket, Fresh, SafeInv
  <2> QED
    BY <1>t, <2>2, <2>3 DEF SafeInv
<1>4. CASE HandlerNext
  <2>1. CASE AcceptId
    <3>1. PICK id \in {hconn, NoPeerId} : uid' = [uid EXCEPT ![hsock] = id]
      BY <2>1 DEF AcceptId
    <3>2. hconn \in Conn /\ sk[hconn] = hsock
      BY <2>1, <1>ty DEF AcceptId, Shape
    <3>3. IdFromOwnSocket'
      BY <2>1, <3>1, <3>2, <1>ty, ConnAssumption DEF AcceptId, SafeInv, IdFromOwnSocket, TypeOK
    <3>4. PoolDisjoint' /\ ArmedIsClosed' /\ Fresh'
      BY <2>1 DEF AcceptId, SafeInv, PoolDisjoint, ArmedIsClosed, Fresh
    <3> QED
      BY <1>t, <3>3, <3>4 DEF SafeInv
  <2>2. CASE AcceptClose \/ AcceptStopped
    BY <2>2, <1>a, <1>b DEF AcceptClose, AcceptStopped, AcceptClientReturns
  <2>3. CASE AcceptFree
    BY <2>3, <1>a, PoolFreeSafe DEF AcceptFree
  <2>4. CASE AcceptReset
    BY <2>4, <1>a, SocketResetSafe DEF AcceptReset
  <2>5. ASSUME NEW s \in Socket, AcceptGet(s) PROVE SafeInv'
    <3>1. PoolDisjoint'
      BY <2>5, PoolGetSafe DEF AcceptGet
    <3>2. ArmedIsClosed'
      BY <2>5 DEF AcceptGet, SafeInv, Serial, ArmedIsClosed
    <3>3. IdFromOwnSocket' /\ Fresh'
      BY <2>5 DEF AcceptGet, SafeInv, IdFromOwnSocket, Fresh
    <3> QED
      BY <1>t, <3>1, <3>2, <3>3 DEF SafeInv
  <2>6. CASE AcceptArm
    <3>1. ArmedIsClosed' /\ PoolDisjoint'
      BY <2>6, <1>ty, SocketAssumption DEF AcceptArm, Shape, SafeInv, ArmedIsClosed, PoolDisjoint
    <3>2. IdFromOwnSocket' /\ Fresh'
      BY <2>6 DEF AcceptArm, AcceptClientReturns, SafeInv, IdFromOwnSocket, Fresh
    <3> QED
      BY <1>t, <3>1, <3>2 DEF SafeInv
  <2>7. CASE AcceptNotify
    BY <2>7, <1>a, <1>b DEF AcceptNotify
  <2>8. CASE AcceptRead
    <3>1. hconn \in Conn /\ peer[hconn] # "waiting"
      BY <2>8, <1>ty DEF AcceptRead, Shape, SafeInv, Fresh
    <3>2. Fresh'
      BY <2>8, <3>1, <1>ty, ConnAssumption DEF AcceptRead, BeginOp, SafeInv, Fresh, TypeOK
    <3>3. PoolDisjoint' /\ ArmedIsClosed' /\ IdFromOwnSocket'
      BY <2>8 DEF AcceptRead, SafeInv, PoolDisjoint, ArmedIsClosed, IdFromOwnSocket
    <3> QED
      BY <1>t, <3>2, <3>3 DEF SafeInv
  <2> QED
    BY <1>4, <2>1, <2>2, <2>3, <2>4, <2>5, <2>6, <2>7, <2>8 DEF HandlerNext
<1>5. ASSUME NEW x \in Chain, OpDone(x) \/ ChainNext(x) PROVE SafeInv'
  <2>1. CASE OpDone(x) \/ OpFail(x) \/ HandlerRead(x) \/ HandlerWrite(x) \/ HandlerClose(x)
    <3>1. PICK state : st[x] # "none" /\ st' = [st EXCEPT ![x] = state]
      BY <2>1 DEF OpDone, OpFail, HandlerRead, HandlerWrite, HandlerClose, Step
    <3>2. UNCHANGED <<busy, free, fd, uid, acceptSock, acceptSt, peer, sk, hconn>>
      BY <2>1 DEF OpDone, OpFail, HandlerRead, HandlerWrite, HandlerClose
    <3> QED
      BY <3>1, <3>2, <1>a, <1>b, <1>ty DEF TypeOK
  <2>2. CASE Rearm(x)
    BY <2>2, <1>a, <1>b, <1>ty DEF Rearm, BeginOp, TypeOK
  <2>3. CASE HandlerFree(x)
    BY <2>3, <1>a, <1>ty, PoolFreeSafe DEF HandlerFree, Step, TypeOK
  <2>4. CASE HandlerReset(x)
    BY <2>4, <1>a, <1>ty, SocketResetSafe DEF HandlerReset, Step, TypeOK
  <2> QED
    BY <1>5, <2>1, <2>2, <2>3, <2>4 DEF ChainNext
<1>6. CASE AppNext
  <2>1. ASSUME NEW s \in Socket, AppReject(s) PROVE SafeInv'
    BY <2>1, <1>a, <1>b DEF AppReject
  <2>2. ASSUME NEW w \in Write, NEW s \in Socket, AppWrite(w, s) PROVE SafeInv'
    <3>1. \A c \in Conn : st'[c] = st[c] /\ sk'[c] = sk[c]
      BY <2>2, <1>ty, ConnAssumption DEF AppWrite, BeginOp, TypeOK
    <3>2. PoolDisjoint' /\ ArmedIsClosed'
      BY <2>2 DEF AppWrite, SafeInv, PoolDisjoint, ArmedIsClosed
    <3>3. IdFromOwnSocket' /\ Fresh'
      BY <2>2, <3>1, ConnAssumption DEF AppWrite, SafeInv, IdFromOwnSocket, Fresh
    <3> QED
      BY <1>t, <3>2, <3>3 DEF SafeInv
  <2>3. CASE AppFree
    BY <2>3, <1>a, PoolFreeSafe DEF AppFree
  <2>4. CASE AppReset
    BY <2>4, <1>a, SocketResetSafe DEF AppReset
  <2> QED
    BY <1>6, <2>1, <2>2, <2>3, <2>4 DEF AppNext
<1>7. ASSUME NEW c \in Conn, PeerClose(c) PROVE SafeInv'
  <2>1. Fresh'
    BY <1>7, <1>ty DEF PeerClose, SafeInv, Fresh, TypeOK
  <2>2. PoolDisjoint' /\ ArmedIsClosed' /\ IdFromOwnSocket'
    BY <1>7 DEF PeerClose, SafeInv, PoolDisjoint, ArmedIsClosed, IdFromOwnSocket
  <2> QED
    BY <1>t, <2>1, <2>2 DEF SafeInv
<1>8. CASE UNCHANGED vars
  BY <1>8, <1>a, <1>b DEF vars
<1> QED
  BY <1>1, <1>2, <1>3, <1>4, <1>5, <1>6, <1>7, <1>8 DEF Next

LEMMA SafeInvCorrect == Spec => []SafeInv
BY SafeInit, SafeStep, PTL DEF Spec

\* The busy and the free list of the pool never share a socket (pool.h:53-68),
\* although a stale free_client may return a socket that is in use again.
THEOREM PoolCorrect == Spec => []PoolDisjoint
<1>1. SafeInv => PoolDisjoint
  BY DEF SafeInv
<1> QED
  BY <1>1, SafeInvCorrect, PTL

\* A connection is accepted into a closed socket only: the one that the accept
\* was started for cannot be opened by anything else, even from the free list.
THEOREM ArmedCorrect == Spec => []ArmedIsClosed
<1>1. SafeInv => ArmedIsClosed
  BY DEF SafeInv
<1> QED
  BY <1>1, SafeInvCorrect, PTL

\* Connections and unique ids stay with the socket that accepted them.
THEOREM IdCorrect == Spec => []IdFromOwnSocket
<1>1. SafeInv => IdFromOwnSocket
  BY DEF SafeInv
<1> QED
  BY <1>1, SafeInvCorrect, PTL
=============================================================================
