------------------------ MODULE TcpServerQuietProofs ------------------------
(***************************************************************************)
(* What TcpServer guarantees when the application refuses nothing and      *)
(* sends nothing (see Quiet in TcpServer for when this is so): every open  *)
(* connection has exactly one owner, and is closed by stop().              *)
(***************************************************************************)
EXTENDS TcpServerProofs

USE DEF Chain

Owns(c) == ReadOwns(c) \/ HandlerOwns(c)

\* Owned sockets are busy, and each has one owner: a connection, the accept
\* under way, or the failed accept being cleaned up.
Ownership ==
    /\ appSt = "idle"
    /\ hpc \in {"failed", "free", "reset"} => hconn = NoConn
    /\ \A c \in Conn : Owns(c) => sk[c] \in busy
    /\ \A c, d \in Conn : Owns(c) /\ Owns(d) /\ sk[c] = sk[d] => c = d
    /\ acceptSt # "none" \/ hpc = "arm" =>
           acceptSock \in busy /\ \A c \in Conn : Owns(c) => sk[c] # acceptSock
    /\ hpc \in {"failed", "free"} =>
           hsock \in busy /\ \A c \in Conn : Owns(c) => sk[c] # hsock
    /\ \A s \in Socket, c \in Conn : fd[s] = c => Owns(c)

OwnInv == SafeInv /\ Ownership

LEMMA OwnInit == Init => OwnInv
<1> SUFFICES ASSUME Init PROVE OwnInv
  OBVIOUS
<1>1. \A c \in Conn : ~Owns(c)
  BY ConnAssumption DEF Init, Owns, ReadOwns, HandlerOwns
<1>2. Ownership
  BY <1>1, ConnAssumption DEF Init, Ownership
<1> QED
  BY <1>2, SafeInit DEF OwnInv

\* What a step needs in order to keep the ownership of the other sockets: it
\* adds no owner, closes what it disowns, and leaves owned sockets busy.
LEMMA FewerOwners ==
    ASSUME OwnInv, SafeInv',
           UNCHANGED <<appSt, sk>>,
           \A c \in Conn : Owns(c)' => Owns(c) /\ sk[c] \in busy',
           \A s \in Socket : fd'[s] \in {fd[s], NoConn},
           \A s \in Socket, c \in Conn : fd[s] = c /\ Owns(c) /\ ~Owns(c)' => fd'[s] # c,
           hpc' \in {"failed", "free", "reset"} => hconn' = NoConn,
           acceptSt' # "none" \/ hpc' = "arm" =>
               /\ acceptSock' = acceptSock /\ acceptSock \in busy'
               /\ acceptSt # "none" \/ hpc = "arm",
           hpc' \in {"failed", "free"} =>
               hsock' = hsock /\ hpc \in {"failed", "free"} /\ hsock \in busy'
    PROVE  OwnInv'
<1>1. SafeInv /\ Ownership
  BY DEF OwnInv
<1>2. /\ \A c \in Conn : Owns(c)' => sk'[c] \in busy'
      /\ \A c, d \in Conn : Owns(c)' /\ Owns(d)' /\ sk'[c] = sk'[d] => c = d
  BY <1>1 DEF Ownership
<1>3. acceptSt' # "none" \/ hpc' = "arm" =>
          acceptSock' \in busy' /\ \A c \in Conn : Owns(c)' => sk'[c] # acceptSock'
  BY <1>1 DEF Ownership
<1>4. hpc' \in {"failed", "free"} =>
          hsock' \in busy' /\ \A c \in Conn : Owns(c)' => sk'[c] # hsock'
  BY <1>1 DEF Ownership
<1>5. \A s \in Socket, c \in Conn : fd'[s] = c => Owns(c)'
  BY <1>1, ConnAssumption DEF Ownership
<1>6. appSt' = "idle"
  BY <1>1 DEF Ownership
<1>7. Ownership'
  BY <1>2, <1>3, <1>4, <1>5, <1>6 DEF Ownership
<1> QED
  BY <1>7 DEF OwnInv

\* Steps that change neither the pool, nor what is open, nor the owners.
LEMMA SameOwners ==
    ASSUME OwnInv, SafeInv', UNCHANGED <<appSt, sk, busy, fd>>,
           \A c \in Conn : Owns(c)' <=> Owns(c),
           hpc' \in {"failed", "free", "reset"} => hconn' = NoConn,
           acceptSt' # "none" \/ hpc' = "arm" =>
               acceptSock' = acceptSock /\ (acceptSt # "none" \/ hpc = "arm"),
           hpc' \in {"failed", "free"} => hsock' = hsock /\ hpc \in {"failed", "free"}
    PROVE  OwnInv'
<1>1. Ownership
  BY DEF OwnInv
<1>2. \A c \in Conn : Owns(c)' => Owns(c) /\ sk[c] \in busy'
  BY <1>1 DEF Ownership
<1>3. acceptSt' # "none" \/ hpc' = "arm" => acceptSock \in busy'
  BY <1>1 DEF Ownership
<1>4. hpc' \in {"failed", "free"} => hsock \in busy'
  BY <1>1 DEF Ownership
<1> QED
  BY <1>2, <1>3, <1>4, FewerOwners

\* In a quiet configuration the only chains are those of connections, and the
\* application thread does nothing.
LEMMA OwnStep ==
    ASSUME Quiet
    PROVE  OwnInv /\ [Next]_vars => OwnInv'
<1> SUFFICES ASSUME OwnInv, [Next]_vars PROVE OwnInv'
  OBVIOUS
<1>s. SafeInv' /\ SafeInv /\ Ownership /\ TypeOK /\ Shape /\ Serial
  BY SafeStep DEF OwnInv, SafeInv, TypeInv
<1>q. Write = {} /\ MayReject = FALSE
  BY DEF Quiet
<1> USE DEF poolVars, sockVars, acceptVars, handlerVars, chainVars, appVars, ctlVars
<1>1. ASSUME NEW k \in Caller, ControlNext(k) PROVE OwnInv'
  <2>1. CASE Start(k)
    <3>1. hpc = "idle" /\ acceptSt = "none" /\ hconn = NoConn
      BY <2>1, <1>s DEF Start, Serial, Shape
    <3>2. \A c \in Conn : Owns(c)' <=> Owns(c)
      BY <2>1, <3>1, ConnAssumption DEF Start, Owns, ReadOwns, HandlerOwns
    <3> QED
      BY <2>1, <3>1, <3>2, <1>s, SameOwners DEF Start
  <2>2. CASE StopFlag(k) \/ StopCancel(k) \/ JoinAcceptor(k) \/ JoinIo(k)
    <3>1. /\ UNCHANGED <<appSt, sk, st, busy, fd, hpc, hconn, hsock, acceptSock>>
          /\ acceptSt' # "none" => acceptSt # "none"
      BY <2>2 DEF StopFlag, StopCancel, JoinAcceptor, JoinIo
    <3>2. \A c \in Conn : Owns(c)' <=> Owns(c)
      BY <3>1 DEF Owns, ReadOwns, HandlerOwns
    <3> QED
      BY <3>1, <3>2, <1>s, SameOwners DEF Ownership
  <2>3. CASE CloseAll(k)
    <3>1. \A s \in Socket : fd'[s] \in {fd[s], NoConn}
      BY <2>3 DEF CloseAll
    <3>2. UNCHANGED <<appSt, sk, st, busy, hpc, hconn, hsock, acceptSock, acceptSt>>
      BY <2>3 DEF CloseAll
    <3>3. \A c \in Conn : Owns(c)' <=> Owns(c)
      BY <3>2 DEF Owns, ReadOwns, HandlerOwns
    <3>4. \A c \in Conn : Owns(c)' => Owns(c) /\ sk[c] \in busy'
      BY <3>2, <3>3, <1>s DEF Ownership
    <3>5. /\ acceptSt' # "none" \/ hpc' = "arm" => acceptSock \in busy'
          /\ hpc' \in {"failed", "free"} => hsock \in busy'
          /\ hpc' \in {"failed", "free", "reset"} => hconn' = NoConn
      BY <3>2, <1>s DEF Ownership
    <3> QED
      BY <3>1, <3>2, <3>3, <3>4, <3>5, <1>s, FewerOwners
  <2> QED
    BY <1>1, <2>1, <2>2, <2>3 DEF ControlNext
<1>2. ASSUME NEW c \in Conn, AcceptOk(c) PROVE OwnInv'
  <2>1. /\ acceptSock \in Socket /\ acceptSock \in busy /\ fd[acceptSock] = NoConn
        /\ hpc = "idle" /\ hpc' = "accepted" /\ hconn' = c /\ acceptSt' = "none"
        /\ fd' = [fd EXCEPT ![acceptSock] = c] /\ sk' = [sk EXCEPT ![c] = acceptSock]
        /\ UNCHANGED <<appSt, busy, st>>
        /\ peer[c] = "waiting"
    BY <1>2, <1>s DEF AcceptOk, EnterHandler, Shape, SafeInv, ArmedIsClosed, Ownership
  <2>2. \A d \in Conn : Owns(d)' <=> Owns(d) \/ d = c
    BY <2>1, <1>s, ConnAssumption DEF Owns, ReadOwns, HandlerOwns, Shape
  <2>3. \A d \in Conn : Owns(d) => sk[d] # acceptSock /\ sk[d] \in busy /\ d # c
    BY <1>2, <2>1, <1>s, ConnAssumption DEF AcceptOk, Ownership, Owns, ReadOwns, HandlerOwns, SafeInv, Fresh
  <2>4. \A d \in Conn : sk'[d] = IF d = c THEN acceptSock ELSE sk[d]
    BY <2>1, <1>s DEF TypeOK
  <2>5. /\ \A d \in Conn : Owns(d)' => sk'[d] \in busy'
        /\ \A d, e \in Conn : Owns(d)' /\ Owns(e)' /\ sk'[d] = sk'[e] => d = e
    BY <2>1, <2>2, <2>3, <2>4, <1>s DEF Ownership
  <2>6. \A s \in Socket, d \in Conn : fd'[s] = d => Owns(d)'
    BY <2>1, <2>2, <1>s DEF Ownership, TypeOK
  <2>7. Ownership'
    BY <2>1, <2>5, <2>6, <1>s DEF Ownership
  <2> QED
    BY <2>7, <1>s DEF OwnInv
<1>3. CASE AcceptAborted \/ AcceptError
  <2>1. /\ hpc = "idle" /\ hpc' = "failed" /\ hconn' = NoConn /\ hsock' = acceptSock
        /\ acceptSt # "none" /\ acceptSt' = "none"
        /\ UNCHANGED <<appSt, sk, st, busy, fd>>
    BY <1>3 DEF AcceptAborted, AcceptError, EnterHandler
  <2>2. \A c \in Conn : Owns(c)' <=> Owns(c)
    BY <2>1, <1>s, ConnAssumption DEF Owns, ReadOwns, HandlerOwns, Shape
  <2>3. Ownership'
    BY <2>1, <2>2, <1>s DEF Ownership
  <2> QED
    BY <2>3, <1>s DEF OwnInv
<1>4. CASE HandlerNext
  <2>1. CASE AcceptId \/ AcceptStopped \/ AcceptNotify \/ AcceptArm
    <3>1. UNCHANGED <<appSt, sk, st, busy, fd, hconn, acceptSock>>
      BY <2>1 DEF AcceptId, AcceptStopped, AcceptNotify, AcceptArm, AcceptClientReturns
    <3>2. /\ hpc \in {"accepted", "next", "arm", "notify"}
          /\ hpc' \in {"next", "notify", "idle", "read"}
          /\ hpc' = "idle" => hsock = NoSock \/ hconn = NoConn
          /\ acceptSt' # "none" => acceptSt # "none" \/ hpc = "arm"
      BY <2>1 DEF AcceptId, AcceptStopped, AcceptNotify, AcceptArm, AcceptClientReturns
    <3>3. hpc' = "idle" => hconn \notin Conn
      BY <3>2, <1>s, SocketAssumption, ConnAssumption DEF Shape
    <3>4. \A c \in Conn : Owns(c)' <=> Owns(c)
      BY <3>1, <3>2, <3>3 DEF Owns, ReadOwns, HandlerOwns
    <3> QED
      BY <3>1, <3>2, <3>4, <1>s, SameOwners
  <2>2. CASE AcceptClose
    <3>1. \A c \in Conn : Owns(c)' <=> Owns(c)
      BY <2>2 DEF AcceptClose, Owns, ReadOwns, HandlerOwns
    <3> QED
      BY <2>2, <3>1, <1>s, SameOwners DEF AcceptClose, Ownership
  <2>3. CASE AcceptFree
    <3>1. /\ hpc = "free" /\ hsock \in busy /\ hconn = NoConn /\ acceptSt = "none"
          /\ hpc' = "reset" /\ busy' = busy \ {hsock} /\ fd' = [fd EXCEPT ![hsock] = NoConn]
          /\ UNCHANGED <<appSt, sk, st, hconn, acceptSt>>
      BY <2>3, <1>s DEF AcceptFree, PoolFree, AfterFree, Ownership, Serial
    <3>2. \A c \in Conn : Owns(c)' => Owns(c) /\ sk[c] \in busy'
      BY <3>1, <1>s DEF Owns, ReadOwns, HandlerOwns, Ownership
    <3>3. \A c \in Conn : Owns(c) => Owns(c)'
      BY <3>1 DEF Owns, ReadOwns, HandlerOwns
    <3>4. \A s \in Socket : fd'[s] \in {fd[s], NoConn}
      BY <3>1, <1>s DEF TypeOK
    <3> QED
      BY <3>1, <3>2, <3>3, <3>4, <1>s, FewerOwners
  <2>4. CASE AcceptReset
    <3>1. \A c \in Conn : Owns(c)' <=> Owns(c)
      BY <2>4, <1>s, ConnAssumption DEF AcceptReset, SocketReset, Owns, ReadOwns, HandlerOwns, Ownership
    <3> QED
      BY <2>4, <3>1, <1>s, SameOwners DEF AcceptReset, SocketReset
  <2>5. ASSUME NEW s \in Socket, AcceptGet(s) PROVE OwnInv'
    <3>1. /\ hpc = "next" /\ hpc' = "arm" /\ acceptSock' = s /\ acceptSt' = "none"
          /\ s \notin busy /\ busy' = busy \cup {s}
          /\ UNCHANGED <<appSt, sk, st, hconn, fd>>
      BY <2>5, <1>s DEF AcceptGet, PoolGet, kSubset, Serial, SafeInv, PoolDisjoint, sockVars
    <3>2. \A c \in Conn : Owns(c)' <=> Owns(c)
      BY <3>1 DEF Owns, ReadOwns, HandlerOwns
    <3>3. Ownership'
      BY <3>1, <3>2, <1>s DEF Ownership
    <3> QED
      BY <3>3, <1>s DEF OwnInv
  <2>6. CASE AcceptRead
    <3>1. /\ hconn \in Conn /\ sk[hconn] = hsock /\ hpc = "read" /\ hpc' = "idle"
          /\ hconn' = NoConn /\ hsock \in Socket
          /\ st' = [st EXCEPT ![hconn] = IF fd[hsock] = NoConn THEN "done" ELSE "pending"]
          /\ UNCHANGED <<appSt, sk, busy, fd, acceptSock, acceptSt>>
      BY <2>6, <1>s DEF AcceptRead, BeginOp, Shape
    <3>2. Owns(hconn)
      BY <3>1 DEF Owns, HandlerOwns
    <3>3. \A c \in Conn : Owns(c)' => Owns(c)
      BY <3>1, <3>2, <1>s, ConnAssumption DEF Owns, ReadOwns, HandlerOwns, TypeOK
    <3>4. \A c \in Conn : Owns(c) /\ ~Owns(c)' => c = hconn /\ fd[hsock] = NoConn
      BY <3>1, <1>s DEF Owns, ReadOwns, HandlerOwns, TypeOK
    <3>5. \A s \in Socket, c \in Conn : fd[s] = c /\ Owns(c) /\ ~Owns(c)' => fd'[s] # c
      <4> SUFFICES ASSUME NEW s \in Socket, NEW c \in Conn, fd[s] = c, Owns(c), ~Owns(c)'
                   PROVE FALSE
        BY <3>1
      <4>1. sk[c] = s
        BY <1>s DEF SafeInv, IdFromOwnSocket
      <4> QED
        BY <4>1, <3>1, <3>4, ConnAssumption
    <3>6. \A c \in Conn : Owns(c)' => sk[c] \in busy'
      BY <3>1, <3>3, <1>s DEF Ownership
    <3>7. acceptSt' # "none" \/ hpc' = "arm" => acceptSock \in busy'
      BY <3>1, <1>s DEF Ownership
    <3> QED
      BY <3>1, <3>3, <3>5, <3>6, <3>7, <1>s, FewerOwners
  <2> QED
    BY <1>4, <2>1, <2>2, <2>3, <2>4, <2>5, <2>6 DEF HandlerNext
<1>5. ASSUME NEW x \in Chain, OpDone(x) \/ ChainNext(x) PROVE OwnInv'
  <2>0. x \in Conn
    BY <1>q
  <2>1. CASE OpDone(x) \/ OpFail(x) \/ HandlerRead(x) \/ HandlerClose(x)
    <3>1. PICK to \in {"ready", "failed", "rearm", "free"} :
              /\ st[x] \in {"pending", "ready", "failed"}
              /\ st' = [st EXCEPT ![x] = to]
      BY <2>1 DEF OpDone, OpFail, HandlerRead, HandlerClose, Step
    <3>2. UNCHANGED <<appSt, sk, busy, fd, hpc, hconn, hsock, acceptSock, acceptSt>>
      BY <2>1 DEF OpDone, OpFail, HandlerRead, HandlerClose
    <3>3. \A c \in Conn : Owns(c)' <=> Owns(c)
      BY <2>0, <3>1, <3>2, <1>s DEF Owns, ReadOwns, HandlerOwns, TypeOK
    <3> QED
      BY <3>2, <3>3, <1>s, SameOwners DEF Ownership
  <2>2. CASE Rearm(x)
    <3>1. /\ st[x] = "rearm"
          /\ st' = [st EXCEPT ![x] = IF fd[sk[x]] = NoConn THEN "done" ELSE "pending"]
          /\ UNCHANGED <<appSt, sk, busy, fd, hpc, hconn, hsock, acceptSock, acceptSt>>
      BY <2>2 DEF Rearm, BeginOp
    <3>2. \A c \in Conn : Owns(c)' => Owns(c)
      BY <2>0, <3>1, <1>s DEF Owns, ReadOwns, HandlerOwns, TypeOK
    <3>3. \A c \in Conn : Owns(c) /\ ~Owns(c)' => c = x /\ fd[sk[x]] = NoConn
      BY <2>0, <3>1, <1>s DEF Owns, ReadOwns, HandlerOwns, TypeOK
    <3>4. \A s \in Socket, c \in Conn : fd[s] = c /\ Owns(c) /\ ~Owns(c)' => fd'[s] # c
      <4> SUFFICES ASSUME NEW s \in Socket, NEW c \in Conn, fd[s] = c, Owns(c), ~Owns(c)'
                   PROVE FALSE
        BY <3>1
      <4>1. sk[c] = s
        BY <1>s DEF SafeInv, IdFromOwnSocket
      <4> QED
        BY <4>1, <3>3, ConnAssumption
    <3>5. /\ \A c \in Conn : Owns(c)' => sk[c] \in busy'
          /\ acceptSt' # "none" \/ hpc' = "arm" => acceptSock \in busy'
          /\ hpc' \in {"failed", "free"} => hsock \in busy'
          /\ hpc' \in {"failed", "free", "reset"} => hconn' = NoConn
      BY <3>1, <3>2, <1>s DEF Ownership
    <3> QED
      BY <3>1, <3>2, <3>4, <3>5, <1>s, FewerOwners
  <2>3. CASE HandlerFree(x)
    <3>1. st[x] = "free" /\ Owns(x) /\ sk[x] \in busy
      BY <2>0, <2>3, <1>s DEF HandlerFree, Step, Owns, ReadOwns, Ownership
    <3>2. /\ busy' = busy \ {sk[x]} /\ fd' = [fd EXCEPT ![sk[x]] = NoConn]
          /\ st' = [st EXCEPT ![x] = "reset"]
          /\ UNCHANGED <<appSt, sk, hpc, hconn, hsock, acceptSock, acceptSt>>
      BY <2>3, <3>1 DEF HandlerFree, Step, PoolFree, AfterFree
    <3>3. \A c \in Conn : ReadOwns(c)' <=> ReadOwns(c) /\ c # x
      BY <2>0, <3>1, <3>2, <1>s DEF ReadOwns, TypeOK
    <3>4. \A c \in Conn : HandlerOwns(c)' <=> HandlerOwns(c)
      BY <3>2 DEF HandlerOwns
    <3>5. \A c \in Conn : HandlerOwns(c) => c # x
      BY <3>1, <1>s DEF HandlerOwns, SafeInv, Fresh
    <3>6. \A c \in Conn : Owns(c)' <=> Owns(c) /\ c # x
      BY <3>3, <3>4, <3>5 DEF Owns
    <3>7. \A c \in Conn : Owns(c)' => Owns(c) /\ sk[c] \in busy'
      BY <2>0, <3>1, <3>2, <3>6, <1>s DEF Ownership
    <3>8. \A s \in Socket : fd'[s] \in {fd[s], NoConn}
      BY <3>2, <1>s DEF TypeOK
    <3>9. \A s \in Socket, c \in Conn : fd[s] = c /\ Owns(c) /\ ~Owns(c)' => fd'[s] # c
      BY <2>0, <3>2, <3>6, <1>s, ConnAssumption DEF TypeOK, SafeInv, IdFromOwnSocket
    <3>10. /\ acceptSt' # "none" \/ hpc' = "arm" => acceptSock \in busy'
           /\ hpc' \in {"failed", "free"} => hsock \in busy'
           /\ hpc' \in {"failed", "free", "reset"} => hconn' = NoConn
      BY <2>0, <3>1, <3>2, <1>s DEF Ownership
    <3> QED
      BY <3>2, <3>7, <3>8, <3>9, <3>10, <1>s, FewerOwners
  <2>4. CASE HandlerReset(x)
    <3>1. /\ st[x] = "reset" /\ st' = [st EXCEPT ![x] = "done"]
          /\ UNCHANGED <<appSt, sk, busy, fd, hpc, hconn, hsock, acceptSock, acceptSt>>
      BY <2>4 DEF HandlerReset, SocketReset, Step
    <3>2. \A c \in Conn : Owns(c)' <=> Owns(c)
      BY <2>0, <3>1, <1>s DEF Owns, ReadOwns, HandlerOwns, TypeOK
    <3> QED
      BY <3>1, <3>2, <1>s, SameOwners DEF Ownership
  <2> QED
    BY <1>5, <1>q, <2>1, <2>2, <2>3, <2>4 DEF ChainNext
<1>6. CASE AppNext
  BY <1>6, <1>q, <1>s DEF AppNext, AppReject, AppFree, AppReset, Ownership
<1>7. CASE (\E c \in Conn : PeerClose(c)) \/ UNCHANGED vars
  <2>1. UNCHANGED <<appSt, sk, st, busy, fd, hpc, hconn, hsock, acceptSock, acceptSt>>
    BY <1>7 DEF PeerClose, vars
  <2>2. \A c \in Conn : Owns(c)' <=> Owns(c)
    BY <2>1 DEF Owns, ReadOwns, HandlerOwns
  <2> QED
    BY <2>1, <2>2, <1>s, SameOwners DEF Ownership
<1> QED
  BY <1>1, <1>2, <1>3, <1>4, <1>5, <1>6, <1>7 DEF Next

LEMMA OwnedIsOpenIsOwned == OwnInv => OpenIsOwned
<1> SUFFICES ASSUME OwnInv, NEW s \in Socket, fd[s] # NoConn
             PROVE  /\ s \in busy
                    /\ sk[fd[s]] = s
                    /\ ReadOwns(fd[s]) \/ HandlerOwns(fd[s])
                    /\ \A c \in Conn : sk[c] = s /\ (ReadOwns(c) \/ HandlerOwns(c)) => c = fd[s]
  BY DEF OpenIsOwned
<1>1. fd[s] \in Conn
  BY DEF OwnInv, SafeInv, TypeInv, TypeOK
<1>2. sk[fd[s]] = s
  BY <1>1 DEF OwnInv, SafeInv, IdFromOwnSocket
<1>3. Owns(fd[s])
  BY <1>1 DEF OwnInv, Ownership
<1> QED
  BY <1>1, <1>2, <1>3 DEF OwnInv, Ownership, Owns

\* Every open connection has exactly one owner, which is about that very
\* connection and will release its socket, whatever the order in which the
\* acceptor thread, the io threads and stop() run.
THEOREM OwnedCorrect == ASSUME Quiet PROVE Spec => []OpenIsOwned
<1>1. /\ Init => OwnInv
      /\ OwnInv /\ [Next]_vars => OwnInv'
      /\ OwnInv => OpenIsOwned
  BY OwnInit, OwnStep, OwnedIsOpenIsOwned
<1> QED
  BY <1>1, PTL DEF Spec
-----------------------------------------------------------------------------
(* stop().                                                                 *)

\* Steps that open nothing, start and stop nothing.
LEMMA StillClosed ==
    ASSUME StopClosesAll, started' = started,
           \A k \in Caller : ctl'[k] = "joinio" => ctl[k] = "joinio",
           \A s \in Socket : fd'[s] \in {fd[s], NoConn}
    PROVE  StopClosesAll'
BY DEF StopClosesAll

LEMMA StopStep ==
    ASSUME Quiet
    PROVE  OwnInv /\ StopClosesAll /\ [Next]_vars => StopClosesAll'
<1> SUFFICES ASSUME OwnInv, StopClosesAll, [Next]_vars PROVE StopClosesAll'
  OBVIOUS
<1>ty. TypeOK /\ Serial
  BY DEF OwnInv, SafeInv, TypeInv
<1> USE DEF sockVars, ctlVars
<1>1. ASSUME NEW k \in Caller, ControlNext(k) PROVE StopClosesAll'
  <2> USE DEF Goto
  <2>1. CASE Start(k)
    <3>1. started' = TRUE /\ \A j \in Caller : ctl'[j] # "joinio"
      BY <2>1, <1>ty DEF Start, StopMutexFree, TypeOK
    <3> QED
      BY <3>1 DEF StopClosesAll
  <2>2. CASE StopFlag(k) \/ StopCancel(k) \/ JoinAcceptor(k)
    <3>1. \A j \in Caller : ctl'[j] = "joinio" => ctl[j] = "joinio"
      BY <2>2, <1>ty DEF StopFlag, StopCancel, JoinAcceptor, TypeOK
    <3>2. UNCHANGED <<started, fd>>
      BY <2>2 DEF StopFlag, StopCancel, JoinAcceptor
    <3> QED
      BY <3>1, <3>2, StillClosed
  <2>3. CASE CloseAll(k)
    <3>1. fd' = [s \in Socket |-> IF s \in busy THEN NoConn ELSE fd[s]]
      BY <2>3 DEF CloseAll
    <3>2. \A s \in Socket : s \notin busy => fd[s] = NoConn
      BY OwnedIsOpenIsOwned DEF OpenIsOwned
    <3> QED
      BY <3>1, <3>2 DEF StopClosesAll
  <2>4. CASE JoinIo(k)
    <3>1. fd' = fd /\ ctl[k] = "joinio"
      BY <2>4 DEF JoinIo
    <3> QED
      BY <3>1 DEF StopClosesAll
  <2> QED
    BY <1>1, <2>1, <2>2, <2>3, <2>4 DEF ControlNext
<1>2. ASSUME NEW c \in Conn, AcceptOk(c) PROVE StopClosesAll'
  BY <1>2, <1>ty DEF AcceptOk, Serial, StopClosesAll
<1>3. CASE AcceptAborted \/ AcceptError
  BY <1>3, StillClosed DEF AcceptAborted, AcceptError
<1>4. CASE HandlerNext
  <2>1. CASE AcceptStopped \/ AcceptArm
    <3>1. /\ UNCHANGED <<started, fd>>
          /\ ctl' \in {ctl, [k \in Caller |-> IF ctl[k] = "start" THEN "idle" ELSE ctl[k]]}
      BY <2>1 DEF AcceptStopped, AcceptArm, AcceptClientReturns
    <3>2. \A k \in Caller : ctl'[k] = "joinio" => ctl[k] = "joinio"
      BY <3>1, <1>ty DEF TypeOK
    <3> QED
      BY <3>1, <3>2, StillClosed
  <2>2. CASE AcceptFree
    <3>1. \A s \in Socket : fd'[s] \in {fd[s], NoConn}
      BY <2>2, <1>ty DEF AcceptFree, PoolFree, TypeOK
    <3> QED
      BY <2>2, <3>1, StillClosed DEF AcceptFree
  <2>3. CASE HandlerNext /\ ~(AcceptStopped \/ AcceptArm \/ AcceptFree)
    <3>1. UNCHANGED <<started, ctl, fd>>
      BY <2>3 DEF HandlerNext, AcceptId, AcceptClose, AcceptReset, SocketReset, AcceptGet,
          AcceptNotify, AcceptRead
    <3> QED
      BY <3>1, StillClosed
  <2> QED
    BY <1>4, <2>1, <2>2, <2>3
<1>5. ASSUME NEW x \in Chain, OpDone(x) \/ ChainNext(x) PROVE StopClosesAll'
  <2>1. CASE HandlerFree(x)
    <3>1. \A s \in Socket : fd'[s] \in {fd[s], NoConn}
      BY <2>1, <1>ty DEF HandlerFree, PoolFree, TypeOK
    <3> QED
      BY <2>1, <3>1, StillClosed DEF HandlerFree
  <2>2. CASE (OpDone(x) \/ ChainNext(x)) /\ ~HandlerFree(x)
    <3>1. UNCHANGED <<started, ctl, fd>>
      BY <2>2 DEF ChainNext, OpDone, OpFail, HandlerRead, Rearm, HandlerWrite, HandlerClose,
          HandlerReset, SocketReset
    <3> QED
      BY <3>1, StillClosed
  <2> QED
    BY <1>5, <2>1, <2>2
<1>6. CASE AppNext
  BY <1>6 DEF Quiet, OwnInv, Ownership, AppNext, AppReject, AppFree, AppReset
<1>7. CASE (\E c \in Conn : PeerClose(c)) \/ UNCHANGED vars
  BY <1>7, StillClosed DEF PeerClose, vars
<1> QED
  BY <1>1, <1>2, <1>3, <1>4, <1>5, <1>6, <1>7 DEF Next

\* When stop() waits for the io threads, and as long as the server is not
\* started, no connection is open (tcp_server.cpp:135-138).
THEOREM StopCorrect == ASSUME Quiet PROVE Spec => []StopClosesAll
<1>1. Init => OwnInv /\ StopClosesAll
  BY OwnInit DEF Init, StopClosesAll
<1>2. OwnInv /\ StopClosesAll /\ [Next]_vars => (OwnInv /\ StopClosesAll)'
  BY OwnStep, StopStep
<1> QED
  BY <1>1, <1>2, PTL DEF Spec
-----------------------------------------------------------------------------
(* The unique_id.                                                          *)

\* The socket inside pool::free is in the free list already, and one handler
\* only is about to reset it.
OneReset ==
    /\ lock # NoSock => lock \in free
    /\ hpc = "reset" => lock = hsock /\ \A x \in Chain : st[x] # "reset"
    /\ \A x \in Chain : st[x] = "reset" => lock = sk[x]
    /\ \A x, y \in Chain : st[x] = "reset" /\ st[y] = "reset" => x = y

\* OpenHasId from the moment that socket::accept has made the id.
HasId ==
    \A s \in Socket :
        fd[s] # NoConn /\ (st[fd[s]] # "none" \/ (hconn = fd[s] /\ hpc # "accepted")) =>
            uid[s] = fd[s] \/ (uid[s] = NoPeerId /\ peer[fd[s]] = "gone")

\* A socket outside the pool's busy list, or given to an accept, has no id left
\* from the connection before; an owned one has no other connection's.
FreshId ==
    /\ \A s \in Socket : s \notin busy /\ lock # s => uid[s] = NoId
    /\ acceptSt # "none" \/ hpc = "arm" => uid[acceptSock] = NoId
    /\ hpc \in {"accepted", "failed", "free"} => uid[hsock] = NoId
    /\ \A c \in Conn : Owns(c) => uid[sk[c]] \in {c, NoPeerId, NoId}

IdInv == OwnInv /\ OneReset /\ HasId /\ FreshId

LEMMA IdInit == Init => IdInv
<1> SUFFICES ASSUME Init PROVE IdInv
  OBVIOUS
<1>1. OneReset /\ HasId /\ FreshId
  BY ConnAssumption DEF Init, OneReset, HasId, FreshId, Owns, ReadOwns, HandlerOwns
<1> QED
  BY <1>1, OwnInit DEF IdInv

\* Steps outside the pool that begin and end no reset.
LEMMA NoReset ==
    ASSUME OneReset, UNCHANGED <<lock, free, sk>>,
           hpc' = "reset" => hpc = "reset" /\ hsock' = hsock,
           \A x \in Chain : st'[x] = "reset" => st[x] = "reset"
    PROVE  OneReset'
BY DEF OneReset

LEMMA ResetStep ==
    ASSUME Quiet
    PROVE  OwnInv /\ OneReset /\ [Next]_vars => OneReset'
<1> SUFFICES ASSUME OwnInv, OneReset, [Next]_vars PROVE OneReset'
  OBVIOUS
<1>s. SafeInv /\ Ownership /\ TypeOK /\ Shape /\ Serial
  BY DEF OwnInv, SafeInv, TypeInv
<1>q. Write = {} /\ MayReject = FALSE
  BY DEF Quiet
<1> USE DEF poolVars, sockVars, acceptVars, handlerVars, chainVars, appVars, ctlVars
<1>1. ASSUME NEW k \in Caller, ControlNext(k) PROVE OneReset'
  <2>1. CASE Start(k)
    BY <2>1, NoReset DEF Start
  <2>2. CASE StopFlag(k) \/ StopCancel(k) \/ JoinAcceptor(k) \/ JoinIo(k) \/ CloseAll(k)
    BY <2>2, NoReset DEF StopFlag, StopCancel, JoinAcceptor, JoinIo, CloseAll
  <2> QED
    BY <1>1, <2>1, <2>2 DEF ControlNext
<1>2. ASSUME NEW c \in Conn, AcceptOk(c) PROVE OneReset'
  <2>1. /\ UNCHANGED <<lock, free, st>> /\ hpc' = "accepted"
        /\ \A x \in Chain : x # c => sk'[x] = sk[x]
    BY <1>2, <1>s DEF AcceptOk, EnterHandler, TypeOK
  <2>2. st[c] = "none"
    BY <1>2, <1>s DEF AcceptOk, SafeInv, Fresh
  <2> QED
    BY <2>1, <2>2 DEF OneReset
<1>3. CASE AcceptAborted \/ AcceptError
  BY <1>3, NoReset DEF AcceptAborted, AcceptError, EnterHandler
<1>4. CASE HandlerNext
  <2>1. CASE AcceptId \/ AcceptClose \/ AcceptStopped \/ AcceptArm \/ AcceptNotify
    BY <2>1, NoReset DEF AcceptId, AcceptClose, AcceptStopped, AcceptArm, AcceptNotify, AcceptClientReturns
  <2>2. CASE AcceptFree
    <3>1. /\ lock = NoSock /\ hsock \in busy /\ lock' = hsock /\ hsock' = hsock /\ free' = free \cup {hsock}
          /\ UNCHANGED st
      BY <2>2, <1>s DEF AcceptFree, PoolFree, Ownership
    <3>2. \A x \in Chain : st[x] # "reset"
      BY <3>1, <1>s, SocketAssumption DEF OneReset, Shape
    <3> QED
      BY <3>1, <3>2 DEF OneReset
  <2>3. CASE AcceptReset
    BY <2>3 DEF AcceptReset, SocketReset, OneReset
  <2>4. ASSUME NEW s \in Socket, AcceptGet(s) PROVE OneReset'
    BY <2>4, <1>s, SocketAssumption DEF AcceptGet, PoolGet, OneReset, Shape
  <2>5. CASE AcceptRead
    <3>1. \A x \in Chain : st'[x] = "reset" => st[x] = "reset"
      BY <2>5, <1>s DEF AcceptRead, BeginOp, TypeOK
    <3> QED
      BY <2>5, <3>1, NoReset DEF AcceptRead
  <2> QED
    BY <1>4, <2>1, <2>2, <2>3, <2>4, <2>5 DEF HandlerNext
<1>5. ASSUME NEW x \in Chain, OpDone(x) \/ ChainNext(x) PROVE OneReset'
  <2>1. CASE OpDone(x) \/ OpFail(x) \/ HandlerRead(x) \/ HandlerClose(x) \/ HandlerWrite(x)
    <3>1. PICK to \in {"ready", "failed", "rearm", "free", "done"} : st' = [st EXCEPT ![x] = to]
      BY <2>1 DEF OpDone, OpFail, HandlerRead, HandlerClose, HandlerWrite, Step
    <3>2. \A y \in Chain : st'[y] = "reset" => st[y] = "reset"
      BY <3>1, <1>s DEF TypeOK
    <3> QED
      BY <2>1, <3>2, NoReset DEF OpDone, OpFail, HandlerRead, HandlerClose, HandlerWrite
  <2>2. CASE Rearm(x)
    <3>1. \A y \in Chain : st'[y] = "reset" => st[y] = "reset"
      BY <2>2, <1>s DEF Rearm, BeginOp, TypeOK
    <3> QED
      BY <2>2, <3>1, NoReset DEF Rearm
  <2>3. CASE HandlerFree(x)
    <3>1. /\ st[x] = "free" /\ sk[x] \in Socket /\ lock = NoSock /\ sk' = sk
          /\ UNCHANGED <<hpc, hsock>>
      BY <2>3, <1>s DEF HandlerFree, PoolFree, Step, Shape
    <3>2. hpc # "reset" /\ \A y \in Chain : st[y] # "reset"
      BY <3>1, <1>s, SocketAssumption DEF OneReset, Shape
    <3>3. CASE sk[x] \in busy
      <4>1. /\ lock' = sk[x] /\ free' = free \cup {sk[x]}
            /\ \A y \in Chain : st'[y] = IF y = x THEN "reset" ELSE st[y]
        BY <2>3, <3>3, <1>s DEF HandlerFree, PoolFree, Step, AfterFree, TypeOK
      <4> QED
        BY <3>1, <3>2, <4>1 DEF OneReset
    <3>4. CASE sk[x] \notin busy
      <4>1. /\ UNCHANGED <<lock, free>>
            /\ \A y \in Chain : st'[y] = IF y = x THEN "done" ELSE st[y]
        BY <2>3, <3>4, <1>s DEF HandlerFree, PoolFree, Step, AfterFree, TypeOK
      <4> QED
        BY <3>1, <3>2, <4>1 DEF OneReset
    <3> QED
      BY <3>3, <3>4
  <2>4. CASE HandlerReset(x)
    <3>1. /\ st[x] = "reset" /\ lock' = NoSock /\ UNCHANGED <<free, sk, hpc, hsock>>
          /\ \A y \in Chain : st'[y] = IF y = x THEN "done" ELSE st[y]
      BY <2>4, <1>s DEF HandlerReset, SocketReset, Step, TypeOK
    <3> QED
      BY <3>1 DEF OneReset
  <2> QED
    BY <1>5, <2>1, <2>2, <2>3, <2>4 DEF ChainNext
<1>6. CASE AppNext
  BY <1>6, <1>q, <1>s DEF AppNext, AppReject, AppFree, AppReset, Ownership
<1>7. CASE (\E c \in Conn : PeerClose(c)) \/ UNCHANGED vars
  BY <1>7, NoReset DEF PeerClose, vars
<1> QED
  BY <1>1, <1>2, <1>3, <1>4, <1>5, <1>6, <1>7 DEF Next

\* Steps that open nothing, give no id, and whose read chains and acceptor
\* thread take up no connection.
LEMMA SameId ==
    ASSUME IdInv,
           \A s \in Socket : fd'[s] # NoConn => fd'[s] = fd[s] /\ uid'[s] = uid[s],
           \A c \in Conn : peer[c] = "gone" => peer'[c] = "gone",
           \A c \in Conn : st'[c] # "none" \/ (hconn' = c /\ hpc' # "accepted") =>
               st[c] # "none" \/ (hconn = c /\ hpc # "accepted")
    PROVE  HasId'
<1> SUFFICES ASSUME NEW s \in Socket, fd'[s] # NoConn,
                    st'[fd'[s]] # "none" \/ (hconn' = fd'[s] /\ hpc' # "accepted")
             PROVE  uid'[s] = fd'[s] \/ (uid'[s] = NoPeerId /\ peer'[fd'[s]] = "gone")
  BY DEF HasId
<1>1. fd'[s] = fd[s] /\ uid'[s] = uid[s] /\ fd[s] \in Conn
  BY DEF IdInv, OwnInv, SafeInv, TypeInv, TypeOK
<1> QED
  BY <1>1 DEF IdInv, HasId

LEMMA HasIdStep ==
    ASSUME Quiet
    PROVE  IdInv /\ [Next]_vars => HasId'
<1> SUFFICES ASSUME IdInv, [Next]_vars PROVE HasId'
  OBVIOUS
<1>s. /\ OwnInv /\ OneReset /\ HasId
      /\ SafeInv /\ Ownership /\ TypeOK /\ Shape /\ Serial /\ OpenIsOwned
  BY OwnedIsOpenIsOwned DEF IdInv, OwnInv, SafeInv, TypeInv
<1>q. Write = {} /\ MayReject = FALSE
  BY DEF Quiet
<1> USE DEF poolVars, sockVars, acceptVars, handlerVars, chainVars, appVars, ctlVars
\* Operations of the pool and of one socket.
<1>a. ASSUME NEW s \in Socket, PoolFree(s)
      PROVE  \A t \in Socket : fd'[t] # NoConn => fd'[t] = fd[t] /\ uid'[t] = uid[t]
  BY <1>a, <1>s DEF PoolFree, TypeOK
<1>b. ASSUME lock \in Socket, SocketReset(lock)
      PROVE  \A t \in Socket : fd'[t] # NoConn => fd'[t] = fd[t] /\ uid'[t] = uid[t]
  <2>1. lock \in free /\ lock \notin busy
    BY <1>b, <1>s, SocketAssumption DEF OneReset, SafeInv, PoolDisjoint
  <2>2. fd[lock] = NoConn
    BY <1>b, <1>s, <2>1 DEF OpenIsOwned
  <2> QED
    BY <1>b, <2>2, <1>s DEF SocketReset, TypeOK
<1>1. ASSUME NEW k \in Caller, ControlNext(k) PROVE HasId'
  <2>1. CASE Start(k)
    BY <2>1, SameId, ConnAssumption DEF Start
  <2>2. CASE StopFlag(k) \/ StopCancel(k) \/ JoinAcceptor(k) \/ JoinIo(k)
    BY <2>2, SameId DEF StopFlag, StopCancel, JoinAcceptor, JoinIo
  <2>3. CASE CloseAll(k)
    BY <2>3, SameId DEF CloseAll
  <2> QED
    BY <1>1, <2>1, <2>2, <2>3 DEF ControlNext
<1>2. ASSUME NEW c \in Conn, AcceptOk(c) PROVE HasId'
  <2>1. /\ peer[c] = "waiting" /\ hpc' = "accepted" /\ hconn' = c /\ UNCHANGED <<uid, st>>
        /\ st[c] = "none" /\ acceptSock \in Socket
        /\ fd' = [fd EXCEPT ![acceptSock] = c] /\ peer' = [peer EXCEPT ![c] = "connected"]
    BY <1>2, <1>s DEF AcceptOk, EnterHandler, SafeInv, Fresh, Shape
  <2>2. ASSUME NEW s \in Socket, fd'[s] # NoConn, st'[fd'[s]] # "none" \/ (hconn' = fd'[s] /\ hpc' # "accepted")
        PROVE  uid'[s] = fd'[s] \/ (uid'[s] = NoPeerId /\ peer'[fd'[s]] = "gone")
    <3>1. s # acceptSock
      BY <2>1, <2>2, <1>s DEF TypeOK
    <3>2. fd'[s] = fd[s] /\ fd[s] \in Conn /\ st[fd[s]] # "none" /\ fd[s] # c
      BY <2>1, <2>2, <3>1, <1>s DEF TypeOK
    <3> QED
      BY <2>1, <2>2, <3>2, <1>s DEF HasId, TypeOK
  <2> QED
    BY <2>2 DEF HasId
<1>3. CASE AcceptAborted \/ AcceptError
  BY <1>3, SameId, ConnAssumption DEF AcceptAborted, AcceptError, EnterHandler
<1>4. CASE HandlerNext
  <2>1. CASE AcceptId
    <3>1. PICK id \in {hconn, NoPeerId} :
              /\ id = NoPeerId => fd[hsock] # hconn \/ peer[hconn] = "gone"
              /\ uid' = [uid EXCEPT ![hsock] = id]
      BY <2>1 DEF AcceptId
    <3>2. /\ hconn \in Conn /\ hsock \in Socket /\ sk[hconn] = hsock
          /\ UNCHANGED <<fd, st, peer, hconn>> /\ hpc = "accepted" /\ HandlerOwns(hconn)
      BY <2>1, <1>s DEF AcceptId, Shape, HandlerOwns
    <3>3. ASSUME NEW s \in Socket, fd'[s] # NoConn, st'[fd'[s]] # "none" \/ (hconn' = fd'[s] /\ hpc' # "accepted")
          PROVE  uid'[s] = fd'[s] \/ (uid'[s] = NoPeerId /\ peer'[fd'[s]] = "gone")
      <4>1. fd[s] \in Conn /\ fd' = fd
        BY <3>2, <3>3, <1>s DEF TypeOK
      <4>2. CASE s = hsock
        <5>1. fd[s] = hconn
          BY <3>2, <4>1, <4>2, <1>s, ConnAssumption DEF OpenIsOwned
        <5> QED
          BY <3>1, <3>2, <4>2, <5>1, <1>s DEF TypeOK
      <4>3. CASE s # hsock
        <5>1. sk[fd[s]] = s
          BY <4>1, <1>s, ConnAssumption DEF OpenIsOwned
        <5>2. fd[s] # hconn
          BY <3>2, <4>3, <5>1
        <5> QED
          BY <3>1, <3>2, <3>3, <4>1, <4>3, <5>2, <1>s DEF TypeOK, HasId
      <4> QED
        BY <4>2, <4>3
    <3> QED
      BY <3>3 DEF HasId
  <2>2. CASE AcceptClose \/ AcceptStopped \/ AcceptArm
    BY <2>2, SameId DEF AcceptClose, AcceptStopped, AcceptArm, AcceptClientReturns
  <2>3. CASE AcceptFree
    BY <2>3, <1>a, <1>s, SameId, ConnAssumption DEF AcceptFree, Shape, Ownership, AfterFree
  <2>4. CASE AcceptReset
    <3>1. lock = hsock /\ hsock \in Socket
      BY <2>4, <1>s DEF AcceptReset, OneReset, Shape
    <3> QED
      BY <2>4, <3>1, <1>b, SameId DEF AcceptReset
  <2>5. ASSUME NEW s \in Socket, AcceptGet(s) PROVE HasId'
    BY <2>5, SameId DEF AcceptGet
  <2>6. CASE AcceptNotify
    BY <2>6, SameId, ConnAssumption DEF AcceptNotify
  <2>7. CASE AcceptRead
    <3>1. \A c \in Conn : st'[c] # "none" => st[c] # "none" \/ c = hconn
      BY <2>7, <1>s DEF AcceptRead, BeginOp, TypeOK
    <3> QED
      BY <2>7, <3>1, SameId, ConnAssumption DEF AcceptRead
  <2> QED
    BY <1>4, <2>1, <2>2, <2>3, <2>4, <2>5, <2>6, <2>7 DEF HandlerNext
<1>5. ASSUME NEW x \in Chain, OpDone(x) \/ ChainNext(x) PROVE HasId'
  <2>0. x \in Conn
    BY <1>q
  <2>1. CASE OpDone(x) \/ OpFail(x) \/ HandlerRead(x) \/ HandlerClose(x) \/ Rearm(x)
    <3>1. st[x] # "none" /\ UNCHANGED <<fd, uid, peer, hconn, hpc>>
      BY <2>1 DEF OpDone, OpFail, HandlerRead, HandlerClose, Rearm, Step
    <3>2. \A c \in Conn : st'[c] # "none" => st[c] # "none"
      BY <2>1, <3>1, <1>s DEF OpDone, OpFail, HandlerRead, HandlerClose, Rearm, Step, BeginOp, TypeOK
    <3> QED
      BY <3>1, <3>2, SameId
  <2>2. CASE HandlerFree(x)
    <3>1. st[x] # "none" /\ sk[x] \in Socket /\ UNCHANGED <<peer, hconn, hpc>>
      BY <2>2, <1>s DEF HandlerFree, Step, Shape
    <3>2. \A c \in Conn : st'[c] # "none" => st[c] # "none"
      BY <2>2, <3>1, <1>s DEF HandlerFree, Step, TypeOK
    <3> QED
      BY <2>2, <3>1, <3>2, <1>a, SameId DEF HandlerFree
  <2>3. CASE HandlerReset(x)
    <3>1. st[x] # "none" /\ lock = sk[x] /\ lock \in Socket /\ UNCHANGED <<peer, hconn, hpc>>
      BY <2>3, <1>s DEF HandlerReset, Step, Shape, OneReset
    <3>2. \A c \in Conn : st'[c] # "none" => st[c] # "none"
      BY <2>3, <3>1, <1>s DEF HandlerReset, Step, TypeOK
    <3> QED
      BY <2>3, <3>1, <3>2, <1>b, SameId DEF HandlerReset
  <2> QED
    BY <1>5, <1>q, <2>1, <2>2, <2>3 DEF ChainNext
<1>6. CASE AppNext
  BY <1>6, <1>q, <1>s DEF AppNext, AppReject, AppFree, AppReset, Ownership
<1>7. ASSUME NEW c \in Conn, PeerClose(c) PROVE HasId'
  <2>1. \A d \in Conn : peer[d] = "gone" => peer'[d] = "gone"
    BY <1>7, <1>s DEF PeerClose, TypeOK
  <2> QED
    BY <1>7, <2>1, SameId DEF PeerClose
<1>8. CASE UNCHANGED vars
  BY <1>8, SameId DEF vars
<1> QED
  BY <1>1, <1>2, <1>3, <1>4, <1>5, <1>6, <1>7, <1>8 DEF Next

\* Steps that make no id, release no socket and take up none.
LEMMA SameFresh ==
    ASSUME IdInv, UNCHANGED sk,
           \A s \in Socket : uid'[s] \in {uid[s], NoId},
           \A s \in Socket : s \notin busy' /\ lock' # s => uid'[s] = NoId,
           acceptSt' # "none" \/ hpc' = "arm" =>
               acceptSock' = acceptSock /\ (acceptSt # "none" \/ hpc = "arm"),
           hpc' \in {"accepted", "failed", "free"} =>
               hsock' = hsock /\ hpc \in {"accepted", "failed", "free"},
           \A c \in Conn : Owns(c)' => Owns(c)
    PROVE  FreshId'
<1>1. /\ acceptSt # "none" \/ hpc = "arm" => acceptSock \in Socket
      /\ hpc \in {"accepted", "failed", "free"} => hsock \in Socket
  BY DEF IdInv, OwnInv, SafeInv, TypeInv, Shape
<1>2. \A c \in Conn : Owns(c) => sk[c] \in Socket
  BY ConnAssumption DEF IdInv, OwnInv, SafeInv, TypeInv, TypeOK, Ownership
<1> QED
  BY <1>1, <1>2 DEF IdInv, FreshId

LEMMA FreshIdStep ==
    ASSUME Quiet
    PROVE  IdInv /\ [Next]_vars => FreshId'
<1> SUFFICES ASSUME IdInv, [Next]_vars PROVE FreshId'
  OBVIOUS
<1>s. /\ OwnInv /\ OneReset /\ FreshId
      /\ SafeInv /\ Ownership /\ TypeOK /\ Shape /\ Serial
  BY DEF IdInv, OwnInv, SafeInv, TypeInv
<1>q. Write = {} /\ MayReject = FALSE
  BY DEF Quiet
<1> USE DEF poolVars, sockVars, acceptVars, handlerVars, chainVars, appVars, ctlVars
<1>a. ASSUME NEW s \in Socket, PoolFree(s)
      PROVE  /\ \A t \in Socket : uid'[t] \in {uid[t], NoId}
             /\ \A t \in Socket : t \notin busy' /\ lock' # t => uid'[t] = NoId
  BY <1>a, <1>s, SocketAssumption DEF PoolFree, FreshId
<1>b. ASSUME lock \in Socket, SocketReset(lock)
      PROVE  /\ \A t \in Socket : uid'[t] \in {uid[t], NoId}
             /\ \A t \in Socket : t \notin busy' /\ lock' # t => uid'[t] = NoId
  BY <1>b, <1>s DEF SocketReset, FreshId, TypeOK
<1>c. ASSUME UNCHANGED <<busy, lock, uid>>
      PROVE  /\ \A t \in Socket : uid'[t] \in {uid[t], NoId}
             /\ \A t \in Socket : t \notin busy' /\ lock' # t => uid'[t] = NoId
  BY <1>c, <1>s DEF FreshId
<1>1. ASSUME NEW k \in Caller, ControlNext(k) PROVE FreshId'
  <2>1. CASE Start(k)
    <3>1. \A c \in Conn : Owns(c)' => Owns(c)
      BY <2>1, ConnAssumption DEF Start, Owns, ReadOwns, HandlerOwns
    <3>2. hpc = "idle" /\ acceptSt = "none"
      BY <2>1, <1>s DEF Start, Serial
    <3> QED
      BY <2>1, <3>1, <3>2, <1>c, SameFresh DEF Start
  <2>2. CASE StopFlag(k) \/ StopCancel(k) \/ JoinAcceptor(k) \/ JoinIo(k)
    <3>1. /\ UNCHANGED <<busy, lock, uid, sk, st, hpc, hconn, hsock, acceptSock>>
          /\ acceptSt' # "none" => acceptSt # "none"
      BY <2>2 DEF StopFlag, StopCancel, JoinAcceptor, JoinIo
    <3>2. \A c \in Conn : Owns(c)' => Owns(c)
      BY <3>1 DEF Owns, ReadOwns, HandlerOwns
    <3> QED
      BY <3>1, <3>2, <1>c, SameFresh
  <2>3. CASE CloseAll(k)
    <3>1. /\ UNCHANGED <<busy, lock, sk, st, hpc, hconn, hsock, acceptSock, acceptSt>>
          /\ uid' = [s \in Socket |-> IF s \in busy THEN NoId ELSE uid[s]]
      BY <2>3 DEF CloseAll
    <3>2. \A c \in Conn : Owns(c)' => Owns(c)
      BY <3>1 DEF Owns, ReadOwns, HandlerOwns
    <3>3. /\ \A t \in Socket : uid'[t] \in {uid[t], NoId}
          /\ \A t \in Socket : t \notin busy' /\ lock' # t => uid'[t] = NoId
      BY <3>1, <1>s DEF FreshId
    <3> QED
      BY <3>1, <3>2, <3>3, SameFresh
  <2> QED
    BY <1>1, <2>1, <2>2, <2>3 DEF ControlNext
<1>2. ASSUME NEW c \in Conn, AcceptOk(c) PROVE FreshId'
  <2>1. /\ acceptSt # "none" /\ hpc' = "accepted" /\ hsock' = acceptSock /\ hconn' = c /\ acceptSt' = "none"
        /\ UNCHANGED <<busy, lock, uid, st>> /\ sk' = [sk EXCEPT ![c] = acceptSock]
        /\ hpc = "idle"
    BY <1>2 DEF AcceptOk, EnterHandler
  <2>2. \A d \in Conn : Owns(d)' => Owns(d) \/ d = c
    BY <2>1 DEF Owns, ReadOwns, HandlerOwns
  <2>3. \A d \in Conn : sk'[d] = IF d = c THEN acceptSock ELSE sk[d]
    BY <2>1, <1>s DEF TypeOK
  <2> QED
    BY <2>1, <2>2, <2>3, <1>s DEF FreshId
<1>3. CASE AcceptAborted \/ AcceptError
  <2>1. /\ acceptSt # "none" /\ hpc' = "failed" /\ hsock' = acceptSock /\ hconn' = NoConn /\ acceptSt' = "none"
        /\ UNCHANGED <<busy, lock, uid, st, sk>>
    BY <1>3 DEF AcceptAborted, AcceptError, EnterHandler
  <2>2. \A d \in Conn : Owns(d)' => Owns(d)
    BY <2>1 DEF Owns, ReadOwns, HandlerOwns
  <2> QED
    BY <2>1, <2>2, <1>s DEF FreshId
<1>4. CASE HandlerNext
  <2>1. CASE AcceptId
    <3>1. PICK id \in {hconn, NoPeerId} : uid' = [uid EXCEPT ![hsock] = id]
      BY <2>1 DEF AcceptId
    <3>2. /\ hconn \in Conn /\ hsock \in Socket /\ sk[hconn] = hsock /\ hpc' = "next"
          /\ UNCHANGED <<busy, lock, sk, st, hconn, acceptSt>> /\ hpc = "accepted" /\ Owns(hconn)
          /\ acceptSt = "none"
      BY <2>1, <1>s DEF AcceptId, Shape, HandlerOwns, Owns, Serial
    <3>3. hsock \in busy /\ \A c \in Conn : Owns(c) /\ sk[c] = hsock => c = hconn
      BY <3>2, <1>s DEF Ownership
    <3>4. \A c \in Conn : Owns(c)' => Owns(c)
      BY <3>2 DEF Owns, ReadOwns, HandlerOwns
    <3>5. \A s \in Socket : uid'[s] = IF s = hsock THEN id ELSE uid[s]
      BY <3>1, <1>s DEF TypeOK
    <3>6. \A c \in Conn : Owns(c) => sk[c] \in Socket
      BY <1>s DEF Ownership, TypeOK
    <3> QED
      BY <3>1, <3>2, <3>3, <3>4, <3>5, <3>6, <1>s DEF FreshId
  <2>2. CASE AcceptClose \/ AcceptStopped \/ AcceptArm \/ AcceptNotify
    <3>1. UNCHANGED <<busy, lock, uid, sk, st, acceptSock, hconn>>
      BY <2>2 DEF AcceptClose, AcceptStopped, AcceptArm, AcceptNotify, AcceptClientReturns
    <3>2. /\ acceptSt' # "none" => acceptSt # "none" \/ hpc = "arm"
          /\ hpc' # "arm"
          /\ hpc' \in {"accepted", "failed", "free"} => hsock' = hsock /\ hpc = "failed"
      BY <2>2 DEF AcceptClose, AcceptStopped, AcceptArm, AcceptNotify, AcceptClientReturns
    <3>3. hpc' \in {"accepted", "next", "arm", "notify", "read"} =>
              hpc \in {"accepted", "next", "arm", "notify", "read"}
      BY <2>2 DEF AcceptClose, AcceptStopped, AcceptArm, AcceptNotify, AcceptClientReturns
    <3>4. \A c \in Conn : Owns(c)' => Owns(c)
      BY <3>1, <3>3 DEF Owns, ReadOwns, HandlerOwns
    <3> QED
      BY <3>1, <3>2, <3>4, <1>c, SameFresh
  <2>3. CASE AcceptFree
    <3>1. /\ hpc' = "reset" /\ PoolFree(hsock) /\ hsock \in Socket
          /\ UNCHANGED <<sk, st, hconn, acceptSock, acceptSt>> /\ acceptSt = "none" /\ hconn = NoConn
      BY <2>3, <1>s DEF AcceptFree, AfterFree, Ownership, Shape, Serial
    <3>2. \A c \in Conn : Owns(c)' => Owns(c)
      BY <3>1 DEF Owns, ReadOwns, HandlerOwns
    <3> QED
      BY <3>1, <3>2, <1>a, SameFresh
  <2>4. CASE AcceptReset
    <3>1. /\ hpc = "reset" /\ hpc' = "next" /\ lock = hsock /\ hsock \in Socket /\ SocketReset(hsock)
          /\ UNCHANGED <<sk, st, hconn, acceptSock, acceptSt>> /\ acceptSt = "none" /\ hconn = NoConn
      BY <2>4, <1>s DEF AcceptReset, OneReset, Shape, Ownership, Serial
    <3>2. \A c \in Conn : Owns(c)' => Owns(c)
      BY <3>1, ConnAssumption DEF Owns, ReadOwns, HandlerOwns
    <3> QED
      BY <3>1, <3>2, <1>b, SameFresh
  <2>5. ASSUME NEW s \in Socket, AcceptGet(s) PROVE FreshId'
    <3>1. /\ hpc = "next" /\ hpc' = "arm" /\ acceptSock' = s /\ lock = NoSock
          /\ s \notin busy /\ busy' = busy \cup {s}
          /\ UNCHANGED <<sk, st, hconn, uid, lock>>
      BY <2>5, <1>s DEF AcceptGet, PoolGet, kSubset, SafeInv, PoolDisjoint
    <3>2. uid[s] = NoId
      BY <3>1, <1>s, SocketAssumption DEF FreshId
    <3>3. \A c \in Conn : Owns(c)' => Owns(c)
      BY <3>1 DEF Owns, ReadOwns, HandlerOwns
    <3> QED
      BY <3>1, <3>2, <3>3, <1>s DEF FreshId
  <2>6. CASE AcceptRead
    <3>1. /\ hconn \in Conn /\ hpc = "read" /\ hpc' = "idle"
          /\ hconn' = NoConn
          /\ st' = [st EXCEPT ![hconn] = IF fd[hsock] = NoConn THEN "done" ELSE "pending"]
          /\ UNCHANGED <<busy, lock, uid, sk, acceptSock, acceptSt>>
      BY <2>6, <1>s DEF AcceptRead, BeginOp, Shape
    <3>2. \A c \in Conn : Owns(c)' => Owns(c)
      BY <3>1, <1>s, ConnAssumption DEF Owns, ReadOwns, HandlerOwns, TypeOK
    <3> QED
      BY <3>1, <3>2, <1>c, SameFresh
  <2> QED
    BY <1>4, <2>1, <2>2, <2>3, <2>4, <2>5, <2>6 DEF HandlerNext
<1>5. ASSUME NEW x \in Chain, OpDone(x) \/ ChainNext(x) PROVE FreshId'
  <2>0. x \in Conn
    BY <1>q
  <2>d. ASSUME NEW to, st' = [st EXCEPT ![x] = to], UNCHANGED <<hpc, hconn>>,
               to \in {"pending", "ready", "rearm", "failed", "free"} => ReadOwns(x)
        PROVE  \A c \in Conn : Owns(c)' => Owns(c)
    BY <2>d, <1>s DEF Owns, ReadOwns, HandlerOwns, TypeOK
  <2>1. CASE OpDone(x) \/ OpFail(x) \/ HandlerRead(x) \/ HandlerClose(x)
    <3>1. /\ UNCHANGED <<busy, lock, uid, sk, hpc, hconn, hsock, acceptSock, acceptSt>>
          /\ ReadOwns(x) /\ \E to : st' = [st EXCEPT ![x] = to]
      BY <2>1 DEF OpDone, OpFail, HandlerRead, HandlerClose, Step, ReadOwns
    <3>2. \A c \in Conn : Owns(c)' => Owns(c)
      BY <3>1, <2>d
    <3> QED
      BY <3>1, <3>2, <1>c, SameFresh
  <2>2. CASE Rearm(x)
    <3>1. /\ UNCHANGED <<busy, lock, uid, sk, hpc, hconn, hsock, acceptSock, acceptSt>>
          /\ ReadOwns(x) /\ \E to : st' = [st EXCEPT ![x] = to]
      BY <2>2 DEF Rearm, BeginOp, ReadOwns
    <3>2. \A c \in Conn : Owns(c)' => Owns(c)
      BY <3>1, <2>d
    <3> QED
      BY <3>1, <3>2, <1>c, SameFresh
  <2>3. CASE HandlerFree(x)
    <3>1. /\ UNCHANGED <<sk, hpc, hconn, hsock, acceptSock, acceptSt>>
          /\ ReadOwns(x) /\ st' = [st EXCEPT ![x] = AfterFree(sk[x], "done")]
          /\ sk[x] \in Socket /\ PoolFree(sk[x])
      BY <2>3, <1>s DEF HandlerFree, Step, ReadOwns, Shape
    <3>2. \A c \in Conn : Owns(c)' => Owns(c)
      BY <3>1, <2>d
    <3> QED
      BY <3>1, <3>2, <1>a, SameFresh
  <2>4. CASE HandlerReset(x)
    <3>1. /\ UNCHANGED <<sk, hpc, hconn, hsock, acceptSock, acceptSt>>
          /\ st' = [st EXCEPT ![x] = "done"]
          /\ lock = sk[x] /\ lock \in Socket /\ SocketReset(lock)
      BY <2>4, <1>s DEF HandlerReset, Step, Shape, OneReset
    <3>2. \A c \in Conn : Owns(c)' => Owns(c)
      BY <3>1, <2>d
    <3> QED
      BY <3>1, <3>2, <1>b, SameFresh
  <2> QED
    BY <1>5, <1>q, <2>1, <2>2, <2>3, <2>4 DEF ChainNext
<1>6. CASE AppNext
  BY <1>6, <1>q, <1>s DEF AppNext, AppReject, AppFree, AppReset, Ownership
<1>7. CASE (\E c \in Conn : PeerClose(c)) \/ UNCHANGED vars
  <2>1. UNCHANGED <<busy, lock, uid, sk, st, hpc, hconn, hsock, acceptSock, acceptSt>>
    BY <1>7 DEF PeerClose, vars
  <2>2. \A c \in Conn : Owns(c)' => Owns(c)
    BY <2>1 DEF Owns, ReadOwns, HandlerOwns
  <2> QED
    BY <2>1, <2>2, <1>c, SameFresh
<1> QED
  BY <1>1, <1>2, <1>3, <1>4, <1>5, <1>6, <1>7 DEF Next

LEMMA IdStep == ASSUME Quiet PROVE IdInv /\ [Next]_vars => IdInv'
BY OwnStep, ResetStep, HasIdStep, FreshIdStep DEF IdInv

\* As long as a connection with a read chain is open, its socket has the
\* unique_id of that connection, or the one made for a peer that had left: the
\* reset of a socket that was freed never reaches one that is in use again.
THEOREM OpenIdCorrect == ASSUME Quiet PROVE Spec => []OpenHasId
<1>1. /\ Init => IdInv
      /\ IdInv /\ [Next]_vars => IdInv'
      /\ IdInv => OpenHasId
  BY IdInit, IdStep DEF IdInv, HasId, OpenHasId
<1> QED
  BY <1>1, PTL DEF Spec
=============================================================================
