------------------------------ MODULE TcpServer ------------------------------
(***************************************************************************)
(* The connection life cycle of tlhh::tcp::server: the socket pool, the    *)
(* accept chain of the acceptor thread, the asynchronous reads and writes  *)
(* completed by the io threads, the application thread that may call       *)
(* free_client and async_write, and start() / stop() called by control     *)
(* threads.                                                                *)
(*                                                                         *)
(* A step is what one thread does between two points where another thread  *)
(* can interfere: a critical section, a call of a handler supplied by the  *)
(* application, or the start of an asynchronous operation.                 *)
(***************************************************************************)
EXTENDS Integers, FiniteSets, FiniteSetsExt

CONSTANTS
    Socket,     \* addresses of tcp::socket objects (the pool is ordered by address)
    Conn,       \* TCP connections that peers may open, each at most once
    Write,      \* calls of async_write that the application may make
    Caller,     \* control threads calling start() and stop()
    NextSize,   \* sockets constructed at once by the pool
    MayReject,  \* may the application call free_client (a refused or malformed packet)?
    NoConn, NoSock,
    NoId,       \* the unique_id after param_->reset()
    NoPeerId    \* the unique_id "0.0.0.0:0:time" made when remote_endpoint() fails

\* A chain is an asynchronous operation with its completion handler: the read
\* of a connection, re-armed by its own handler, or one write.
Chain == Conn \cup Write

ASSUME SocketAssumption ==
    /\ Socket \subseteq Nat /\ IsFiniteSet(Socket)
    /\ NextSize \in Nat \ {0}
    /\ NextSize <= Cardinality(Socket)
    /\ NoSock \notin Socket
ASSUME ConnAssumption ==
    /\ NoConn \notin Conn
    /\ Conn \cap Write = {}
    /\ {NoId, NoPeerId} \cap Conn = {}
    /\ NoId # NoPeerId
ASSUME RejectAssumption == MayReject \in BOOLEAN

VARIABLES
    started, stoped,    \* started_ (under stop_mutex_), stoped_ (under accept_clients_mutex_)
    ctl,                \* where each control thread is
    busy, free,         \* busy_list_ and free_list_ of the pool
    fd,                 \* the connection a socket has open
    uid,                \* param_->unique_id of a socket
    lock,               \* the socket inside pool::free, between close_() and reset()
    acceptSock,         \* the socket given to the last async_accept
    acceptSt,           \* state of that async_accept
    hpc, hsock, hconn,  \* handler_accept: where it is, its client, the connection accepted
    peer,               \* the remote end of each connection
    st, on, sk,         \* chains: state, the connection operated on, the socket captured
    appSt, appSock      \* free_client called by the application thread

poolVars    == <<busy, free>>
sockVars    == <<fd, uid, lock>>
acceptVars  == <<acceptSock, acceptSt>>
handlerVars == <<hpc, hsock, hconn>>
chainVars   == <<st, on, sk>>
appVars     == <<appSt, appSock>>
ctlVars     == <<started, stoped, ctl>>
vars == <<ctlVars, poolVars, sockVars, acceptVars, handlerVars, peer, chainVars, appVars>>

TypeOK ==
    /\ started \in BOOLEAN /\ stoped \in BOOLEAN
    /\ ctl \in [Caller -> {"idle", "start", "stop", "join", "each", "joinio"}]
    /\ busy \subseteq Socket /\ free \subseteq Socket
    /\ fd \in [Socket -> Conn \cup {NoConn}]
    /\ uid \in [Socket -> Conn \cup {NoId, NoPeerId}]
    /\ lock \in Socket \cup {NoSock}
    /\ acceptSock \in Socket \cup {NoSock}
    /\ acceptSt \in {"none", "armed", "cancelled", "refused"}
    /\ hpc \in {"idle", "accepted", "failed", "free", "reset", "next", "arm", "notify", "read"}
    /\ hsock \in Socket \cup {NoSock} /\ hconn \in Conn \cup {NoConn}
    /\ peer \in [Conn -> {"waiting", "connected", "gone"}]
    /\ st \in [Chain -> {"none", "pending", "ready", "rearm", "failed", "free", "reset", "done"}]
    /\ on \in [Chain -> Conn \cup {NoConn}]
    /\ sk \in [Chain -> Socket \cup {NoSock}]
    /\ appSt \in {"idle", "free", "reset"}
    /\ appSock \in Socket \cup {NoSock}

Init ==
    /\ started = FALSE /\ stoped = TRUE
    /\ ctl = [k \in Caller |-> "idle"]
    /\ busy = {} /\ free \in kSubset(NextSize, Socket)
    /\ fd = [s \in Socket |-> NoConn]
    /\ uid = [s \in Socket |-> NoId]
    /\ lock = NoSock
    /\ acceptSock = NoSock /\ acceptSt = "none"
    /\ hpc = "idle" /\ hsock = NoSock /\ hconn = NoConn
    /\ peer = [c \in Conn |-> "waiting"]
    /\ st = [x \in Chain |-> "none"]
    /\ on = [x \in Chain |-> NoConn]
    /\ sk = [x \in Chain |-> NoSock]
    /\ appSt = "idle" /\ appSock = NoSock

-----------------------------------------------------------------------------
(* The socket pool.                                                        *)

\* Mutant of PoolGet: the socket is not erased from the free list.
PoolGetKeeps(s) ==
    /\ lock = NoSock
    /\ \E new \in IF free = {} THEN kSubset(NextSize, Socket \ (busy \cup free)) ELSE {{}} :
           /\ s \in free \cup new
           /\ \A t \in free \cup new : s <= t
           /\ busy' = busy \cup {s}
           /\ free' = free \cup new

\* pool::get: the free socket of lowest address becomes busy; an empty free
\* list is first filled with NextSize sockets, wherever the allocator puts them.
PoolGet(s) ==
    /\ lock = NoSock
    /\ \E new \in IF free = {} THEN kSubset(NextSize, Socket \ (busy \cup free)) ELSE {{}} :
           /\ s \in free \cup new
           /\ \A t \in free \cup new : s <= t
           /\ busy' = busy \cup {s}
           /\ free' = (free \cup new) \ {s}

\* Mutant of PoolFree: op(t) runs after the mutexes are released.
PoolFreeUnlocked(s) ==
    /\ IF s \in busy
       THEN /\ busy' = busy \ {s} /\ free' = free \cup {s}
            /\ fd' = [fd EXCEPT ![s] = NoConn]
       ELSE UNCHANGED <<busy, free, fd>>
    /\ UNCHANGED <<uid, lock>>

\* pool::free up to close_() of the socket: nothing when the socket is not
\* busy. The mutexes of the pool and of the socket are held until SocketReset.
PoolFree(s) ==
    /\ lock = NoSock
    /\ IF s \in busy
       THEN /\ busy' = busy \ {s} /\ free' = free \cup {s}
            /\ fd' = [fd EXCEPT ![s] = NoConn]
            /\ lock' = s
       ELSE UNCHANGED <<busy, free, fd, lock>>
    /\ UNCHANGED uid

\* The end of socket::free: param_->reset(), and both mutexes are released.
SocketReset(s) ==
    /\ uid' = [uid EXCEPT ![s] = NoId]
    /\ lock' = NoSock
    /\ UNCHANGED <<fd, poolVars>>

\* What free_client does after close_handler_, as the next state of its caller.
AfterFree(s, next) == IF s \in busy THEN "reset" ELSE next

-----------------------------------------------------------------------------
(* start() and stop().                                                     *)

\* stop_mutex_ is held by start() and by stop() from the call of stop_() on.
StopMutexFree == \A k \in Caller : ctl[k] \in {"idle", "stop"}

Goto(k, stage) == ctl' = [ctl EXCEPT ![k] = stage]

\* start() up to its call of accept_client; it returns at once when started.
Start(k) ==
    /\ ctl[k] = "idle" /\ StopMutexFree /\ ~started
    /\ started' = TRUE /\ stoped' = FALSE
    /\ Goto(k, "start")
    /\ hpc' = "next" /\ hsock' = NoSock /\ hconn' = NoConn
    /\ UNCHANGED <<poolVars, sockVars, acceptVars, peer, chainVars, appVars>>

\* stop(): the flag, set under accept_clients_mutex_ (held in "arm").
StopFlag(k) ==
    /\ ctl[k] = "idle" /\ hpc # "arm"
    /\ stoped' = TRUE
    /\ Goto(k, "stop")
    /\ UNCHANGED <<started, poolVars, sockVars, acceptVars, handlerVars, peer, chainVars, appVars>>

\* Mutant of StopCancel: the outstanding accept is not cancelled.
StopNoCancel(k) ==
    /\ ctl[k] = "stop" /\ StopMutexFree
    /\ Goto(k, IF started THEN "join" ELSE "idle")
    /\ UNCHANGED <<started, stoped, acceptVars, poolVars, sockVars, handlerVars, peer, chainVars, appVars>>

\* stop(): nothing more when not started, else acceptor_->cancel().
StopCancel(k) ==
    /\ ctl[k] = "stop" /\ StopMutexFree
    /\ Goto(k, IF started THEN "join" ELSE "idle")
    /\ acceptSt' = IF started /\ acceptSt = "armed" THEN "cancelled" ELSE acceptSt
    /\ UNCHANGED <<started, stoped, acceptSock, poolVars, sockVars, handlerVars, peer, chainVars, appVars>>

\* Mutant of JoinAcceptor: the clients are closed before the acceptor thread ends.
JoinNothing(k) ==
    /\ ctl[k] = "join"
    /\ Goto(k, "each")
    /\ UNCHANGED <<started, stoped, poolVars, sockVars, acceptVars, handlerVars, peer, chainVars, appVars>>

\* stop_(): acceptor_thread_->join() returns when no accept is outstanding.
JoinAcceptor(k) ==
    /\ ctl[k] = "join" /\ hpc = "idle" /\ acceptSt = "none"
    /\ Goto(k, "each")
    /\ UNCHANGED <<started, stoped, poolVars, sockVars, acceptVars, handlerVars, peer, chainVars, appVars>>

\* stop_(): client_pool_->each frees every busy socket, and leaves it busy.
CloseAll(k) ==
    /\ ctl[k] = "each" /\ lock = NoSock
    /\ Goto(k, "joinio")
    /\ fd' = [s \in Socket |-> IF s \in busy THEN NoConn ELSE fd[s]]
    /\ uid' = [s \in Socket |-> IF s \in busy THEN NoId ELSE uid[s]]
    /\ UNCHANGED <<started, stoped, lock, poolVars, acceptVars, handlerVars, peer, chainVars, appVars>>

\* stop_(): the io threads end when nothing is outstanding; stop() returns.
JoinIo(k) ==
    /\ ctl[k] = "joinio"
    /\ \A x \in Chain : st[x] \in {"none", "done"}
    /\ Goto(k, "idle")
    /\ started' = FALSE
    /\ UNCHANGED <<stoped, poolVars, sockVars, acceptVars, handlerVars, peer, chainVars, appVars>>

-----------------------------------------------------------------------------
(* The accept chain: handler_accept in the acceptor thread, and the call of *)
(* accept_client that start() makes (hsock = NoSock).                       *)

\* The asynchronous accept ends: control enters handler_accept for its socket.
EnterHandler(pc, c) ==
    /\ hpc = "idle"
    /\ hpc' = pc /\ hsock' = acceptSock /\ hconn' = c
    /\ acceptSt' = "none" /\ acceptSock' = NoSock

\* Mutant of AcceptOk: the handler is given the first busy socket.
AcceptOkFirst(c) ==
    /\ acceptSt \in {"armed", "cancelled"} /\ peer[c] = "waiting"
    /\ EnterHandler("accepted", c)
    /\ peer' = [peer EXCEPT ![c] = "connected"]
    /\ fd' = [fd EXCEPT ![acceptSock] = c]
    /\ sk' = [sk EXCEPT ![c] = Min(busy \cup {acceptSock})]
    /\ UNCHANGED <<uid, lock, st, on, poolVars, appVars, ctlVars>>

\* A connection is accepted; a completion may precede a cancel and be handled after it.
AcceptOk(c) ==
    /\ acceptSt \in {"armed", "cancelled"} /\ peer[c] = "waiting"
    /\ EnterHandler("accepted", c)
    /\ peer' = [peer EXCEPT ![c] = "connected"]
    /\ fd' = [fd EXCEPT ![acceptSock] = c]
    /\ sk' = [sk EXCEPT ![c] = acceptSock]
    /\ UNCHANGED <<uid, lock, st, on, poolVars, appVars, ctlVars>>

\* The accept was cancelled by stop_(), or refused since its socket was open.
AcceptAborted ==
    /\ acceptSt \in {"cancelled", "refused"}
    /\ EnterHandler("failed", NoConn)
    /\ UNCHANGED <<poolVars, sockVars, peer, chainVars, appVars, ctlVars>>

\* The system refuses the accept (no descriptor left, for example).
AcceptError ==
    /\ acceptSt = "armed"
    /\ EnterHandler("failed", NoConn)
    /\ UNCHANGED <<poolVars, sockVars, peer, chainVars, appVars, ctlVars>>

\* socket::accept makes the unique_id; it holds param_mutex_ only, which no
\* other function takes, so a free() of the same socket may be under way.
AcceptId ==
    /\ hpc = "accepted"
    /\ \E id \in {hconn, NoPeerId} :
           /\ id = hconn => fd[hsock] = hconn
           /\ id = NoPeerId => fd[hsock] # hconn \/ peer[hconn] = "gone"
           /\ uid' = [uid EXCEPT ![hsock] = id]
    /\ hpc' = "next"
    /\ UNCHANGED <<fd, lock, hsock, hconn, poolVars, acceptVars, peer, chainVars, appVars, ctlVars>>

\* handler_accept with an error: free_client calls close_handler_ ...
AcceptClose ==
    /\ hpc = "failed"
    /\ hpc' = "free"
    /\ UNCHANGED <<hsock, hconn, poolVars, sockVars, acceptVars, peer, chainVars, appVars, ctlVars>>

\* ... and returns the socket to the pool.
AcceptFree ==
    /\ hpc = "free"
    /\ PoolFree(hsock)
    /\ hpc' = AfterFree(hsock, "next")
    /\ UNCHANGED <<hsock, hconn, acceptVars, peer, chainVars, appVars, ctlVars>>

\* Mutant of AcceptReset: a failed accept is not followed by accept_client.
AcceptResetReturns ==
    /\ hpc = "reset"
    /\ SocketReset(hsock)
    /\ hpc' = "notify"
    /\ UNCHANGED <<hsock, hconn, acceptVars, peer, chainVars, appVars, ctlVars>>

AcceptReset ==
    /\ hpc = "reset"
    /\ SocketReset(hsock)
    /\ hpc' = "next"
    /\ UNCHANGED <<hsock, hconn, acceptVars, peer, chainVars, appVars, ctlVars>>

\* accept_client returns: to start(), which returns too, or to handler_accept.
AcceptClientReturns ==
    /\ hpc' = IF hsock = NoSock THEN "idle" ELSE "notify"
    /\ ctl' = IF hsock = NoSock
              THEN [k \in Caller |-> IF ctl[k] = "start" THEN "idle" ELSE ctl[k]]
              ELSE ctl
    /\ UNCHANGED <<started, stoped, hsock, hconn>>

\* accept_client when stoped_.
AcceptStopped ==
    /\ hpc = "next" /\ stoped
    /\ AcceptClientReturns
    /\ UNCHANGED <<poolVars, sockVars, acceptVars, peer, chainVars, appVars>>

\* Mutant of AcceptGet: an empty pool gives a null pointer, which is not checked.
AcceptGetNull(s) ==
    /\ hpc = "next" /\ ~stoped
    /\ PoolGet(s)
    /\ acceptSock' = IF free = {} THEN NoConn ELSE s
    /\ hpc' = "arm"
    /\ UNCHANGED <<acceptSt, hsock, hconn, sockVars, peer, chainVars, appVars, ctlVars>>

\* accept_client takes a socket from the pool ...
AcceptGet(s) ==
    /\ hpc = "next" /\ ~stoped
    /\ PoolGet(s)
    /\ acceptSock' = s
    /\ hpc' = "arm"
    /\ UNCHANGED <<acceptSt, hsock, hconn, sockVars, peer, chainVars, appVars, ctlVars>>

\* Mutant of AcceptArm: the socket accepted into may be open.
AcceptArmOpen ==
    /\ hpc = "arm"
    /\ acceptSt' = "armed"
    /\ AcceptClientReturns
    /\ UNCHANGED <<acceptSock, poolVars, sockVars, peer, chainVars, appVars>>

\* ... and starts an accept, which fails at once when the socket is open.
AcceptArm ==
    /\ hpc = "arm"
    /\ acceptSt' = IF fd[acceptSock] = NoConn THEN "armed" ELSE "refused"
    /\ AcceptClientReturns
    /\ UNCHANGED <<acceptSock, poolVars, sockVars, peer, chainVars, appVars>>

\* handler_accept calls accept_handler_.
AcceptNotify ==
    /\ hpc = "notify"
    /\ IF hconn = NoConn
       THEN hpc' = "idle" /\ hsock' = NoSock
       ELSE hpc' = "read" /\ UNCHANGED hsock
    /\ UNCHANGED <<hconn, poolVars, sockVars, acceptVars, peer, chainVars, appVars, ctlVars>>

\* socket::async_read and async_write: nothing is started on a closed socket.
BeginOp(x, s) ==
    /\ lock # s
    /\ st' = [st EXCEPT ![x] = IF fd[s] = NoConn THEN "done" ELSE "pending"]
    /\ on' = [on EXCEPT ![x] = fd[s]]

\* handler_accept starts the read chain of the connection.
AcceptRead ==
    /\ hpc = "read"
    /\ BeginOp(hconn, hsock)
    /\ hpc' = "idle" /\ hsock' = NoSock /\ hconn' = NoConn
    /\ UNCHANGED <<sk, poolVars, sockVars, acceptVars, peer, appVars, ctlVars>>

-----------------------------------------------------------------------------
(* The io threads. A socket belongs to one io_service, run by one thread.  *)

Inside == {"rearm", "free", "reset"}

IoIdle(s) == \A y \in Chain : sk[y] = s => st[y] \notin Inside

Step(x, from, to) == st[x] = from /\ st' = [st EXCEPT ![x] = to]

\* Data is received, or written.
OpDone(x) ==
    /\ started /\ Step(x, "pending", "ready")
    /\ fd[sk[x]] = on[x] /\ peer[on[x]] = "connected"
    /\ UNCHANGED <<on, sk, poolVars, sockVars, acceptVars, handlerVars, peer, appVars, ctlVars>>

\* The socket was closed under the operation, or the peer is gone.
OpFail(x) ==
    /\ started /\ Step(x, "pending", "failed")
    /\ fd[sk[x]] # on[x] \/ peer[on[x]] = "gone"
    /\ UNCHANGED <<on, sk, poolVars, sockVars, acceptVars, handlerVars, peer, appVars, ctlVars>>

\* handler_read with data calls recv_handler_.
HandlerRead(c) ==
    /\ started /\ IoIdle(sk[c]) /\ Step(c, "ready", "rearm")
    /\ UNCHANGED <<on, sk, poolVars, sockVars, acceptVars, handlerVars, peer, appVars, ctlVars>>

\* handler_read goes on reading from its socket, whatever is open there now.
Rearm(c) ==
    /\ st[c] = "rearm"
    /\ BeginOp(c, sk[c])
    /\ UNCHANGED <<sk, poolVars, sockVars, acceptVars, handlerVars, peer, appVars, ctlVars>>

\* handler_write after success.
HandlerWrite(w) ==
    /\ started /\ IoIdle(sk[w]) /\ Step(w, "ready", "done")
    /\ UNCHANGED <<on, sk, poolVars, sockVars, acceptVars, handlerVars, peer, appVars, ctlVars>>

\* Mutant of HandlerClose: the client is not returned to the pool.
HandlerCloseOnly(x) ==
    /\ started /\ IoIdle(sk[x]) /\ Step(x, "failed", "done")
    /\ UNCHANGED <<on, sk, poolVars, sockVars, acceptVars, handlerVars, peer, appVars, ctlVars>>

\* handler_read or handler_write with an error: free_client calls close_handler_ ...
HandlerClose(x) ==
    /\ started /\ IoIdle(sk[x]) /\ Step(x, "failed", "free")
    /\ UNCHANGED <<on, sk, poolVars, sockVars, acceptVars, handlerVars, peer, appVars, ctlVars>>

\* ... and returns the socket to the pool.
HandlerFree(x) ==
    /\ Step(x, "free", AfterFree(sk[x], "done"))
    /\ PoolFree(sk[x])
    /\ UNCHANGED <<on, sk, acceptVars, handlerVars, peer, appVars, ctlVars>>

HandlerReset(x) ==
    /\ Step(x, "reset", "done")
    /\ SocketReset(sk[x])
    /\ UNCHANGED <<on, sk, acceptVars, handlerVars, peer, appVars, ctlVars>>

-----------------------------------------------------------------------------
(* The application thread, given a socket by accept_handler_, and peers.   *)

\* accept_handler_ hands a socket out before handler_accept starts to read from it.
Handed == {sk[c] : c \in {d \in Conn : st[d] # "none" \/ (hconn = d /\ hpc = "read")}}

\* free_client(client) after a packet is refused: it calls close_handler_ ...
AppReject(s) ==
    /\ MayReject /\ appSt = "idle" /\ s \in Handed
    /\ appSt' = "free" /\ appSock' = s
    /\ UNCHANGED <<poolVars, sockVars, acceptVars, handlerVars, peer, chainVars, ctlVars>>

\* ... and returns the socket to the pool.
AppFree ==
    /\ appSt = "free"
    /\ PoolFree(appSock)
    /\ appSt' = AfterFree(appSock, "idle")
    /\ appSock' = IF appSock \in busy THEN appSock ELSE NoSock
    /\ UNCHANGED <<acceptVars, handlerVars, peer, chainVars, ctlVars>>

AppReset ==
    /\ appSt = "reset"
    /\ SocketReset(appSock)
    /\ appSt' = "idle" /\ appSock' = NoSock
    /\ UNCHANGED <<acceptVars, handlerVars, peer, chainVars, ctlVars>>

\* server::async_write; not while stop_() waits for the io threads.
AppWrite(w, s) ==
    /\ appSt = "idle" /\ s \in Handed /\ st[w] = "none"
    /\ \A k \in Caller : ctl[k] # "joinio"
    /\ BeginOp(w, s)
    /\ sk' = [sk EXCEPT ![w] = s]
    /\ UNCHANGED <<poolVars, sockVars, acceptVars, handlerVars, peer, appVars, ctlVars>>

\* The remote end closes or resets its connection.
PeerClose(c) ==
    /\ peer[c] = "connected"
    /\ peer' = [peer EXCEPT ![c] = "gone"]
    /\ UNCHANGED <<poolVars, sockVars, acceptVars, handlerVars, chainVars, appVars, ctlVars>>

-----------------------------------------------------------------------------
ControlNext(k) ==
    \/ Start(k) \/ StopFlag(k) \/ StopCancel(k) \/ JoinAcceptor(k) \/ CloseAll(k) \/ JoinIo(k)

\* What the acceptor thread does by itself once a handler is entered.
HandlerNext ==
    \/ AcceptId \/ AcceptClose \/ AcceptFree \/ AcceptReset
    \/ AcceptStopped \/ (\E s \in Socket : AcceptGet(s)) \/ AcceptArm
    \/ AcceptNotify \/ AcceptRead

\* What an io thread does by itself for a chain, data apart.
ChainNext(x) ==
    \/ OpFail(x)
    \/ (x \in Conn /\ HandlerRead(x)) \/ (x \in Conn /\ Rearm(x))
    \/ (x \in Write /\ HandlerWrite(x))
    \/ HandlerClose(x) \/ HandlerFree(x) \/ HandlerReset(x)

AppNext ==
    \/ \E s \in Socket : AppReject(s)
    \/ \E w \in Write, s \in Socket : AppWrite(w, s)
    \/ AppFree \/ AppReset

Next ==
    \/ \E k \in Caller : ControlNext(k)
    \/ \E c \in Conn : AcceptOk(c)
    \/ AcceptAborted \/ AcceptError
    \/ HandlerNext
    \/ \E x \in Chain : OpDone(x) \/ ChainNext(x)
    \/ AppNext
    \/ \E c \in Conn : PeerClose(c)

Spec == Init /\ [][Next]_vars

\* Threads that can run do run; peers, data, and the decision to start, to
\* stop or to refuse a packet are left to the environment. The pool mutex is
\* eventually acquired (SF) although the accept chain may go on taking it.
Fairness ==
    /\ WF_vars(AcceptAborted) /\ WF_vars(HandlerNext)
    /\ \A x \in Chain : WF_vars(ChainNext(x)) /\ SF_vars(HandlerFree(x))
    /\ WF_vars(AppFree \/ AppReset)
    /\ \A k \in Caller :
           WF_vars(StopCancel(k) \/ JoinAcceptor(k) \/ CloseAll(k) \/ JoinIo(k))

FairSpec == Spec /\ Fairness
-----------------------------------------------------------------------------
(* Properties that hold whatever the application does.                     *)

\* The busy and the free list never share a socket (pool.h:53-57, 67-68).
PoolDisjoint == busy \cap free = {}

\* While an accept can still succeed its socket is closed, so that the
\* connection accepted never replaces another one, even when a stale
\* free_client has put the socket being accepted back in the free list.
ArmedIsClosed ==
    acceptSt \in {"armed", "cancelled"} => acceptSock # NoSock /\ fd[acceptSock] = NoConn

\* The server keeps listening: while it runs and nobody asked it to stop, an
\* accept is outstanding or the acceptor thread is on its way to start one.
KeepsListening ==
    started /\ ~stoped =>
        \/ acceptSt # "none"
        \/ hpc \in {"accepted", "failed", "free", "reset", "next", "arm"}
        \/ \E k \in Caller : ctl[k] \in {"each", "joinio"}

\* The unique_id and the connection of a socket belong to connections that
\* this very socket has accepted; one connection is open in one socket only.
IdFromOwnSocket ==
    \A s \in Socket :
        /\ uid[s] \in Conn => sk[uid[s]] = s
        /\ fd[s] \in Conn => sk[fd[s]] = s

-----------------------------------------------------------------------------
(* Properties of the server while no packet is refused and none is sent, so *)
(* that free_client is called by failed reads and accepts only. GameServer  *)
(* sends none; it refuses a packet when the parser throws, which the mixed  *)
(* chunks of several clients can make it do even if each sends whole ones.  *)

Quiet == MayReject = FALSE /\ Write = {}

\* The chain of a connection is responsible for the socket it captured.
ReadOwns(c) == st[c] \in {"pending", "ready", "rearm", "failed", "free"}

\* handler_accept is responsible for its client until the read chain starts.
HandlerOwns(c) == hconn = c /\ hpc \in {"accepted", "next", "arm", "notify", "read"}

\* Every open socket is busy, and exactly one of handler_accept and the read
\* chain of that very connection will release it: no connection leaks, and
\* none can be closed by the late handler of another one.
OpenIsOwned ==
    \A s \in Socket : fd[s] # NoConn =>
        /\ s \in busy
        /\ sk[fd[s]] = s
        /\ ReadOwns(fd[s]) \/ HandlerOwns(fd[s])
        /\ \A c \in Conn : sk[c] = s /\ (ReadOwns(c) \/ HandlerOwns(c)) => c = fd[s]

\* A connection with a read chain has its own unique_id, or the one made for a
\* peer that was already gone, until its socket is released.
OpenHasId ==
    \A s \in Socket : fd[s] # NoConn /\ st[fd[s]] # "none" =>
        uid[s] = fd[s] \/ (uid[s] = NoPeerId /\ peer[fd[s]] = "gone")

\* tcp_server.cpp:135: stop_() closes all clients; when it waits for the io
\* threads and when stop() has returned, no connection is open.
StopClosesAll ==
    (\E k \in Caller : ctl[k] = "joinio") \/ ~started => \A s \in Socket : fd[s] = NoConn

\* A connection whose peer is gone is closed and its unique_id forgotten,
\* even when the server stops or keeps failing to accept in the meantime.
GoneIsReleased ==
    \A c \in Conn :
        (peer[c] = "gone") ~> (\A s \in Socket : fd[s] # c /\ uid[s] # c)

\* With one control thread, a stop() that was called returns.
StopReturns == \A k \in Caller : (ctl[k] = "stop") ~> (ctl[k] = "idle")
=============================================================================
