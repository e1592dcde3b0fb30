-------------------------- MODULE ClientWorkEngine --------------------------
(***************************************************************************)
(* client_work_engine over tlhh::tcp::tcp_client: the application thread   *)
(* that connects, sends and disconnects, the io thread that completes the  *)
(* operations of the one socket, and the work thread that parses chunks    *)
(* and calls the sink. Every connect() makes a socket and two threads that *)
(* dis_connect() joins: a session.                                         *)
(***************************************************************************)
EXTENDS Naturals, Sequences

CONSTANTS
    Write,       \* calls of send_data, each made once
    MaxSession,  \* bound: calls of connect()
    MaxChunk     \* bound: chunks received in a session

ASSUME SessionAssumption == MaxSession \in Nat /\ MaxChunk \in Nat

VARIABLES
    app,        \* where the application thread is
    connected,  \* connected_
    session,    \* calls of connect() made
    sock,       \* the socket client_
    server,     \* the other end of the session
    con, rd,    \* async_connect and the read chain, with their handlers
    wr,         \* the writes
    chunks,     \* chunks received in this session
    workq,      \* lambdas posted to client_io_service_
    run,        \* the chunk that the work thread parses, if any
    partial,    \* sessions with bytes left in the parser, an incomplete packet
    told, call  \* history: sessions announced to the sink; the last callback

appVars  == <<app, connected, session>>
sockVars == <<sock, server>>
opVars   == <<con, rd, wr, chunks>>
workVars == <<workq, run, partial>>
sinkVars == <<told, call>>
vars == <<appVars, sockVars, opVars, workVars, sinkVars>>

Session == 1 .. MaxSession
Chunk == [session : Session, whole : BOOLEAN]
Idle == [session |-> 0, whole |-> TRUE]

TypeOK ==
    /\ app \in {"out", "in", "joinio", "joinwork"} /\ connected \in BOOLEAN
    /\ session \in 0 .. MaxSession
    /\ sock \in {"none", "connecting", "open", "closed"}
    /\ server \in {"none", "up", "gone"}
    /\ con \in {"none", "pending", "ok", "failed", "read", "done"}
    /\ rd \in {"none", "pending", "ready", "failed", "rearm", "done"}
    /\ wr \in [Write -> {"none", "pending", "ready", "failed", "done"}]
    /\ chunks \in 0 .. MaxChunk
    /\ workq \in Seq(Chunk) /\ run \in Chunk \cup {Idle}
    /\ partial \subseteq Session
    /\ told \subseteq Session
    /\ call \in [kind : {"none", "connected", "read"}, session : 0 .. MaxSession]

Init ==
    /\ app = "out" /\ connected = FALSE /\ session = 0
    /\ sock = "none" /\ server = "none"
    /\ con = "none" /\ rd = "none" /\ wr = [w \in Write |-> "none"] /\ chunks = 0
    /\ workq = <<>> /\ run = Idle /\ partial = {}
    /\ told = {} /\ call = [kind |-> "none", session |-> 0]

-----------------------------------------------------------------------------
(* The application thread.                                                 *)

\* connect(): the work thread and the io thread are created, and
\* async_connect, which opens the socket, is started.
Connect ==
    /\ app = "out" /\ session < MaxSession
    /\ app' = "in" /\ connected' = TRUE /\ session' = session + 1
    /\ sock' = "connecting" /\ server' = "up"
    /\ con' = "pending" /\ rd' = "none" /\ chunks' = 0
    /\ UNCHANGED <<wr, workVars, sinkVars>>

\* send_data(): nothing is written on a closed socket.
SendData(w) ==
    /\ app = "in" /\ wr[w] = "none"
    /\ wr' = [wr EXCEPT ![w] = IF sock = "closed" THEN "done" ELSE "pending"]
    /\ UNCHANGED <<appVars, sockVars, con, rd, chunks, workVars, sinkVars>>

\* Mutant of DisConnect: the socket stays open.
DisConnectOpen ==
    /\ app = "in" /\ connected
    /\ app' = "joinio"
    /\ UNCHANGED <<connected, session, sockVars, opVars, workVars, sinkVars>>

\* dis_connect(): the socket is closed ...
DisConnect ==
    /\ app = "in" /\ connected
    /\ app' = "joinio"
    /\ sock' = "closed"
    /\ UNCHANGED <<connected, session, server, opVars, workVars, sinkVars>>

\* ... the io thread ends when no operation is outstanding ...
JoinIo ==
    /\ app = "joinio"
    /\ con \in {"none", "done"} /\ rd \in {"none", "done"}
    /\ \A w \in Write : wr[w] \in {"none", "done"}
    /\ app' = "joinwork" /\ connected' = FALSE
    /\ sock' = "none" /\ server' = "none"
    /\ UNCHANGED <<session, opVars, workVars, sinkVars>>

\* Mutant of JoinWork: the work thread is not waited for.
JoinNothing ==
    /\ app = "joinwork"
    /\ app' = "out"
    /\ UNCHANGED <<connected, session, sockVars, opVars, workVars, sinkVars>>

\* ... and the work thread when it has run every lambda.
JoinWork ==
    /\ app = "joinwork"
    /\ workq = <<>> /\ run = Idle
    /\ app' = "out"
    /\ UNCHANGED <<connected, session, sockVars, opVars, workVars, sinkVars>>

-----------------------------------------------------------------------------
(* Completions: the server, the network, or the socket closed under them.  *)

ConnectOk ==
    /\ con = "pending" /\ sock = "connecting"
    /\ con' = "ok" /\ sock' = "open"
    /\ UNCHANGED <<appVars, server, rd, wr, chunks, workVars, sinkVars>>

ConnectFail ==
    /\ con = "pending"
    /\ con' = "failed"
    /\ server' = IF sock = "connecting" THEN "gone" ELSE server
    /\ UNCHANGED <<appVars, sock, rd, wr, chunks, workVars, sinkVars>>

ReadDone ==
    /\ rd = "pending" /\ sock = "open" /\ server = "up" /\ chunks < MaxChunk
    /\ rd' = "ready" /\ chunks' = chunks + 1
    /\ UNCHANGED <<appVars, sockVars, con, wr, workVars, sinkVars>>

ReadFail ==
    /\ rd = "pending" /\ (sock = "closed" \/ server = "gone")
    /\ rd' = "failed"
    /\ UNCHANGED <<appVars, sockVars, con, wr, chunks, workVars, sinkVars>>

WriteDone(w) ==
    /\ wr[w] = "pending" /\ sock = "open" /\ server = "up"
    /\ wr' = [wr EXCEPT ![w] = "ready"]
    /\ UNCHANGED <<appVars, sockVars, con, rd, chunks, workVars, sinkVars>>

\* A write may also fail because the socket is not connected yet: Windows
\* refuses it, Linux keeps it until the connection is established.
WriteFail(w) ==
    /\ wr[w] = "pending" /\ (sock \in {"closed", "connecting"} \/ server = "gone")
    /\ wr' = [wr EXCEPT ![w] = "failed"]
    /\ UNCHANGED <<appVars, sockVars, con, rd, chunks, workVars, sinkVars>>

ServerCloses ==
    /\ sock = "open" /\ server = "up"
    /\ server' = "gone"
    /\ UNCHANGED <<appVars, sock, opVars, workVars, sinkVars>>

-----------------------------------------------------------------------------
(* The io thread. A handler is split where it is in the sink or in the     *)
(* engine and has an operation to start afterwards.                        *)

IoIdle == con # "read" /\ rd # "rearm"

Callback(kind, n) == call' = [kind |-> kind, session |-> n]

\* handler_connected after success calls the sink ...
HandlerConnected ==
    /\ IoIdle /\ con = "ok"
    /\ con' = "read"
    /\ told' = told \cup {session} /\ Callback("connected", session)
    /\ UNCHANGED <<appVars, sockVars, rd, wr, chunks, workVars>>

\* socket::async_read starts nothing on a closed socket.
BeginRead == rd' = IF sock = "closed" THEN "done" ELSE "pending"

\* ... and starts the read chain.
StartRead ==
    /\ con = "read"
    /\ con' = "done"
    /\ BeginRead
    /\ UNCHANGED <<appVars, sockVars, wr, chunks, workVars, sinkVars>>

\* handler_connected after an error.
HandlerConnectFailed ==
    /\ IoIdle /\ con = "failed"
    /\ con' = "done" /\ sock' = "closed"
    /\ UNCHANGED <<appVars, server, rd, wr, chunks, workVars, sinkVars>>

\* handler_read posts the chunk, which ends a packet or does not ...
HandlerRead ==
    /\ IoIdle /\ rd = "ready"
    /\ rd' = "rearm"
    /\ \E whole \in BOOLEAN : workq' = Append(workq, [session |-> session, whole |-> whole])
    /\ UNCHANGED <<appVars, sockVars, con, wr, chunks, run, partial, sinkVars>>

\* ... and reads on.
Rearm ==
    /\ rd = "rearm"
    /\ BeginRead
    /\ UNCHANGED <<appVars, sockVars, con, wr, chunks, workVars, sinkVars>>

\* Mutant of HandlerReadFailed: the socket is not freed.
HandlerReadOnly ==
    /\ IoIdle /\ rd = "failed"
    /\ rd' = "done"
    /\ UNCHANGED <<appVars, sockVars, con, wr, chunks, workVars, sinkVars>>

\* handler_read after an error.
HandlerReadFailed ==
    /\ IoIdle /\ rd = "failed"
    /\ rd' = "done" /\ sock' = "closed"
    /\ UNCHANGED <<appVars, server, con, wr, chunks, workVars, sinkVars>>

\* handler_write; it frees the socket after an error.
HandlerWrite(w) ==
    /\ IoIdle /\ wr[w] \in {"ready", "failed"}
    /\ wr' = [wr EXCEPT ![w] = "done"]
    /\ sock' = IF wr[w] = "failed" THEN "closed" ELSE sock
    /\ UNCHANGED <<appVars, server, con, rd, chunks, workVars, sinkVars>>

-----------------------------------------------------------------------------
(* The work thread.                                                        *)

\* A chunk is committed to the parser, after the bytes it has left.
WRecv ==
    /\ run = Idle /\ workq # <<>>
    /\ run' = Head(workq) /\ workq' = Tail(workq)
    /\ partial' = partial \cup {Head(workq).session}
    /\ UNCHANGED <<appVars, sockVars, opVars, sinkVars>>

Mixed == partial # {run.session}

\* A packet is complete and given to the sink, or the chunk waits for the next
\* one. With the bytes of two sessions in the parser, either may happen, or an
\* exception, which is dropped with the buffer left as it is.
WPacket ==
    /\ run # Idle
    /\ run' = Idle
    /\ \/ /\ run.whole \/ Mixed
          /\ Callback("read", run.session)
          /\ partial' \in IF Mixed THEN SUBSET partial ELSE {{}}
       \/ /\ ~run.whole \/ Mixed
          /\ UNCHANGED <<partial, call>>
    /\ UNCHANGED <<appVars, sockVars, opVars, workq, told>>

-----------------------------------------------------------------------------
Completion ==
    \/ ConnectOk \/ ConnectFail \/ ReadDone \/ ServerCloses
    \/ ReadFail \/ (\E w \in Write : WriteDone(w) \/ WriteFail(w))

IoNext ==
    \/ HandlerConnected \/ StartRead \/ HandlerConnectFailed
    \/ HandlerRead \/ Rearm \/ HandlerReadFailed
    \/ \E w \in Write : HandlerWrite(w)

Finished == app = "out" /\ session = MaxSession /\ UNCHANGED vars

Next ==
    \/ Connect \/ (\E w \in Write : SendData(w)) \/ DisConnect \/ JoinIo \/ JoinWork
    \/ Completion \/ IoNext \/ WRecv \/ WPacket
    \/ Finished

Spec == Init /\ [][Next]_vars

\* Threads that can run do run, a join returns when its thread has ended, and
\* an operation on a closed socket or with a server that is gone completes.
\* The application, the server and the network do as they like.
Fairness ==
    /\ WF_vars(JoinIo) /\ WF_vars(JoinWork)
    /\ WF_vars(sock = "closed" /\ ConnectFail)
    /\ WF_vars(ReadFail) /\ \A w \in Write : WF_vars(WriteFail(w))
    /\ WF_vars(IoNext) /\ WF_vars(WRecv) /\ WF_vars(WPacket)

FairSpec == Spec /\ Fairness
-----------------------------------------------------------------------------
\* Once dis_connect() has returned, and until the next connect(), the sink is
\* not called: the application may destroy it (attemper_sink.cpp of
\* GameClient).
SilentWhenOut == [][UNCHANGED call \/ app # "out"]_vars

\* The chunks and the callbacks of a session come after net_work_connected
\* and before the next session begins: the sink never hears of an old one.
InSession ==
    /\ \A i \in DOMAIN workq : workq[i].session = session /\ session \in told
    /\ call.kind = "read" => call.session \in told
    /\ app # "out" /\ session \in told => call.session = session

\* dis_connect() returns, whatever was outstanding when it was called.
DisConnectReturns == (app = "joinio") ~> (app = "out")

\* When the server is gone the socket is closed, although nobody is told.
GoneIsClosed == (server = "gone") ~> (sock \in {"closed", "none"})

\* GameClient/src/main.cpp:21-23: a test disconnects and connects again, and
\* goes on. The bytes that make up a packet are of one session.
PacketOfOneSession == \A m, n \in partial : m = n
=============================================================================
