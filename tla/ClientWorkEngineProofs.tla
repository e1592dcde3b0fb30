----------------------- MODULE ClientWorkEngineProofs -----------------------
(***************************************************************************)
(* What client_work_engine guarantees for every number of sessions, chunks *)
(* and calls of send_data.                                                 *)
(***************************************************************************)
EXTENDS ClientWorkEngine, SequenceTheorems, TLAPS

\* No connect or read, pending or handled, is left when the io thread has
\* been joined, nor a lambda when the work thread has.
Joined ==
    /\ app \in {"out", "joinwork"} => con \in {"none", "done"} /\ rd \in {"none", "done"}
    /\ app = "out" => workq = <<>> /\ run = Idle

\* A session is announced before its first read, and none that is to come is.
Announced ==
    /\ con # "none" => session \in Session
    /\ con = "read" \/ rd # "none" => session \in told
    /\ told \subseteq 1 .. session

\* The chunks that wait or are parsed, and the last callback, are of this session.
OfSession ==
    /\ \A i \in DOMAIN workq : workq[i].session = session /\ session \in told
    /\ run # Idle => run.session = session /\ session \in told
    /\ call.kind = "read" => call.session \in told
    /\ app # "out" /\ session \in told => call.session = session

ClientInv == TypeOK /\ Joined /\ Announced /\ OfSession

LEMMA ClientInit == Init => ClientInv
<1> SUFFICES ASSUME Init PROVE ClientInv
  OBVIOUS
<1>1. TypeOK
  <2>1. <<>> \in Seq(Chunk) /\ 0 \in 0 .. MaxSession /\ 0 \in 0 .. MaxChunk
    BY SessionAssumption, EmptySeq
  <2>2. call \in [kind : {"none", "connected", "read"}, session : 0 .. MaxSession]
    BY <2>1 DEF Init
  <2> QED
    BY <2>1, <2>2 DEF Init, TypeOK
<1>2. Joined /\ Announced /\ OfSession
  BY DEF Init, Joined, Announced, OfSession
<1> QED
  BY <1>1, <1>2 DEF ClientInv

LEMMA ApplicationSteps ==
    ASSUME ClientInv,
           Connect \/ (\E w \in Write : SendData(w)) \/ DisConnect \/ JoinIo \/ JoinWork
    PROVE  ClientInv'
<1> USE SessionAssumption DEF ClientInv, TypeOK, Joined, Announced, OfSession, Session,
    appVars, sockVars, opVars, workVars, sinkVars
<1>1. CASE Connect
  BY <1>1 DEF Connect
<1>2. ASSUME NEW w \in Write, SendData(w) PROVE ClientInv'
  BY <1>2 DEF SendData
<1>3. CASE DisConnect
  BY <1>3 DEF DisConnect
<1>4. CASE JoinIo
  BY <1>4 DEF JoinIo
<1>5. CASE JoinWork
  BY <1>5 DEF JoinWork
<1> QED
  BY <1>1, <1>2, <1>3, <1>4, <1>5

LEMMA CompletionSteps == ASSUME ClientInv, Completion PROVE ClientInv'
<1> USE DEF ClientInv, TypeOK, Joined, Announced, OfSession, appVars, sockVars, opVars, workVars, sinkVars
<1>1. CASE ConnectOk
  BY <1>1 DEF ConnectOk
<1>2. CASE ConnectFail
  BY <1>2 DEF ConnectFail
<1>3. CASE ReadDone
  BY <1>3, SessionAssumption DEF ReadDone
<1>4. CASE ReadFail
  BY <1>4 DEF ReadFail
<1>5. CASE ServerCloses
  BY <1>5 DEF ServerCloses
<1>6. ASSUME NEW w \in Write, WriteDone(w) PROVE ClientInv'
  BY <1>6 DEF WriteDone
<1>7. ASSUME NEW w \in Write, WriteFail(w) PROVE ClientInv'
  BY <1>7 DEF WriteFail
<1> QED
  BY <1>1, <1>2, <1>3, <1>4, <1>5, <1>6, <1>7 DEF Completion

LEMMA IoSteps == ASSUME ClientInv, IoNext PROVE ClientInv'
<1> USE SessionAssumption DEF ClientInv, TypeOK, Joined, Announced, OfSession, Session,
    appVars, sockVars, opVars, workVars, sinkVars
<1>1. CASE HandlerConnected
  BY <1>1 DEF HandlerConnected, Callback
<1>2. CASE StartRead
  BY <1>2 DEF StartRead, BeginRead
<1>3. CASE Rearm
  BY <1>3 DEF Rearm, BeginRead
<1>4. CASE HandlerConnectFailed
  BY <1>4 DEF HandlerConnectFailed
<1>5. CASE HandlerReadFailed
  BY <1>5 DEF HandlerReadFailed
<1>6. CASE HandlerRead
  <2>1. session \in Session /\ session \in told /\ workq \in Seq(Chunk)
    BY <1>6 DEF HandlerRead
  <2>2. PICK whole \in BOOLEAN : workq' = Append(workq, [session |-> session, whole |-> whole])
    BY <1>6 DEF HandlerRead
  <2>3. [session |-> session, whole |-> whole] \in Chunk
    BY <2>1 DEF Chunk
  <2>4. /\ workq' \in Seq(Chunk)
        /\ \A i \in DOMAIN workq' : workq'[i].session = session
    BY <2>1, <2>2, <2>3, AppendProperties, LenProperties
  <2> QED
    BY <1>6, <2>1, <2>4 DEF HandlerRead
<1>7. ASSUME NEW w \in Write, HandlerWrite(w) PROVE ClientInv'
  BY <1>7 DEF HandlerWrite
<1> QED
  BY <1>1, <1>2, <1>3, <1>4, <1>5, <1>6, <1>7 DEF IoNext

LEMMA WorkSteps == ASSUME ClientInv, WRecv \/ WPacket PROVE ClientInv'
<1> USE DEF ClientInv, TypeOK, Joined, Announced, OfSession, appVars, sockVars, opVars, workVars, sinkVars
<1>1. CASE WRecv
  <2>1. /\ Head(workq) \in Chunk /\ Tail(workq) \in Seq(Chunk)
        /\ \A i \in DOMAIN Tail(workq) : Tail(workq)[i].session = session
        /\ Head(workq).session = session /\ session \in told
    BY <1>1, HeadTailProperties, LenProperties, EmptySeq DEF WRecv
  <2>2. Head(workq).session \in Session
    BY <2>1 DEF Chunk
  <2>3. TypeOK'
    <3>1. run' \in Chunk /\ workq' \in Seq(Chunk) /\ partial' \subseteq Session
      BY <1>1, <2>1, <2>2 DEF WRecv
    <3>2. UNCHANGED <<appVars, sockVars, opVars, sinkVars>>
      BY <1>1 DEF WRecv
    <3> QED
      BY <3>1, <3>2
  <2>4. Joined' /\ Announced'
    BY <1>1 DEF WRecv
  <2>5. OfSession'
    BY <1>1, <2>1 DEF WRecv
  <2> QED
    BY <2>3, <2>4, <2>5
<1>2. CASE WPacket
  <2>1. run.session = session /\ session \in told /\ run' = Idle
    BY <1>2 DEF WPacket
  <2>2. partial' \subseteq partial
    BY <1>2 DEF WPacket
  <2>3. call' = call \/ (call'.kind = "read" /\ call'.session = session
                         /\ call' \in [kind : {"none", "connected", "read"}, session : 0 .. MaxSession])
    BY <1>2, <2>1 DEF WPacket, Callback
  <2> QED
    BY <1>2, <2>1, <2>2, <2>3 DEF WPacket
<1> QED
  BY <1>1, <1>2

LEMMA ClientStep == ClientInv /\ [Next]_vars => ClientInv'
<1>1. ASSUME ClientInv, UNCHANGED vars PROVE ClientInv'
  BY <1>1 DEF ClientInv, TypeOK, Joined, Announced, OfSession,
      vars, appVars, sockVars, opVars, workVars, sinkVars
<1> QED
  BY <1>1, ApplicationSteps, CompletionSteps, IoSteps, WorkSteps DEF Next, Finished

\* Every variable of the client engine keeps its type.
THEOREM TypeCorrect == Spec => []TypeOK
<1>1. ClientInv => TypeOK
  BY DEF ClientInv
<1> QED
  BY <1>1, ClientInit, ClientStep, PTL DEF Spec

\* The chunks and the callbacks of a session come after its net_work_connected
\* and before the next session begins, however often the client reconnects.
THEOREM SessionCorrect == Spec => []InSession
<1>1. ClientInv => InSession
  BY DEF ClientInv, OfSession, InSession
<1> QED
  BY <1>1, ClientInit, ClientStep, PTL DEF Spec

\* The sink is not called between the return of dis_connect() and the next
\* connect(): the application may destroy it.
THEOREM SilentCorrect == Spec => SilentWhenOut
<1>1. ClientInv /\ [Next]_vars => [UNCHANGED call \/ app # "out"]_vars
  <2> SUFFICES ASSUME ClientInv, Next, app = "out" PROVE UNCHANGED call
    OBVIOUS
  <2>1. con # "ok" /\ run = Idle
    BY DEF ClientInv, Joined
  <2> QED
    BY <2>1 DEF Next, Connect, SendData, DisConnect, JoinIo, JoinWork, Completion, IoNext, ConnectOk,
        ConnectFail, ReadDone, ServerCloses, ReadFail, WriteDone, WriteFail, HandlerConnected, StartRead,
        HandlerConnectFailed, HandlerRead, Rearm, HandlerReadFailed, HandlerWrite, WRecv, WPacket, Finished,
        vars, sinkVars
<1> QED
  BY <1>1, ClientInit, ClientStep, PTL DEF Spec, SilentWhenOut
=============================================================================
