-------------------------- MODULE AttemperDbProofs --------------------------
(* Theorems about AttemperDb, for every length of the queue and the results. *)
EXTENDS AttemperDb, TLAPS

\* The server holds a connection exactly when the handle has it; a handle is
\* connected in the first start(), which sets connected_, or in check_reconnect,
\* which has closed it; and succeed_ is set whenever there is something to close.
Known ==
    /\ NoLeakedSession
    /\ ~connected => handle = "raw" /\ app = "out"
    /\ db = "connecting" => handle = "closed"
    /\ handle = "up" => succeed

\* The database thread exists from start() to the join. After a stop() that found
\* nothing pending, no query is left that could open the connection again.
Stopped ==
    /\ app = "out" => db = "off" /\ queue = <<>>
    /\ db = "off" => app = "out"
    /\ app = "stopping" /\ ~late => queue = <<>> /\ ~Calling
    /\ app # "in" /\ ~late => handle # "up"

DbInv == TypeOK /\ Known /\ Stopped

LEMMA InitInv == Init => DbInv
<1> SUFFICES ASSUME Init PROVE DbInv
  OBVIOUS
<1> USE BoundsAssumption DEF Init
<1>1. TypeOK
  <2>1. queue \in Seq(Kind) /\ Len(queue) <= MaxQueue
    OBVIOUS
  <2>2. rows \in 0 .. MaxRows /\ shown \in 0 .. rows
    OBVIOUS
  <2>3. QED
    BY <2>1, <2>2 DEF TypeOK, Kind
<1>2. Known
  BY DEF Known, NoLeakedSession
<1>3. Stopped
  BY DEF Stopped, Calling
<1>4. QED
  BY <1>1, <1>2, <1>3 DEF DbInv

LEMMA StepInv == DbInv /\ [Next]_vars => DbInv'
<1> SUFFICES ASSUME DbInv, [Next]_vars PROVE DbInv'
  OBVIOUS
<1> USE BoundsAssumption
    DEF DbInv, TypeOK, Known, Stopped, NoLeakedSession, Calling, Kind,
        flagVars, resVars, MysqlClose, MysqlConnects, Connect_
<1>1. CASE Start
  <2>1. TypeOK'
    <3>1. server' \in BOOLEAN /\ more' \in BOOLEAN /\ connected' \in BOOLEAN /\ succeed' \in BOOLEAN
         /\ late' \in BOOLEAN /\ struck' \in BOOLEAN
      BY <1>1 DEF Start, Connect
    <3>2. handle' \in {"raw", "up", "lost", "closed"} /\ sessions' \in Nat
      BY <1>1 DEF Start, Connect
    <3>3. app' \in {"out", "in", "stopping"} /\ db' \in {"off", "idle", "query", "connecting", "storing", "rows", "dead"}
      BY <1>1 DEF Start, Connect
    <3>4. cur' \in Kind /\ queue' \in Seq(Kind) /\ Len(queue') <= MaxQueue
         /\ rows' \in 0 .. MaxRows /\ shown' \in 0 .. rows'
      BY <1>1 DEF Start, Connect
    <3>5. QED
      BY <3>1, <3>2, <3>3, <3>4
  <2>2. Known'
    BY <1>1 DEF Start, Connect
  <2>3. Stopped'
    BY <1>1 DEF Start, Connect
  <2>4. QED
    BY <2>1, <2>2, <2>3
<1>2. CASE StopClose
  <2>1. TypeOK'
    <3>1. server' \in BOOLEAN /\ more' \in BOOLEAN /\ connected' \in BOOLEAN /\ succeed' \in BOOLEAN
         /\ late' \in BOOLEAN /\ struck' \in BOOLEAN
      BY <1>2 DEF StopClose, Calling
    <3>2. handle' \in {"raw", "up", "lost", "closed"} /\ sessions' \in Nat
      BY <1>2 DEF StopClose, Calling
    <3>3. app' \in {"out", "in", "stopping"} /\ db' \in {"off", "idle", "query", "connecting", "storing", "rows", "dead"}
      BY <1>2 DEF StopClose, Calling
    <3>4. cur' \in Kind /\ queue' \in Seq(Kind) /\ Len(queue') <= MaxQueue
         /\ rows' \in 0 .. MaxRows /\ shown' \in 0 .. rows'
      BY <1>2 DEF StopClose, Calling
    <3>5. QED
      BY <3>1, <3>2, <3>3, <3>4
  <2>2. Known'
    <3>1. UNCHANGED <<connected, succeed, db>>
      BY <1>2 DEF StopClose
    <3>2. connected /\ (succeed => handle' = "closed") /\ (~succeed => UNCHANGED handle)
      BY <1>2 DEF StopClose
    <3>3. NoLeakedSession'
      BY <1>2 DEF StopClose
    <3>4. QED
      BY <3>1, <3>2, <3>3
  <2>3. Stopped'
    BY <1>2 DEF StopClose, Calling
  <2>4. QED
    BY <2>1, <2>2, <2>3
<1>3. CASE StopJoin
  BY <1>3 DEF StopJoin
<1>4. CASE QueryBegin
  BY <1>4 DEF QueryBegin
<1>5. CASE StoreRows
  <2>1. TypeOK'
    <3>1. server' \in BOOLEAN /\ more' \in BOOLEAN /\ connected' \in BOOLEAN /\ succeed' \in BOOLEAN
         /\ late' \in BOOLEAN /\ struck' \in BOOLEAN
      BY <1>5 DEF StoreRows
    <3>2. handle' \in {"raw", "up", "lost", "closed"} /\ sessions' \in Nat
      BY <1>5 DEF StoreRows
    <3>3. app' \in {"out", "in", "stopping"} /\ db' \in {"off", "idle", "query", "connecting", "storing", "rows", "dead"}
      BY <1>5 DEF StoreRows
    <3>4. cur' \in Kind /\ queue' \in Seq(Kind) /\ Len(queue') <= MaxQueue
         /\ rows' \in 0 .. MaxRows /\ shown' \in 0 .. rows'
      BY <1>5 DEF StoreRows
    <3>5. QED
      BY <3>1, <3>2, <3>3, <3>4
  <2>2. Known'
    BY <1>5 DEF StoreRows
  <2>3. Stopped'
    BY <1>5 DEF StoreRows
  <2>4. QED
    BY <2>1, <2>2, <2>3
<1>6. CASE QueryAnswers \/ QueryEnds \/ StoreFails
  BY <1>6 DEF QueryAnswers, QueryEnds, StoreFails, QueryAnswered, QueryOutOfSync
<1>7. CASE QueryUnderClose
  BY <1>7 DEF QueryUnderClose
<1>8. CASE CheckReconnect
  BY <1>8 DEF CheckReconnect, QueryGone
<1>9. CASE Reconnect
  <2>1. TypeOK'
    <3>1. server' \in BOOLEAN /\ more' \in BOOLEAN /\ connected' \in BOOLEAN /\ succeed' \in BOOLEAN
         /\ late' \in BOOLEAN /\ struck' \in BOOLEAN
      BY <1>9 DEF Reconnect
    <3>2. handle' \in {"raw", "up", "lost", "closed"} /\ sessions' \in Nat
      BY <1>9 DEF Reconnect
    <3>3. app' \in {"out", "in", "stopping"} /\ db' \in {"off", "idle", "query", "connecting", "storing", "rows", "dead"}
      BY <1>9 DEF Reconnect
    <3>4. cur' \in Kind /\ queue' \in Seq(Kind) /\ Len(queue') <= MaxQueue
         /\ rows' \in 0 .. MaxRows /\ shown' \in 0 .. rows'
      BY <1>9 DEF Reconnect
    <3>5. QED
      BY <3>1, <3>2, <3>3, <3>4
  <2>2. Known'
    BY <1>9 DEF Reconnect
  <2>3. Stopped'
    BY <1>9 DEF Reconnect
  <2>4. QED
    BY <2>1, <2>2, <2>3
<1>10. CASE ReconnectUnderClose
  BY <1>10 DEF ReconnectUnderClose
<1>11. CASE ShowRow
  BY <1>11 DEF ShowRow
<1>12. CASE RowsEnd
  BY <1>12 DEF RowsEnd
<1>13. CASE ServerDrops
  BY <1>13 DEF ServerDrops
<1>14. CASE ServerDown
  <2>1. /\ UNCHANGED <<more, connected, succeed, app, late, struck, queue, db, cur, rows, shown>>
        /\ server' = FALSE /\ sessions' = 0
        /\ handle' = IF handle = "up" THEN "lost" ELSE handle
    BY <1>14 DEF ServerDown
  <2>2. TypeOK'
    BY <2>1
  <2>3. Known' /\ Stopped'
    BY <2>1
  <2>4. QED
    BY <2>2, <2>3
<1>15. CASE ServerUp
  BY <1>15 DEF ServerUp
<1>16. ASSUME NEW k \in Kind, Post(k) PROVE DbInv'
  BY <1>16 DEF Post
<1>17. CASE UNCHANGED vars
  BY <1>17 DEF vars
<1>18. QED
  BY <1>1, <1>2, <1>3, <1>4, <1>5, <1>6, <1>7, <1>8, <1>9, <1>10, <1>11, <1>12, <1>13, <1>14, <1>15, <1>16, <1>17 DEF Next, DbNext

LEMMA InvCorrect == Spec => []DbInv
BY InitInv, StepInv, PTL DEF Spec

\* Type correctness of the database component.
THEOREM TypeCorrect == Spec => []TypeOK
<1>1. DbInv => TypeOK
  BY DEF DbInv
<1>2. QED
  BY <1>1, InvCorrect, PTL

\* Connecting, closing and reconnecting never leave a connection behind.
THEOREM SessionCorrect == Spec => []NoLeakedSession
<1>1. DbInv => NoLeakedSession
  BY DEF DbInv, Known
<1>2. QED
  BY <1>1, InvCorrect, PTL

\* A stop() that finds no query pending leaves the connection closed.
THEOREM StopCorrect == Spec => []StopClosesSession
<1>1. DbInv => StopClosesSession
  BY DEF DbInv, Stopped, StopClosesSession
<1>2. QED
  BY <1>1, InvCorrect, PTL
=============================================================================
