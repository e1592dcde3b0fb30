------------------------------ MODULE AttemperDb ------------------------------
(***************************************************************************)
(* attemper_db, which gives the game server a database thread, with the    *)
(* sql_manager, mysql_client and mysql_reset it uses. The application      *)
(* starts and stops it and posts queries; the database thread runs them    *)
(* one by one, and reconnects after one that found the connection gone.    *)
(* The MySQL client library and its server are external: a handle (MYSQL)  *)
(* is used as mysql_client uses it, without a second mysql_init.           *)
(***************************************************************************)
EXTENDS Naturals, Sequences

CONSTANTS
    MaxQueue,  \* bound: queries posted and not yet taken
    MaxRows    \* bound: rows of a result

ASSUME BoundsAssumption == MaxQueue \in Nat /\ MaxRows \in Nat

\* A query that gives rows, a CALL that gives rows, and a statement for excuteModify.
Kind == {"select", "call", "modify"}

VARIABLES
    server,              \* whether the MySQL server answers this client
    handle,              \* mysql_: "lost" is a connection that the server has ended
    sessions,            \* connections that the server holds for this client
    more,                \* results of a CALL that have not been fetched
    connected, succeed,  \* connected_ and succeed_
    app,                 \* the application: not started, started, in stop()
    late,                \* history: queries were pending when the last stop() closed
    struck,              \* history: it closed the handle under a call of the library
    queue,               \* the lambdas posted to db_io_service_
    db,                  \* what the database thread does
    cur,                 \* the query it runs
    rows, shown          \* rows of its result, and those read from it

flagVars == <<connected, succeed>>
resVars  == <<rows, shown>>
vars == <<server, handle, sessions, more, flagVars, app, late, struck, queue, db, cur, resVars>>

TypeOK ==
    /\ server \in BOOLEAN /\ more \in BOOLEAN /\ connected \in BOOLEAN /\ succeed \in BOOLEAN
    /\ late \in BOOLEAN /\ struck \in BOOLEAN
    /\ handle \in {"raw", "up", "lost", "closed"} /\ sessions \in Nat
    /\ app \in {"out", "in", "stopping"} /\ cur \in Kind
    /\ queue \in Seq(Kind) /\ Len(queue) <= MaxQueue
    /\ db \in {"off", "idle", "query", "connecting", "storing", "rows", "dead"}
    /\ rows \in 0 .. MaxRows /\ shown \in 0 .. rows

Init ==
    /\ server \in BOOLEAN
    /\ handle = "raw" /\ sessions = 0 /\ more = FALSE
    /\ connected = FALSE /\ succeed = FALSE
    /\ app = "out" /\ late = FALSE /\ struck = FALSE
    /\ queue = <<>> /\ db = "off" /\ cur = "select" /\ rows = 0 /\ shown = 0

-----------------------------------------------------------------------------
(* The MySQL client library.                                               *)

\* mysql_close; closing a closed handle has no effect.
MysqlClose ==
    /\ handle' = "closed"
    /\ sessions' = IF handle = "up" THEN sessions - 1 ELSE sessions

\* mysql_real_connect on a handle without a connection.
MysqlConnects ==
    /\ server
    /\ handle' = "up" /\ sessions' = sessions + 1 /\ more' = FALSE

\* mysql_query on a connection that works: results, or an SQL error. A CALL leaves
\* its status to be fetched after its rows.
QueryAnswered == handle = "up" /\ ~more

\* Commands out of sync, without a look at the connection.
QueryOutOfSync == handle \in {"up", "lost"} /\ more

\* CR_SERVER_LOST or CR_SERVER_GONE_ERROR; the library closes the connection.
QueryGone == (handle = "lost" /\ ~more) \/ handle = "closed"

-----------------------------------------------------------------------------
(* The application's thread.                                               *)

\* mysql_client::connect_: a connection, or mysql_close of the handle.
Connect_ ==
    \/ MysqlConnects /\ succeed' = TRUE
    \/ ~server /\ MysqlClose /\ UNCHANGED more /\ succeed' = FALSE

\* Mutant of Connect: it connects whenever it is called. mysql_init forgets
\* what the handle had.
ConnectAlways ==
    /\ connected' = TRUE
    /\ Connect_

\* mysql_client::connect: once connected_ is set it does nothing, although the
\* connection failed then or has been closed since.
Connect ==
    IF connected
      THEN UNCHANGED <<handle, sessions, more, flagVars>>
      ELSE connected' = TRUE /\ Connect_

\* attemper_db::start.
Start ==
    /\ app = "out"
    /\ app' = "in" /\ db' = "idle"
    /\ Connect
    /\ UNCHANGED <<server, late, struck, queue, cur, resVars>>

\* test_db, test_produce, or a lambda with excuteModify.
Post(k) ==
    /\ app = "in" /\ Len(queue) < MaxQueue
    /\ queue' = Append(queue, k)
    /\ UNCHANGED <<server, handle, sessions, more, flagVars, app, late, struck, db, cur, resVars>>

\* The database thread is in mysql_query or in mysql_real_connect.
Calling == db \in {"query", "connecting"}

\* stop closes the connection first, in its own thread, whatever the database
\* thread is doing. mysql_client::close keeps both flags.
StopClose ==
    /\ app = "in"
    /\ app' = "stopping"
    /\ late' = (queue # <<>> \/ Calling)
    /\ struck' = (succeed /\ Calling)
    /\ IF succeed THEN MysqlClose ELSE UNCHANGED <<handle, sessions>>
    /\ UNCHANGED <<server, more, flagVars, queue, db, cur, resVars>>

\* The join: the database thread ends when it has run what was posted.
StopJoin ==
    /\ app = "stopping" /\ db = "idle" /\ queue = <<>>
    /\ app' = "out" /\ db' = "off"
    /\ UNCHANGED <<server, handle, sessions, more, flagVars, late, struck, queue, cur, resVars>>

-----------------------------------------------------------------------------
(* The database thread.                                                    *)

\* A lambda begins its query; the server, or stop(), may act before it ends.
QueryBegin ==
    /\ db = "idle" /\ queue # <<>>
    /\ cur' = Head(queue) /\ queue' = Tail(queue)
    /\ db' = "query"
    /\ UNCHANGED <<server, handle, sessions, more, flagVars, app, late, struck, resVars>>

\* mysql_query succeeds, and executeQuery goes on to store the rows.
QueryAnswers ==
    /\ db = "query" /\ cur # "modify" /\ QueryAnswered
    /\ db' = "storing"
    /\ struck' = FALSE
    /\ UNCHANGED <<server, handle, sessions, more, flagVars, app, late, queue, cur, resVars>>

\* excuteModify has its answer, or the query is an SQL error or out of sync.
QueryEnds ==
    /\ db = "query" /\ (QueryAnswered \/ QueryOutOfSync)
    /\ db' = "idle"
    /\ struck' = FALSE
    /\ UNCHANGED <<server, handle, sessions, more, flagVars, app, late, queue, cur, resVars>>

\* stop() closed the handle under a query that had its answer already, and the
\* query ends as if nothing had happened.
QueryUnderClose ==
    /\ db = "query" /\ struck
    /\ db' = IF cur = "modify" THEN "idle" ELSE "storing"
    /\ struck' = FALSE
    /\ UNCHANGED <<server, handle, sessions, more, flagVars, app, late, queue, cur, resVars>>

\* mysql_store_result gives the rows.
StoreRows ==
    /\ db = "storing"
    /\ \E n \in 0 .. MaxRows : rows' = n
    /\ shown' = 0 /\ db' = "rows"
    /\ more' = (cur = "call")
    /\ UNCHANGED <<server, handle, sessions, flagVars, app, late, struck, queue, cur>>

\* There are none, or the connection is lost while they come: executeQuery returns
\* nullptr, without a call of check_reconnect.
StoreFails ==
    /\ db = "storing"
    /\ db' = "idle"
    /\ UNCHANGED <<server, handle, sessions, more, flagVars, app, late, struck, queue, cur, resVars>>

\* Mutant of CheckReconnect: only a connection lost in the query is replaced.
CheckReconnectLost ==
    /\ db = "query" /\ QueryGone
    /\ MysqlClose
    /\ db' = IF handle = "lost" THEN "connecting" ELSE "idle"
    /\ struck' = FALSE
    /\ UNCHANGED <<server, more, flagVars, app, late, queue, cur, resVars>>

\* check_reconnect after a query that found the connection gone.
CheckReconnect ==
    /\ db = "query" /\ QueryGone
    /\ MysqlClose
    /\ db' = "connecting"
    /\ struck' = FALSE
    /\ UNCHANGED <<server, more, flagVars, app, late, queue, cur, resVars>>

\* Mutant of Reconnect: check_reconnect does not store what connect_ returns.
ReconnectForgets ==
    /\ db = "connecting"
    /\ \/ MysqlConnects
       \/ ~server /\ MysqlClose /\ UNCHANGED more
    /\ db' = "idle"
    /\ struck' = FALSE
    /\ UNCHANGED <<server, flagVars, app, late, queue, cur, resVars>>

\* connect_ in check_reconnect ends: the query itself is not repeated.
Reconnect ==
    /\ db = "connecting" /\ Connect_
    /\ db' = "idle"
    /\ struck' = FALSE
    /\ UNCHANGED <<server, connected, app, late, queue, cur, resVars>>

\* A mysql_close of stop() under mysql_real_connect makes it fail.
ReconnectUnderClose ==
    /\ db = "connecting" /\ struck
    /\ MysqlClose /\ succeed' = FALSE
    /\ db' = "idle"
    /\ struck' = FALSE
    /\ UNCHANGED <<server, more, connected, app, late, queue, cur, resVars>>

\* Mutant of ShowRow: is_eof does not fetch a row.
ShowSame ==
    /\ db = "rows" /\ shown < rows
    /\ UNCHANGED vars

\* Mutant of ShowRow: the row is read before is_eof has been asked.
ShowPast ==
    /\ db = "rows"
    /\ shown' = shown + 1
    /\ UNCHANGED <<server, handle, sessions, more, flagVars, app, late, struck, queue, db, cur, rows>>

\* is_eof fetches a row and get_string reads it; a column that is NULL makes
\* std::string(nullptr), an exception that nobody catches and that ends the program.
ShowRow ==
    /\ db = "rows" /\ shown < rows
    /\ \/ shown' = shown + 1 /\ UNCHANGED db
       \/ db' = "dead" /\ UNCHANGED shown
    /\ UNCHANGED <<server, handle, sessions, more, flagVars, app, late, struck, queue, cur, rows>>

\* is_eof finds no more rows.
RowsEnd ==
    /\ db = "rows" /\ shown = rows
    /\ db' = "idle"
    /\ UNCHANGED <<server, handle, sessions, more, flagVars, app, late, struck, queue, cur, resVars>>

-----------------------------------------------------------------------------
(* The MySQL server.                                                       *)

\* It ends the connection: an idle timeout, a kill, or the end of the server.
ServerDrops ==
    /\ handle = "up"
    /\ handle' = "lost" /\ sessions' = sessions - 1
    /\ UNCHANGED <<server, more, flagVars, app, late, struck, queue, db, cur, resVars>>

ServerDown ==
    /\ server
    /\ server' = FALSE /\ sessions' = 0
    /\ handle' = IF handle = "up" THEN "lost" ELSE handle
    /\ UNCHANGED <<more, flagVars, app, late, struck, queue, db, cur, resVars>>

ServerUp ==
    /\ ~server
    /\ server' = TRUE
    /\ UNCHANGED <<handle, sessions, more, flagVars, app, late, struck, queue, db, cur, resVars>>

-----------------------------------------------------------------------------
DbNext ==
    \/ QueryBegin \/ QueryAnswers \/ QueryEnds \/ QueryUnderClose \/ StoreRows \/ StoreFails
    \/ CheckReconnect \/ Reconnect \/ ReconnectUnderClose
    \/ ShowRow \/ RowsEnd

Next ==
    /\ db # "dead"
    /\ \/ DbNext
       \/ Start \/ (\E k \in Kind : Post(k)) \/ StopClose \/ StopJoin
       \/ ServerDrops \/ ServerDown \/ ServerUp

Spec == Init /\ [][Next]_vars

\* Both threads run, and each call of the MySQL library returns, with an answer or
\* with an error; nothing is assumed of the server or of what is posted.
FairSpec == Spec /\ WF_vars(db # "dead" /\ DbNext) /\ WF_vars(db # "dead" /\ StopJoin)

-----------------------------------------------------------------------------
\* The server holds a connection for this client exactly when the handle has it:
\* none is left behind by the ways of connecting, closing and reconnecting.
NoLeakedSession == sessions = IF handle = "up" THEN 1 ELSE 0

\* When stop() returns the connection is closed, unless queries were pending or
\* running when it closed it (one of them reconnects, and nobody closes again).
StopClosesSession == app = "out" /\ ~late => handle # "up"

\* stop() returns, unless the program has ended.
StopReturns == app = "stopping" ~> (app = "out" \/ db = "dead")

\* A connection that failed at the start, was ended by the server or closed by
\* stop() is replaced when there is a query for it and the server answers, unless
\* the server ended it while results of a CALL were outstanding: then every later
\* query is out of sync and the loss is never noticed.
Heals ==
    (app = "in" /\ db = "idle" /\ queue # <<>> /\ handle # "up" /\ ~(handle = "lost" /\ more))
        ~> (handle = "up" \/ ~server \/ app # "in")
=============================================================================
