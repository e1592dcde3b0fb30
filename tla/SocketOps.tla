------------------------------ MODULE SocketOps ------------------------------
(***************************************************************************)
(* What tlhh::tcp::socket promises its owner: an operation started on an   *)
(* open socket has one outcome, success or an error, the latter only when  *)
(* the socket is closed or the remote end is gone; one started on a closed *)
(* socket has none (TcpServer's BeginOp, OpDone and OpFail); and a socket  *)
(* that is closed stays so. The read is started again after a success.     *)
(***************************************************************************)
CONSTANT Op

VARIABLES st, open, gone

vars == <<st, open, gone>>

Init == st = [x \in Op |-> "new"] /\ open = TRUE /\ gone = FALSE

Step(x, from, to) == st[x] \in from /\ st' = [st EXCEPT ![x] = to]

Start(x) ==
    /\ Step(x, {"new", "ok"}, IF open THEN "pending" ELSE "off")
    /\ UNCHANGED <<open, gone>>

Succeed(x) == Step(x, {"pending"}, "ok") /\ UNCHANGED <<open, gone>>

Fail(x) ==
    /\ ~open \/ gone
    /\ Step(x, {"pending"}, "error")
    /\ UNCHANGED <<open, gone>>

Close == open /\ open' = FALSE /\ UNCHANGED <<st, gone>>

Leave == ~gone /\ gone' = TRUE /\ UNCHANGED <<st, open>>

Next ==
    \/ \E x \in Op : Start(x) \/ Succeed(x) \/ Fail(x)
    \/ Close \/ Leave

Spec == Init /\ [][Next]_vars
=============================================================================
