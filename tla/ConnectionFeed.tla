--------------------------- MODULE ConnectionFeed ---------------------------
(***************************************************************************)
(* What an application can rely on in the callbacks of its network sink    *)
(* (Define/interface/attemp_net_work.h), however late they come. For each  *)
(* connection there is one net_work_connected, then its packets, then at   *)
(* most one net_work_dis_connected. The id that a callback gives may be    *)
(* wrong, but only by naming nobody or a connection that has not been      *)
(* announced yet: once a connection is announced, its id stands for it     *)
(* alone, and is not heard again when it has been reported disconnected.   *)
(***************************************************************************)
CONSTANTS Conn, NoConn, NoId, NoPeerId

VARIABLES told, call

Init ==
    /\ told = [c \in Conn |-> "never"]
    /\ call = [kind |-> "none", id |-> NoId, conn |-> NoConn]

\* The ids that a callback about connection c may give.
Names(c) == {NoId, NoPeerId} \cup {d \in Conn : d = c \/ told[d] = "never"}

Report(kind, c) == \E id \in Names(c) : call' = [kind |-> kind, id |-> id, conn |-> c]

Connected(c) ==
    /\ told[c] = "never"
    /\ told' = [told EXCEPT ![c] = "open"]
    /\ Report("connected", c)

Read(c) ==
    /\ told[c] = "open"
    /\ UNCHANGED told
    /\ Report("read", c)

Disconnected(c) ==
    /\ told[c] = "open"
    /\ told' = [told EXCEPT ![c] = "closed"]
    /\ Report("disconnected", c)

\* An accept that failed is reported like the end of a connection.
FailedAccept ==
    /\ Report("disconnected", NoConn)
    /\ UNCHANGED told

Next ==
    \/ \E c \in Conn : Connected(c) \/ Read(c) \/ Disconnected(c)
    \/ FailedAccept

Spec == Init /\ [][Next]_<<told, call>>
=============================================================================
