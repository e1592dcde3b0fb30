-------------------------- MODULE MCServerWorkEngine --------------------------
(* Small instances of ServerWorkEngine for TLC.                            *)
EXTENDS ServerWorkEngine, TLC

CONSTANTS c1, c2, w1, k1

SocketTwo   == 1 .. 2
SocketThree == 1 .. 3
ConnOne     == {c1}
ConnTwo     == {c1, c2}
NoWrite     == {}
WriteOne    == {w1}
CallerOne   == {k1}

\* Connections are interchangeable.
Symmetry == Permutations(Conn)

\* The server is not stopped.
Unstopped == \A k \in Caller : ctl[k] \in {"idle", "start"}

\* The states without the history of callbacks, which no action reads.
NoHistory == <<vars, workq, wpc, wev, users>>
=============================================================================
