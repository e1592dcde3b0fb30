----------------------------- MODULE MCTcpServer -----------------------------
(* Small instances of TcpServer for TLC.                                   *)
EXTENDS TcpServer, TLC

CONSTANTS c1, c2, w1, k1

SocketTwo   == 1 .. 2
SocketThree == 1 .. 3
ConnTwo     == {c1, c2}
NoWrite     == {}
WriteOne    == {w1}
CallerOne   == {k1}

\* Connections are interchangeable.
Symmetry == Permutations(Conn)
=============================================================================
