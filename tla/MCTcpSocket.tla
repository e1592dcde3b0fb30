----------------------------- MODULE MCTcpSocket -----------------------------
(* A small instance of TcpSocket for TLC.                                  *)
EXTENDS TcpSocket

OffOrOne == {0, 1}
=============================================================================
