------------------------- MODULE MCClientWorkEngine -------------------------
(* Small instances of ClientWorkEngine for TLC.                            *)
EXTENDS ClientWorkEngine

CONSTANTS w1, w2

NoWrite  == {}
WriteTwo == {w1, w2}
=============================================================================
