---------------------------- MODULE MCAttemperDb ----------------------------
(* AttemperDb for TLC: its constants are given in Database.cfg.            *)
EXTENDS AttemperDb
=============================================================================
