--------------------------- MODULE MCStratumSession ---------------------------
(* Small instances of StratumSession.                                      *)
EXTENDS StratumSession
=============================================================================
