---------------------------- MODULE MCLiveExecution ----------------------------
(* Small instances of live trading.                                         *)
EXTENDS LiveSafety
=============================================================================
