----------------------------- MODULE MCRPEvents -----------------------------
(* Small instances of RPEvents for TLC: event 1 is stop_event_, event 2 the    *)
(* job event of the pool.                                                      *)
EXTENDS RPEvents, TLC

StopManual == 2..N
=============================================================================
