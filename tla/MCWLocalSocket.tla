--------------------------- MODULE MCWLocalSocket ---------------------------
(* Small instances of WLocalSocket for TLC. *)
EXTENDS WLocalSocket

BothWays == {"connect", "accept"}
=============================================================================
