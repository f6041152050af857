--------------------------- MODULE MCRipcChannel ---------------------------
(* Small instances of RipcChannel for TLC. *)
EXTENDS RipcChannel, TLC
NestedAll == {"recv in callback", "lost in callback", "recv in notify", "notify fails"}
=============================================================================
