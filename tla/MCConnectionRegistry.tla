------------------------ MODULE MCConnectionRegistry ------------------------
(* Small instances of ConnectionRegistry for TLC. *)
EXTENDS ConnectionRegistry, TLC
=============================================================================
