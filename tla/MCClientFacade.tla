--------------------------- MODULE MCClientFacade ---------------------------
(* Small instances of ClientFacade for TLC. *)
EXTENDS ClientFacade, TLC
=============================================================================
