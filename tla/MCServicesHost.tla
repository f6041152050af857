--------------------------- MODULE MCServicesHost ---------------------------
(* Small instances of ServicesHost for TLC: two queries with the same id and a  *)
(* login, over two connections.                                                 *)
EXTENDS ServicesHost, TLC

CONSTANTS c1, c2, q1, q2, l1, id1

TwoConns == (q1 :> c1) @@ (q2 :> c2) @@ (l1 :> c1)
SameId == (q1 :> id1) @@ (q2 :> id1)
=============================================================================
