------------------------ MODULE MCConnectionManager ------------------------
(* Bounded instances of ConnectionManager. *)
EXTENDS ConnectionManager

CONSTANTS c1, c2, c3, a1, a2   \* connections, admin requests
=============================================================================
