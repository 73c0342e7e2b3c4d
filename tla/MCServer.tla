------------------------------ MODULE MCServer ------------------------------
(* Bounded instance of Server.  No space is granted to a user: who is no   *)
(* administrator has no rights at all.                                     *)
EXTENDS Server

CONSTANTS s1, c1, c2, u1

MCNoPerms == {[s \in Space |-> "none"]}
=============================================================================
