----------------------------- MODULE MCKVEngine -----------------------------
(* Bounded instances of KVEngine.  With MCKeyLen every record has the same *)
(* length, as with keys and values of a fixed format: records of a new     *)
(* flush then end where older ones ended.                                  *)
EXTENDS KVEngine

CONSTANTS r1   \* the reading client

MCKeyLen == [k \in Key |-> 1]
MCKeyLenByRank == [k \in Key |-> k]
MCValLen == [v \in Val |-> 1]
=============================================================================
