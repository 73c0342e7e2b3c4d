--------------------------- MODULE MCVectorEngine ---------------------------
(* Bounded instances of VectorEngine. *)
EXTENDS VectorEngine

CONSTANTS c1, c2   \* clients

\* Flat without a log, IVF with one and without, HNSW without.
MCKinds == {[wal |-> FALSE, train |-> 0, removes |-> TRUE],
            [wal |-> FALSE, train |-> 2, removes |-> TRUE],
            [wal |-> TRUE,  train |-> 2, removes |-> TRUE],
            [wal |-> FALSE, train |-> 0, removes |-> FALSE]}
MCFlatLogged == {[wal |-> TRUE, train |-> 0, removes |-> TRUE]}
=============================================================================
