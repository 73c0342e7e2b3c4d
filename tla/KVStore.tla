------------------------------ MODULE KVStore ------------------------------
(***************************************************************************)
(* What the key-value engine promises while its process lives and when it  *)
(* dies without a log: a map with a write-back buffer.  A put is buffered, *)
(* the buffer is moved out as a whole, and the values moved out reach the  *)
(* store key by key.  A delete and a read that misses the buffer see the   *)
(* store alone.  A delete puts every other stored key at risk, and secures *)
(* them one by one.  A crash costs what has not reached the store and the  *)
(* keys at risk, nothing else.  KVEngine is shown to implement this.       *)
(***************************************************************************)
EXTENDS Integers

CONSTANTS Key, Val, NoVal

VARIABLES
  buffered,   \* acknowledged, not yet picked up by a flush
  moving,     \* picked up, not yet in the store
  stored,     \* what a read that misses the buffer returns
  atRisk      \* stored keys that a crash would cost

vars == <<buffered, moving, stored, atRisk>>

Nothing == [k \in Key |-> NoVal]

Init == buffered = Nothing /\ moving = Nothing /\ stored = Nothing /\ atRisk = {}

Put(k, v) ==
  /\ buffered' = [buffered EXCEPT ![k] = v]
  /\ UNCHANGED <<moving, stored, atRisk>>

\* One flush at a time, and only of a buffer that holds something.
MoveOut ==
  /\ buffered # Nothing /\ moving = Nothing
  /\ moving' = buffered
  /\ buffered' = Nothing
  /\ UNCHANGED <<stored, atRisk>>

\* Nothing is stored while a delete is going on.
Apply(k) ==
  /\ moving[k] # NoVal /\ atRisk = {}
  /\ stored' = [stored EXCEPT ![k] = moving[k]]
  /\ moving' = [moving EXCEPT ![k] = NoVal]
  /\ UNCHANGED <<buffered, atRisk>>

Delete(k) ==
  /\ stored[k] # NoVal /\ atRisk = {}
  /\ stored' = [stored EXCEPT ![k] = NoVal]
  /\ atRisk' = {j \in Key \ {k} : stored[j] # NoVal}
  /\ UNCHANGED <<buffered, moving>>

Secure(k) ==
  /\ k \in atRisk
  /\ atRisk' = atRisk \ {k}
  /\ UNCHANGED <<buffered, moving, stored>>

Crash ==
  /\ buffered' = Nothing /\ moving' = Nothing /\ atRisk' = {}
  /\ stored' = [k \in Key |-> IF k \in atRisk THEN NoVal ELSE stored[k]]

Next ==
  \/ \E k \in Key, v \in Val : Put(k, v)
  \/ MoveOut \/ Crash
  \/ \E k \in Key : Apply(k) \/ Delete(k) \/ Secure(k)

\* The flusher never stops: what was picked up is applied, and the buffer is
\* picked up again and again; a delete that has started secures every key.
Fairness ==
  /\ WF_vars(MoveOut)
  /\ WF_vars(\E k \in Key : Apply(k))
  /\ WF_vars(\E k \in Key : Secure(k))

SafeSpec == Init /\ [][Next]_vars
Spec == SafeSpec /\ Fairness
=============================================================================
