-------------------------- MODULE VectorEngineProofs --------------------------
(***************************************************************************)
(* Proofs about VectorEngine, for every set of ids and clients, every kind *)
(* of space, and every number of operations, checkpoints and kills.        *)
(***************************************************************************)
EXTENDS VectorEngine, FiniteSetTheorems, TLAPS

WalP == INSTANCE WALProofs WITH
  LogKey <- Id, Val <- Vec, CheckpointSize <- 0,
  KeyLen <- [i \in Id |-> 1], ValLen <- [v \in Vec |-> Dim]

-----------------------------------------------------------------------------
(* The sequences the engine is built from.                                  *)

\* The last record of i in s has the vector v.
EndsWith(s, i, v) ==
  \E p \in DOMAIN s : s[p] = [id |-> i, vec |-> v] /\ \A q \in p+1..Len(s) : s[q].id # i

Without(s, i) == \A p \in DOMAIN s : s[p].id # i

\* A finite set in any order (SetToSeq): each member is there.
LEMMA Listed ==
  ASSUME NEW S, IsFiniteSet(S)
  PROVE  /\ SetToSeq(S) \in Seq(S)
         /\ \A x \in S : \E p \in DOMAIN SetToSeq(S) : SetToSeq(S)[p] = x
         /\ IsInjective(SetToSeq(S))
<1> DEFINE n == Cardinality(S)
           f == SetToSeq(S)
<1>1. n \in Nat /\ ExistsBijection(1..n, S)
  BY FS_CardinalityType
<1>2. \E g \in [1..n -> S] : IsInjective(g)
  BY <1>1, Zenon DEF ExistsBijection, Bijection, Injection
<1>3. f \in [1..n -> S] /\ IsInjective(f)
  BY <1>2, Zenon DEF SetToSeq
<1>4. IsFiniteSet(1..n) /\ Cardinality(1..n) = n
  BY <1>1, FS_Interval
<1>5. f \in Injection(1..n, S)
  BY <1>3, Zenon DEF Injection
<1> HIDE DEF f
<1>6. f \in Surjection(1..n, S)
  BY <1>4, <1>5, FS_Injection
<1>7. f \in Seq(S) /\ DOMAIN f = 1..n
  BY <1>1, <1>3
<1>8. \A x \in S : \E p \in 1..n : f[p] = x
  BY <1>6, Zenon DEF Surjection
<1> QED BY <1>3, <1>7, <1>8 DEF f

\* A record behind a sequence is the last of its id, and changes no other.
LEMMA EndsAppended ==
  ASSUME NEW s \in Seq(Record), NEW r \in Record, NEW i \in Id, NEW v \in Vec
  PROVE  /\ r = [id |-> i, vec |-> v] => EndsWith(Append(s, r), i, v)
         /\ r.id # i /\ EndsWith(s, i, v) => EndsWith(Append(s, r), i, v)
         /\ r.id # i /\ Without(s, i) => Without(Append(s, r), i)
<1> DEFINE t == Append(s, r)
<1>1. /\ Len(s) \in Nat /\ Len(t) = Len(s) + 1 /\ DOMAIN t = 1..Len(s) + 1 /\ DOMAIN s = 1..Len(s)
      /\ \A p \in 1..Len(s) : t[p] = s[p]
      /\ t[Len(s) + 1] = r
  OBVIOUS
<1> HIDE DEF t
<1>2. ASSUME r = [id |-> i, vec |-> v] PROVE EndsWith(t, i, v)
  BY <1>1, <1>2 DEF EndsWith
<1>3. ASSUME r.id # i, EndsWith(s, i, v) PROVE EndsWith(t, i, v)
  <2>1. PICK p \in 1..Len(s) : s[p] = [id |-> i, vec |-> v] /\ \A q \in p+1..Len(s) : s[q].id # i
    BY <1>1, <1>3 DEF EndsWith
  <2>2. p \in DOMAIN t /\ t[p] = [id |-> i, vec |-> v]
    BY <1>1, <2>1
  <2>3. \A q \in p+1..Len(t) : t[q].id # i
    <3>1. \A q \in p+1..Len(t) : q \in p+1..Len(s) \/ q = Len(s) + 1
      BY <1>1
    <3>2. \A q \in p+1..Len(s) : q \in 1..Len(s)
      BY <1>1
    <3> QED BY <1>1, <1>3, <2>1, <3>1, <3>2
  <2> QED BY <2>2, <2>3 DEF EndsWith
<1>4. ASSUME r.id # i, Without(s, i) PROVE Without(t, i)
  <2>1. \A q \in DOMAIN t : q \in 1..Len(s) \/ q = Len(s) + 1
    BY <1>1
  <2> QED BY <1>1, <1>4, <2>1 DEF Without
<1> QED BY <1>2, <1>3, <1>4 DEF t

\* What is left of a sequence whose first record has been taken away.
LEMMA EndsTail ==
  ASSUME NEW s \in Seq(Record), s # <<>>, NEW i \in Id, NEW v \in Vec
  PROVE  /\ Tail(s) \in Seq(Record) /\ Head(s) \in Record
         /\ EndsWith(s, i, v) =>
              EndsWith(Tail(s), i, v) \/ (Without(Tail(s), i) /\ Head(s) = [id |-> i, vec |-> v])
         /\ Without(s, i) => Without(Tail(s), i) /\ Head(s).id # i
<1> DEFINE t == Tail(s)
<1>1. /\ Len(s) \in Nat \ {0} /\ Len(t) = Len(s) - 1 /\ DOMAIN t = 1..Len(s) - 1 /\ DOMAIN s = 1..Len(s)
      /\ \A p \in 1..Len(s) - 1 : t[p] = s[p + 1]
      /\ Head(s) = s[1] /\ t \in Seq(Record) /\ Head(s) \in Record
  OBVIOUS
<1> HIDE DEF t
<1>2. ASSUME EndsWith(s, i, v)
      PROVE  EndsWith(t, i, v) \/ (Without(t, i) /\ Head(s) = [id |-> i, vec |-> v])
  <2>1. PICK p \in 1..Len(s) : s[p] = [id |-> i, vec |-> v] /\ \A q \in p+1..Len(s) : s[q].id # i
    BY <1>1, <1>2 DEF EndsWith
  <2>2. CASE p = 1
    <3>1. \A q \in DOMAIN t : q + 1 \in p+1..Len(s) /\ t[q] = s[q + 1]
      BY <1>1, <2>2
    <3> QED BY <1>1, <2>1, <2>2, <3>1 DEF Without
  <2>3. CASE p # 1
    <3>1. p - 1 \in DOMAIN t /\ t[p - 1] = s[(p - 1) + 1] /\ (p - 1) + 1 = p
      BY <1>1, <2>1, <2>3
    <3>2. \A q \in (p - 1) + 1..Len(t) : q \in 1..Len(s) - 1 /\ q + 1 \in p+1..Len(s)
      BY <1>1, <2>1, <2>3
    <3>3. \A q \in (p - 1) + 1..Len(t) : t[q].id # i
      BY <1>1, <2>1, <3>2
    <3> QED BY <2>1, <3>1, <3>3 DEF EndsWith
  <2> QED BY <2>2, <2>3
<1>3. ASSUME Without(s, i) PROVE Without(t, i) /\ Head(s).id # i
  <2>1. \A q \in DOMAIN t : q + 1 \in DOMAIN s /\ t[q] = s[q + 1]
    BY <1>1
  <2> QED BY <1>1, <1>3, <2>1 DEF Without
<1> QED BY <1>1, <1>2, <1>3 DEF t

\* Behind a sequence, records of distinct ids in any order: each is the last of
\* its id.
LEMMA EndsBehind ==
  ASSUME NEW s \in Seq(Record), NEW t \in Seq(Record), IsInjective(t),
         NEW i \in Id, NEW v \in Vec, NEW p \in DOMAIN t, t[p] = [id |-> i, vec |-> v],
         \A q \in DOMAIN t : t[q].id = i => t[q] = t[p]
  PROVE  s \o t \in Seq(Record) /\ EndsWith(s \o t, i, v)
<1> DEFINE u == s \o t
           n == Len(s)
<1>1. /\ n \in Nat /\ Len(t) \in Nat /\ Len(u) = n + Len(t) /\ DOMAIN u = 1..n + Len(t)
      /\ DOMAIN t = 1..Len(t) /\ u \in Seq(Record)
      /\ \A q \in 1..Len(t) : u[n + q] = t[q]
  OBVIOUS
<1> HIDE DEF u, n
<1>2. n + p \in DOMAIN u /\ u[n + p] = [id |-> i, vec |-> v]
  BY <1>1
<1>3. ASSUME NEW q \in (n + p) + 1..Len(u) PROVE u[q].id # i
  <2>1. q - n \in 1..Len(t) /\ q - n # p /\ n + (q - n) = q
    BY <1>1
  <2>2. u[q] = t[q - n]
    BY <1>1, <2>1
  <2>3. t[q - n] # t[p]
    BY <1>1, <2>1, Zenon DEF IsInjective
  <2> QED BY <1>1, <2>1, <2>2, <2>3
<1> QED BY <1>1, <1>2, <1>3 DEF EndsWith, u

-----------------------------------------------------------------------------
(* The engine in memory, and insertAfterWAL and removeAfterWAL.             *)

Engine(n) ==
  [index : Index, trained : BOOLEAN, pending : [Id -> Vec \cup {NoVec}],
   pool : Nat, offsets : [Id -> 0..n], buf : Seq(Record)]

\* Only an untrained index has vectors waiting, and only finitely many.
Sound(m, n) ==
  /\ m \in Engine(n) /\ IsFiniteSet(Waiting(m))
  /\ m.trained => m.pending = NoPending

\* No vector is the absence of one.
LEMMA VecIs == NoVec \notin Vec /\ Gone \notin Vec /\ Vec \subseteq Nat
BY VectorAssumption DEF NoVec, Gone, Vec

LEMMA EngineFields ==
  ASSUME NEW n \in Nat, NEW m \in Engine(n)
  PROVE  /\ m.index \in Index /\ m.trained \in BOOLEAN /\ m.pending \in [Id -> Vec \cup {NoVec}]
         /\ m.pool \in Nat /\ m.offsets \in [Id -> 0..n] /\ m.buf \in Seq(Record)
BY DEF Engine

\* Train: every vector that waited is in the index and queued for the data file.
LEMMA TrainIs ==
  ASSUME NEW n \in Nat, NEW m \in Engine(n), IsFiniteSet(Waiting(m))
  PROVE  /\ Train(m) \in Engine(n)
         /\ Train(m).trained /\ Train(m).pending = NoPending
         /\ Train(m).offsets = m.offsets
         /\ Train(m).index = m.index \cup {<<i, m.pending[i]>> : i \in Waiting(m)}
         /\ \A i \in Waiting(m) : EndsWith(Train(m).buf, i, m.pending[i])
<1> DEFINE W == Waiting(m)
           R == {[id |-> i, vec |-> m.pending[i]] : i \in W}
           records == SetToSeq(R)
           added == {<<i, m.pending[i]>> : i \in W}
<1>1. W \subseteq Id /\ \A i \in W : m.pending[i] \in Vec
  BY EngineFields DEF Waiting
<1>2. IsFiniteSet(R)
  <2> DEFINE g == [i \in W |-> [id |-> i, vec |-> m.pending[i]]]
  <2>1. g \in Surjection(W, R)
    BY DEF Surjection
  <2> HIDE DEF g, R
  <2> QED BY <2>1, FS_Surjection
<1>3. R \subseteq Record /\ added \in Index
  BY <1>1 DEF Record, Index
<1>4. /\ records \in Seq(R) /\ IsInjective(records)
      /\ \A x \in R : \E p \in DOMAIN records : records[p] = x
  <2> HIDE DEF R
  <2> QED BY <1>2, Listed
<1>5. records \in Seq(Record)
  <2> HIDE DEF records, R
  <2> QED BY <1>3, <1>4
<1>6. Train(m) = [m EXCEPT !.index = @ \cup added, !.buf = @ \o records,
                           !.trained = TRUE, !.pending = NoPending, !.pool = 0]
  BY DEF Train
<1>7. \A i \in W : EndsWith(m.buf \o records, i, m.pending[i])
  <2> TAKE i \in W
  <2>1. PICK p \in DOMAIN records : records[p] = [id |-> i, vec |-> m.pending[i]]
    BY <1>4
  <2>2. \A q \in DOMAIN records : records[q].id = i => records[q] = records[p]
    <3>1. \A q \in DOMAIN records : records[q] \in R
      <4> HIDE DEF records, R
      <4> QED BY <1>4
    <3> HIDE DEF records
    <3> QED BY <2>1, <3>1
  <2>3. i \in Id /\ m.pending[i] \in Vec /\ m.buf \in Seq(Record)
    BY <1>1, EngineFields
  <2> HIDE DEF records, R, W
  <2> QED BY <1>4, <1>5, <2>1, <2>2, <2>3, EndsBehind
<1>8. m.buf \o records \in Seq(Record)
  <2>1. m.buf \in Seq(Record)
    BY EngineFields
  <2> HIDE DEF records
  <2> QED BY <1>5, <2>1
<1>9. NoPending \in [Id -> Vec \cup {NoVec}]
  BY DEF NoPending
<1> HIDE DEF records, added, R, W
<1>10. m.index \cup added \in Index
  BY <1>3, EngineFields DEF Index
<1>11. /\ Train(m).trained /\ Train(m).pending = NoPending
       /\ Train(m).offsets = m.offsets
       /\ Train(m).index = m.index \cup added
       /\ Train(m).buf = m.buf \o records
  BY <1>6 DEF Engine
<1>12. Train(m) \in Engine(n)
  <2> DEFINE b == m.buf \o records
             x == m.index \cup added
  <2>1. b \in Seq(Record) /\ x \in Index
    BY <1>8, <1>10
  <2>2. Train(m) = [m EXCEPT !.index = x, !.buf = b, !.trained = TRUE, !.pending = NoPending, !.pool = 0]
    BY <1>6, Zenon
  <2> HIDE DEF NoPending, b, x, Index, Record
  <2>3. Train(m) = [index |-> x, trained |-> TRUE, pending |-> NoPending, pool |-> 0,
                    offsets |-> m.offsets, buf |-> b]
    BY <2>2 DEF Engine
  <2>4. m.offsets \in [Id -> 0..n]
    BY DEF Engine
  <2> QED BY <1>9, <2>1, <2>3, <2>4 DEF Engine
<1> QED BY <1>7, <1>11, <1>12 DEF added, W

\* WithoutId takes away pairs of its id only.
LEMMA WithoutIdIs ==
  ASSUME NEW index \in Index, NEW i \in Id
  PROVE  /\ WithoutId(index, i) \in Index
         /\ kind.removes => \A v \in Vec : <<i, v>> \notin WithoutId(index, i)
         /\ \A j \in Id, v \in Vec : j # i => (<<j, v>> \in WithoutId(index, i) <=> <<j, v>> \in index)
BY DEF WithoutId, Index

LEMMA RemovedIs ==
  ASSUME NEW n \in Nat, NEW m, Sound(m, n), NEW i \in Id
  PROVE  /\ Sound(Removed(m, i), n)
         /\ kind.removes => \A w \in Vec : <<i, w>> \notin Removed(m, i).index
         /\ \A j \in Id, w \in Vec :
              j # i => (<<j, w>> \in Removed(m, i).index <=> <<j, w>> \in m.index)
         /\ Removed(m, i).pending[i] = NoVec
         /\ \A j \in Id : j # i => Removed(m, i).pending[j] = m.pending[j]
         /\ Removed(m, i).offsets[i] = 0
         /\ \A j \in Id : j # i => Removed(m, i).offsets[j] = m.offsets[j]
         /\ Removed(m, i).trained = m.trained
         /\ Removed(m, i).buf = m.buf
         /\ Waiting(Removed(m, i)) \subseteq Waiting(m)
<1> DEFINE x == WithoutId(m.index, i)
           w == [m.pending EXCEPT ![i] = NoVec]
           o == [m.offsets EXCEPT ![i] = 0]
<1>1. /\ m \in Engine(n) /\ IsFiniteSet(Waiting(m)) /\ (m.trained => m.pending = NoPending)
      /\ m.index \in Index /\ m.trained \in BOOLEAN /\ m.pending \in [Id -> Vec \cup {NoVec}]
      /\ m.pool \in Nat /\ m.offsets \in [Id -> 0..n] /\ m.buf \in Seq(Record)
  BY EngineFields DEF Sound
<1>2. x \in Index /\ w \in [Id -> Vec \cup {NoVec}] /\ o \in [Id -> 0..n]
  BY <1>1, WithoutIdIs
<1>3. Removed(m, i) = [m EXCEPT !.index = x, !.pending = w, !.offsets = o]
  BY Zenon DEF Removed
<1>4. \A j \in Id : w[j] # NoVec => m.pending[j] # NoVec
  BY <1>1
<1>5. m.trained => w = NoPending
  BY <1>1 DEF NoPending
<1> HIDE DEF x, w, o
<1>6. Removed(m, i) = [index |-> x, trained |-> m.trained, pending |-> w, pool |-> m.pool,
                       offsets |-> o, buf |-> m.buf]
  BY <1>1, <1>3 DEF Engine
<1>7. Removed(m, i) \in Engine(n)
  BY <1>1, <1>2, <1>6 DEF Engine
<1>8. Waiting(Removed(m, i)) \subseteq Waiting(m)
  BY <1>4, <1>6 DEF Waiting
<1>9. IsFiniteSet(Waiting(Removed(m, i)))
  BY <1>1, <1>8, FS_Subset
<1>10. /\ w[i] = NoVec /\ \A j \in Id : j # i => w[j] = m.pending[j]
       /\ o[i] = 0 /\ \A j \in Id : j # i => o[j] = m.offsets[j]
  BY <1>1 DEF w, o
<1>11. /\ kind.removes => \A u \in Vec : <<i, u>> \notin x
       /\ \A j \in Id, u \in Vec : j # i => (<<j, u>> \in x <=> <<j, u>> \in m.index)
  BY <1>1, WithoutIdIs DEF x
<1> QED BY <1>5, <1>6, <1>7, <1>8, <1>9, <1>10, <1>11 DEF Sound

\* An insert into a trained index.
LEMMA InsertedTrained ==
  ASSUME NEW n \in Nat, NEW m, Sound(m, n), m.trained, NEW i \in Id, NEW v \in Vec
  PROVE  /\ Sound(Inserted(m, i, v), n)
         /\ <<i, v>> \in Inserted(m, i, v).index
         /\ \A j \in Id, w \in Vec :
              j # i => (<<j, w>> \in Inserted(m, i, v).index <=> <<j, w>> \in m.index)
         /\ Inserted(m, i, v).pending = m.pending
         /\ Inserted(m, i, v).offsets = m.offsets
         /\ Inserted(m, i, v).trained = m.trained
         /\ Inserted(m, i, v).buf = Append(m.buf, [id |-> i, vec |-> v])
<1> DEFINE x == WithoutId(m.index, i) \cup {<<i, v>>}
           b == Append(m.buf, [id |-> i, vec |-> v])
<1>1. /\ m \in Engine(n) /\ IsFiniteSet(Waiting(m)) /\ m.pending = NoPending
      /\ m.index \in Index /\ m.trained \in BOOLEAN /\ m.pending \in [Id -> Vec \cup {NoVec}]
      /\ m.pool \in Nat /\ m.offsets \in [Id -> 0..n] /\ m.buf \in Seq(Record)
  BY EngineFields DEF Sound
<1>2. x \in Index
  BY <1>1, WithoutIdIs DEF Index
<1>3. b \in Seq(Record)
  BY <1>1 DEF Record
<1>4. Inserted(m, i, v) = [m EXCEPT !.index = x, !.buf = b]
  BY Zenon DEF Inserted
<1> HIDE DEF x, b
<1>5. Inserted(m, i, v) = [index |-> x, trained |-> m.trained, pending |-> m.pending,
                           pool |-> m.pool, offsets |-> m.offsets, buf |-> b]
  BY <1>1, <1>4 DEF Engine
<1>6. Inserted(m, i, v) \in Engine(n)
  BY <1>1, <1>2, <1>3, <1>5 DEF Engine
<1>7. Waiting(Inserted(m, i, v)) = Waiting(m)
  BY <1>5 DEF Waiting
<1>8. /\ <<i, v>> \in x
      /\ \A j \in Id, w \in Vec : j # i => (<<j, w>> \in x <=> <<j, w>> \in m.index)
  BY <1>1, WithoutIdIs DEF x
<1> QED BY <1>1, <1>5, <1>6, <1>7, <1>8 DEF Sound, b

\* An insert into an index that is not trained: the vector waits, and may be
\* the last one training needed.
Staged(m, i, v) == [m EXCEPT !.pending[i] = v, !.pool = @ + 1]

LEMMA StagedIs ==
  ASSUME NEW n \in Nat, NEW m, Sound(m, n), ~m.trained, NEW i \in Id, NEW v \in Vec
  PROVE  /\ Sound(Staged(m, i, v), n)
         /\ Staged(m, i, v).index = m.index
         /\ Staged(m, i, v).pending[i] = v
         /\ \A j \in Id : j # i => Staged(m, i, v).pending[j] = m.pending[j]
         /\ Staged(m, i, v).offsets = m.offsets
         /\ ~Staged(m, i, v).trained
         /\ Staged(m, i, v).buf = m.buf
         /\ Waiting(Staged(m, i, v)) = Waiting(m) \cup {i}
         /\ Inserted(m, i, v) \in {Staged(m, i, v), Train(Staged(m, i, v))}
<1> DEFINE w == [m.pending EXCEPT ![i] = v]
           k == m.pool + 1
<1>1. /\ m \in Engine(n) /\ IsFiniteSet(Waiting(m))
      /\ m.index \in Index /\ m.trained \in BOOLEAN /\ m.pending \in [Id -> Vec \cup {NoVec}]
      /\ m.pool \in Nat /\ m.offsets \in [Id -> 0..n] /\ m.buf \in Seq(Record)
  BY EngineFields DEF Sound
<1>2. w \in [Id -> Vec \cup {NoVec}] /\ k \in Nat
  BY <1>1
<1>3. Staged(m, i, v) = [m EXCEPT !.pending = w, !.pool = k]
  BY Zenon DEF Staged
<1>4. \A j \in Id : w[j] # NoVec <=> m.pending[j] # NoVec \/ j = i
  BY <1>1, VecIs
<1> HIDE DEF w, k
<1>5. Staged(m, i, v) = [index |-> m.index, trained |-> m.trained, pending |-> w,
                         pool |-> k, offsets |-> m.offsets, buf |-> m.buf]
  BY <1>1, <1>3 DEF Engine
<1>6. Staged(m, i, v) \in Engine(n)
  BY <1>1, <1>2, <1>5 DEF Engine
<1>7. Waiting(Staged(m, i, v)) = Waiting(m) \cup {i}
  BY <1>4, <1>5 DEF Waiting
<1>8. IsFiniteSet(Waiting(Staged(m, i, v)))
  BY <1>1, <1>7, FS_AddElement
<1>9. Inserted(m, i, v) \in {Staged(m, i, v), Train(Staged(m, i, v))}
  BY Zenon DEF Inserted, Staged
<1>10. w[i] = v /\ (\A j \in Id : j # i => w[j] = m.pending[j])
  BY <1>1 DEF w
<1> QED BY <1>1, <1>5, <1>6, <1>7, <1>8, <1>9, <1>10 DEF Sound

-----------------------------------------------------------------------------
(* One operation on the engine, seen from the id it is about and from every *)
(* other.                                                                   *)

\* An insert or a removal leaves a sound engine, and no id with a new offset.
LEMMA AfterSound ==
  ASSUME NEW n \in Nat, NEW m, Sound(m, n), NEW i \in Id, NEW v \in Vec \cup {Gone}
  PROVE  /\ Sound(After(m, i, v), n)
         /\ \A j \in Id : After(m, i, v).offsets[j] \in {0, m.offsets[j]}
         /\ Waiting(After(m, i, v)) \subseteq Waiting(m) \cup {i}
<1>1. CASE v = Gone
  <2>1. After(m, i, v) = Removed(m, i)
    BY <1>1 DEF After
  <2>2. m.offsets \in [Id -> 0..n]
    BY EngineFields DEF Sound
  <2>3. /\ Sound(Removed(m, i), n)
        /\ Removed(m, i).offsets[i] = 0
        /\ \A j \in Id : j # i => Removed(m, i).offsets[j] = m.offsets[j]
        /\ Waiting(Removed(m, i)) \subseteq Waiting(m)
    BY RemovedIs
  <2>4. \A j \in Id : Removed(m, i).offsets[j] \in {0, m.offsets[j]}
    BY <2>3
  <2> QED BY <2>1, <2>3, <2>4
<1>2. CASE v # Gone /\ m.trained
  <2>1. After(m, i, v) = Inserted(m, i, v)
    BY <1>2 DEF After
  <2>2. v \in Vec
    BY <1>2
  <2>3. /\ Sound(Inserted(m, i, v), n) /\ Inserted(m, i, v).pending = m.pending
        /\ Inserted(m, i, v).offsets = m.offsets
    BY <1>2, <2>2, InsertedTrained
  <2>4. Waiting(Inserted(m, i, v)) = Waiting(m)
    BY <2>3 DEF Waiting
  <2> QED BY <2>1, <2>3, <2>4
<1>3. CASE v # Gone /\ ~m.trained
  <2> DEFINE s == Staged(m, i, v)
  <2>0. v \in Vec /\ After(m, i, v) = Inserted(m, i, v)
    BY <1>3 DEF After
  <2>1. After(m, i, v) \in {s, Train(s)}
    BY <1>3, <2>0, StagedIs
  <2>2. Sound(s, n) /\ s.offsets = m.offsets /\ Waiting(s) = Waiting(m) \cup {i}
    BY <1>3, <2>0, StagedIs
  <2> HIDE DEF s
  <2>3. /\ Train(s) \in Engine(n) /\ Train(s).pending = NoPending /\ Train(s).offsets = m.offsets
    BY <2>2, TrainIs DEF Sound
  <2>4. Waiting(Train(s)) = {}
    BY <2>3 DEF Waiting, NoPending
  <2>5. Sound(Train(s), n)
    BY <2>3, <2>4, FS_EmptySet DEF Sound
  <2> QED BY <2>1, <2>2, <2>3, <2>4, <2>5
<1> QED BY <1>1, <1>2, <1>3

\* Where a vector is after it was taken in: waiting, or in the index and last
\* in the buffer.
Taken(m, i, v) ==
  IF m.trained THEN <<i, v>> \in m.index /\ EndsWith(m.buf, i, v) ELSE m.pending[i] = v

LEMMA StagedTrained ==
  ASSUME NEW n \in Nat, NEW m, Sound(m, n), ~m.trained, NEW i \in Id, NEW v \in Vec,
         m.pending[i] = v
  PROVE  Taken(Train(m), i, v)
<1>1. i \in Waiting(m)
  BY VecIs DEF Waiting
<1>2. <<i, m.pending[i]>> \in Train(m).index
  BY <1>1, TrainIs DEF Sound
<1> QED BY <1>1, <1>2, TrainIs DEF Sound, Taken

LEMMA AfterTaken ==
  ASSUME NEW n \in Nat, NEW m, Sound(m, n), NEW i \in Id, NEW v \in Vec
  PROVE  Taken(After(m, i, v), i, v)
<1>1. After(m, i, v) = Inserted(m, i, v)
  BY VecIs DEF After
<1>2. CASE m.trained
  <2>1. EndsWith(Append(m.buf, [id |-> i, vec |-> v]), i, v)
    <3>1. m.buf \in Seq(Record) /\ [id |-> i, vec |-> v] \in Record
      BY EngineFields DEF Sound, Record
    <3> QED BY <3>1, EndsAppended
  <2>2. /\ <<i, v>> \in Inserted(m, i, v).index
        /\ Inserted(m, i, v).trained = m.trained
        /\ Inserted(m, i, v).buf = Append(m.buf, [id |-> i, vec |-> v])
    BY <1>2, InsertedTrained
  <2> QED BY <1>1, <1>2, <2>1, <2>2 DEF Taken
<1>3. CASE ~m.trained
  <2> DEFINE s == Staged(m, i, v)
  <2>1. /\ After(m, i, v) \in {s, Train(s)} /\ Sound(s, n) /\ ~s.trained
        /\ s.pending[i] = v
        /\ \A k \in Id : k # i => s.pending[k] = m.pending[k]
    BY <1>1, <1>3, StagedIs
  <2>2. s.pending[i] = v
    BY <2>1, EngineFields DEF Sound
  <2> HIDE DEF s
  <2>3. Taken(Train(s), i, v)
    BY <2>1, <2>2, StagedTrained
  <2> QED BY <2>1, <2>2, <2>3 DEF Taken
<1> QED BY <1>2, <1>3

\* The vectors of other ids stay where they are, or leave the waiting ones
\* together.
LEMMA AfterOther ==
  ASSUME NEW n \in Nat, NEW m, Sound(m, n), NEW i \in Id, NEW v \in Vec \cup {Gone},
         NEW j \in Id, j # i, NEW w \in Vec
  PROVE  /\ m.trained /\ <<j, w>> \in m.index =>
              After(m, i, v).trained /\ <<j, w>> \in After(m, i, v).index
         /\ m.trained /\ EndsWith(m.buf, j, w) => EndsWith(After(m, i, v).buf, j, w)
         /\ m.trained /\ Without(m.buf, j) => Without(After(m, i, v).buf, j)
         /\ ~m.trained /\ m.pending[j] = w => Taken(After(m, i, v), j, w)
         /\ m.pending[j] = NoVec => /\ After(m, i, v).pending[j] = NoVec
                                    /\ <<j, w>> \in After(m, i, v).index <=> <<j, w>> \in m.index
         /\ After(m, i, v).offsets[j] = m.offsets[j]
<1>0. /\ m.index \in Index /\ m.pending \in [Id -> Vec \cup {NoVec}] /\ m.offsets \in [Id -> 0..n]
      /\ m.buf \in Seq(Record) /\ (m.trained => m.pending = NoPending)
  BY EngineFields DEF Sound
<1>1. CASE v = Gone
  <2>1. After(m, i, v) = Removed(m, i)
    BY <1>1 DEF After
  <2>2. /\ <<j, w>> \in After(m, i, v).index <=> <<j, w>> \in m.index
        /\ After(m, i, v).pending[i] = NoVec
        /\ \A k \in Id : k # i => After(m, i, v).pending[k] = m.pending[k]
        /\ After(m, i, v).offsets[i] = 0
        /\ \A k \in Id : k # i => After(m, i, v).offsets[k] = m.offsets[k]
        /\ After(m, i, v).trained = m.trained
        /\ After(m, i, v).buf = m.buf
    BY <2>1, RemovedIs
  <2>3. After(m, i, v).pending[j] = m.pending[j] /\ After(m, i, v).offsets[j] = m.offsets[j]
    BY <1>0, <2>2
  <2> QED BY <2>2, <2>3 DEF Taken
<1>2. CASE v # Gone /\ m.trained
  <2>0. v \in Vec
    BY <1>2
  <2>1. /\ <<j, w>> \in Inserted(m, i, v).index <=> <<j, w>> \in m.index
        /\ Inserted(m, i, v).pending = m.pending
        /\ Inserted(m, i, v).offsets = m.offsets
        /\ Inserted(m, i, v).trained = m.trained
        /\ Inserted(m, i, v).buf = Append(m.buf, [id |-> i, vec |-> v])
    BY <1>2, <2>0, InsertedTrained
  <2>2. /\ <<j, w>> \in After(m, i, v).index <=> <<j, w>> \in m.index
        /\ After(m, i, v).pending = m.pending
        /\ After(m, i, v).offsets = m.offsets
        /\ After(m, i, v).trained = m.trained
        /\ After(m, i, v).buf = Append(m.buf, [id |-> i, vec |-> v])
    BY <1>2, <2>1 DEF After
  <2> DEFINE b == Append(m.buf, [id |-> i, vec |-> v])
  <2>3. /\ EndsWith(m.buf, j, w) => EndsWith(b, j, w)
        /\ Without(m.buf, j) => Without(b, j)
    <3>1. [id |-> i, vec |-> v] \in Record /\ [id |-> i, vec |-> v].id # j
      BY <1>2 DEF Record
    <3> QED BY <1>0, <3>1, EndsAppended
  <2> QED BY <1>2, <2>2, <2>3
<1>3. CASE v # Gone /\ ~m.trained
  <2> DEFINE s == Staged(m, i, v)
  <2>0. v \in Vec /\ After(m, i, v) = Inserted(m, i, v)
    BY <1>3 DEF After
  <2>1. After(m, i, v) \in {s, Train(s)}
    BY <1>3, <2>0, StagedIs
  <2>2. /\ Sound(s, n) /\ s.index = m.index /\ s.offsets = m.offsets /\ ~s.trained
        /\ s.pending[i] = v
        /\ \A k \in Id : k # i => s.pending[k] = m.pending[k]
    BY <1>3, <2>0, StagedIs
  <2>3. s.pending[j] = m.pending[j]
    BY <1>0, <2>2
  <2> HIDE DEF s
  <2>4. m.pending[j] = w => Taken(Train(s), j, w)
    BY <2>2, <2>3, StagedTrained
  <2>5. /\ Train(s).pending = NoPending /\ Train(s).offsets = s.offsets
        /\ Train(s).index = s.index \cup {<<k, s.pending[k]>> : k \in Waiting(s)}
    BY <2>2, TrainIs DEF Sound
  <2>6. m.pending[j] = NoVec => (<<j, w>> \in Train(s).index <=> <<j, w>> \in m.index)
    <3> SUFFICES ASSUME m.pending[j] = NoVec PROVE <<j, w>> \in Train(s).index <=> <<j, w>> \in m.index
      OBVIOUS
    <3>1. j \notin Waiting(s)
      BY <2>3 DEF Waiting
    <3> QED BY <2>2, <2>5, <3>1
  <2>7. Train(s).pending[j] = NoVec
    BY <2>5 DEF NoPending
  <2>8. s.pending[j] = w => Taken(s, j, w)
    BY <2>2 DEF Taken
  <2> QED BY <1>3, <2>1, <2>2, <2>3, <2>4, <2>5, <2>6, <2>7, <2>8
<1> QED BY <1>1, <1>2, <1>3

\* An id that does not wait does not begin to because of another one.
LEMMA AfterOtherPending ==
  ASSUME NEW n \in Nat, NEW m, Sound(m, n), NEW i \in Id, NEW v \in Vec \cup {Gone},
         NEW j \in Id, j # i, m.pending[j] = NoVec
  PROVE  After(m, i, v).pending[j] = NoVec
<1>1. Waiting(After(m, i, v)) \subseteq Waiting(m) \cup {i}
  BY AfterSound
<1> QED BY <1>1 DEF Waiting

\* A removed id is nowhere that a search looks.
LEMMA AfterRemoved ==
  ASSUME NEW n \in Nat, NEW m, Sound(m, n), NEW i \in Id
  PROVE  /\ After(m, i, Gone).pending[i] = NoVec
         /\ kind.removes => \A v \in Vec : <<i, v>> \notin After(m, i, Gone).index
<1>1. After(m, i, Gone) = Removed(m, i)
  BY DEF After
<1> QED BY <1>1, RemovedIs

-----------------------------------------------------------------------------
\* The engine's constants are fit for the log.
LEMMA LogAssumed == WalP!WALAssumption
<1>1. [i \in Id |-> 1] \in [Id -> Nat \ {0}] /\ [v \in Vec |-> Dim] \in [Vec -> Nat \ {0}]
  BY VectorAssumption
<1>2. Vec \subseteq Nat \ {0}
  BY VectorAssumption DEF Vec
<1> QED BY <1>1, <1>2, VectorAssumption DEF WalP!WALAssumption, WalP!EmptyVal

(* The replay: FoldLeft over the entries of the log, whose definition is a  *)
(* recursive function over sets of positions.                               *)

ReplayStep(es, s, f) ==
  IF s = {} THEN Opened
  ELSE After(f[s \ {Max(s)}], es[Max(s)].key, es[Max(s)].val)

ReplayFunction(es) ==
  CHOOSE f : f = [s \in SUBSET DOMAIN es |-> ReplayStep(es, s, f)]

LEMMA FoldIs ==
  \A es : FoldLeft(LAMBDA m, e : After(m, e.key, e.val), Opened, es)
            = ReplayFunction(es)[DOMAIN es]
BY Zenon DEF FoldLeft, MapThenFoldSet, ReplayFunction, ReplayStep

\* The last position of a sequence is the largest.
LEMMA MaxIs ==
  ASSUME NEW n \in Nat, NEW s \in SUBSET (1..n + 1), n + 1 \in s
  PROVE  Max(s) = n + 1
<1>1. n + 1 \in s /\ \A y \in s : n + 1 >= y
  OBVIOUS
<1>2. \A x \in s : (\A y \in s : x >= y) => x = n + 1
  <2> SUFFICES ASSUME NEW x \in s, \A y \in s : x >= y PROVE x = n + 1
    OBVIOUS
  <2>1. x >= n + 1 /\ x \in 1..n + 1
    OBVIOUS
  <2> QED BY <2>1
<1> QED BY <1>1, <1>2, Zenon DEF Max

\* The recursion is well defined on the positions up to n, for every n.
LEMMA ReplayExists ==
  ASSUME NEW es, NEW n \in Nat, DOMAIN es = 1..n
  PROVE  \E f : f = [s \in SUBSET DOMAIN es |-> ReplayStep(es, s, f)]
<1> DEFINE Up(k) == SUBSET (1..k)
           Good(k) == \E f : f = [s \in Up(k) |-> ReplayStep(es, s, f)]
           T == {k \in Nat : Good(k)}
<1>1. 0 \in T
  <2> DEFINE f == [s \in Up(0) |-> Opened]
  <2>1. \A s \in Up(0) : ReplayStep(es, s, f) = Opened
    BY DEF ReplayStep
  <2>2. f = [s \in Up(0) |-> ReplayStep(es, s, f)]
    BY <2>1, Zenon
  <2> QED BY <2>2
<1>2. ASSUME NEW k \in Nat, k \in T PROVE k + 1 \in T
  <2>1. PICK f : f = [s \in Up(k) |-> ReplayStep(es, s, f)]
    BY <1>2
  <2> DEFINE g == [s \in Up(k + 1) |->
                    IF k + 1 \in s THEN After(f[s \ {k + 1}], es[k + 1].key, es[k + 1].val) ELSE f[s]]
  <2>2. ASSUME NEW s \in Up(k + 1) PROVE g[s] = ReplayStep(es, s, g)
    <3>1. CASE k + 1 \in s
      <4>1. Max(s) = k + 1 /\ s # {}
        BY <3>1, MaxIs
      <4>2. s \ {k + 1} \in Up(k) /\ s \ {k + 1} \in Up(k + 1)
        OBVIOUS
      <4>3. k + 1 \notin s \ {k + 1}
        OBVIOUS
      <4>4. g[s \ {k + 1}] = f[s \ {k + 1}]
        BY <4>2, <4>3, Zenon
      <4>5. g[s] = After(f[s \ {k + 1}], es[k + 1].key, es[k + 1].val)
        BY <3>1, Zenon
      <4> HIDE DEF g
      <4> QED BY <4>1, <4>4, <4>5, Zenon DEF ReplayStep
    <3>2. CASE k + 1 \notin s
      <4>0. \A y \in s : y \in 1..k
        BY <3>2
      <4>1. s \in Up(k) /\ \A x : s \ {x} \in Up(k) /\ s \ {x} \in Up(k + 1) /\ k + 1 \notin s \ {x}
        BY <3>2, <4>0
      <4>2. g[s] = f[s] /\ \A x : g[s \ {x}] = f[s \ {x}]
        BY <3>2, <4>1, Zenon
      <4>3. f[s] = ReplayStep(es, s, f)
        BY <2>1, <4>1, Zenon
      <4> HIDE DEF g
      <4> QED BY <4>2, <4>3, Zenon DEF ReplayStep
    <3> QED BY <3>1, <3>2
  <2>3. g = [s \in Up(k + 1) |-> ReplayStep(es, s, g)]
    <3>1. g = [s \in Up(k + 1) |-> g[s]]
      BY Zenon
    <3> HIDE DEF g
    <3> QED BY <2>2, <3>1, Zenon
  <2>4. Good(k + 1)
    <3> HIDE DEF g
    <3> QED BY <2>3
  <2> QED BY <2>4
<1> HIDE DEF T
<1>3. n \in T
  BY <1>1, <1>2, LogAssumed, WalP!NatInductionSet
<1> QED BY <1>3 DEF T

\* Every entry Replay returns is an id with a vector, or a removal of it.
LogEntry == [key : Id, val : Vec \cup {Gone}]

\* A replay only ever takes offsets away.
Replayed(m, n) == Sound(m, n) /\ \A j \in Id : m.offsets[j] \in {0, Opened.offsets[j]}

LEMMA ReplayedSound ==
  ASSUME NEW n \in Nat, Sound(Opened, n), NEW es \in Seq(LogEntry)
  PROVE  Replayed(FoldLeft(LAMBDA m, e : After(m, e.key, e.val), Opened, es), n)
<1> DEFINE F == ReplayFunction(es)
           T == {k \in Nat : k <= Len(es) => Replayed(F[1..k], n)}
<1>1. Len(es) \in Nat /\ DOMAIN es = 1..Len(es)
  OBVIOUS
<1>2. F = [s \in SUBSET DOMAIN es |-> ReplayStep(es, s, F)]
  <2>1. \E f : f = [s \in SUBSET DOMAIN es |-> ReplayStep(es, s, f)]
    BY <1>1, ReplayExists
  <2> QED BY <2>1, Zenon DEF ReplayFunction
<1> HIDE DEF F
<1>3. \A s \in SUBSET DOMAIN es : F[s] = ReplayStep(es, s, F)
  BY <1>2, Zenon
<1>4. 0 \in T
  <2>1. 1..0 = {}
    OBVIOUS
  <2>2. F[{}] = Opened
    BY <1>3, Zenon DEF ReplayStep
  <2>3. Replayed(Opened, n)
    BY DEF Replayed
  <2> QED BY <2>1, <2>2, <2>3
<1>5. ASSUME NEW k \in Nat, k \in T PROVE k + 1 \in T
  <2> SUFFICES ASSUME k + 1 <= Len(es) PROVE Replayed(F[1..k + 1], n)
    OBVIOUS
  <2>1. Replayed(F[1..k], n)
    BY <1>1, <1>5
  <2>2. 1..k + 1 \in SUBSET DOMAIN es /\ k + 1 \in 1..k + 1 /\ (1..k + 1) \ {k + 1} = 1..k
    BY <1>1
  <2>3. Max(1..k + 1) = k + 1
    BY <2>2, MaxIs
  <2>4. F[1..k + 1] = After(F[1..k], es[k + 1].key, es[k + 1].val)
    <3>1. 1..k + 1 # {}
      BY <2>2
    <3>2. F[1..k + 1] = ReplayStep(es, 1..k + 1, F)
      BY <1>3, <2>2, Zenon
    <3> DEFINE s == 1..k + 1
    <3>3. s # {} /\ Max(s) = k + 1 /\ s \ {k + 1} = 1..k /\ F[s] = ReplayStep(es, s, F)
      BY <2>2, <2>3, <3>1, <3>2
    <3> HIDE DEF s
    <3>4. F[s] = After(F[1..k], es[k + 1].key, es[k + 1].val)
      BY <3>3, Zenon DEF ReplayStep
    <3> QED BY <3>4 DEF s
  <2>5. es[k + 1] \in LogEntry
    BY <1>1, <2>2
  <2>6. es[k + 1].key \in Id /\ es[k + 1].val \in Vec \cup {Gone}
    BY <2>5 DEF LogEntry
  <2> DEFINE m == F[1..k]
             a == After(m, es[k + 1].key, es[k + 1].val)
  <2>7. Sound(m, n) /\ \A j \in Id : m.offsets[j] \in {0, Opened.offsets[j]}
    BY <2>1 DEF Replayed
  <2> HIDE DEF m
  <2>8. Sound(a, n) /\ \A j \in Id : a.offsets[j] \in {0, m.offsets[j]}
    BY <2>6, <2>7, AfterSound
  <2> HIDE DEF a
  <2>9. Replayed(a, n)
    BY <2>7, <2>8 DEF Replayed
  <2> QED BY <2>4, <2>9 DEF a, m
<1> HIDE DEF T
<1>6. Len(es) \in T
  BY <1>1, <1>4, <1>5, LogAssumed, WalP!NatInductionSet
<1>7. Replayed(F[DOMAIN es], n)
  BY <1>1, <1>6 DEF T
<1> QED BY <1>7, FoldIs, Zenon DEF F

-----------------------------------------------------------------------------
(* What a start finds in the data file and the index file.                  *)

\* An id that occurs has a last record.
LEMMA LastRecord ==
  ASSUME NEW s \in Seq(Record), NEW i \in Id, ~Without(s, i)
  PROVE  \E p \in DOMAIN s : s[p].id = i /\ \A q \in p+1..Len(s) : s[q].id # i
<1> DEFINE n == Len(s)
           HasLast(o) == \E p \in o+1..n : s[p].id = i /\ \A q \in p+1..n : s[q].id # i
           T == {o \in 0..n : (\E p \in o+1..n : s[p].id = i) => HasLast(o)}
<1>1. n \in Nat /\ DOMAIN s = 1..n
  OBVIOUS
<1> HIDE DEF n
<1>2. ASSUME NEW o \in 0..n, (o + 1)..n \subseteq T PROVE o \in T
  <2> SUFFICES ASSUME NEW p \in o+1..n, s[p].id = i PROVE HasLast(o)
    OBVIOUS
  <2>1. CASE \E r \in (o+1)+1..n : s[r].id = i
    <3>1. o + 1 \in (o + 1)..n
      BY <1>1
    <3>2. HasLast(o + 1)
      BY <1>2, <2>1, <3>1
    <3>3. \A r \in (o+1)+1..n : r \in o+1..n
      BY <1>1
    <3> QED BY <3>2, <3>3
  <2>2. CASE ~ \E r \in (o+1)+1..n : s[r].id = i
    <3>1. p = o + 1
      BY <1>1, <2>2
    <3> QED BY <2>2, <3>1
  <2> QED BY <2>1, <2>2
<1> HIDE DEF T
<1>3. 0 \in T
  <2>1. 0..n \subseteq T
    BY <1>1, <1>2, LogAssumed, WalP!DownwardInduction
  <2> QED BY <1>1, <2>1
<1>4. PICK p \in 1..n : s[p].id = i
  BY <1>1 DEF Without
<1>5. HasLast(0)
  BY <1>3, <1>4 DEF T
<1> QED BY <1>1, <1>5 DEF n

\* rebuildOffsetsFromDataFile finds the last record of every id, if there is one.
LEMMA RebuiltIs ==
  ASSUME data \in Seq(Record)
  PROVE  /\ Rebuilt \in [Id -> 0..Len(data)]
         /\ \A i \in Id : Without(data, i) => Rebuilt[i] = 0
         /\ \A i \in Id : ~Without(data, i) =>
              /\ Rebuilt[i] \in DOMAIN data /\ data[Rebuilt[i]].id = i
              /\ \A q \in Rebuilt[i]+1..Len(data) : data[q].id # i
<1>1. Len(data) \in Nat /\ DOMAIN data = 1..Len(data)
  OBVIOUS
<1>2. ASSUME NEW i \in Id, ~Without(data, i)
      PROVE  /\ Rebuilt[i] \in DOMAIN data /\ data[Rebuilt[i]].id = i
             /\ \A q \in Rebuilt[i]+1..Len(data) : data[q].id # i
  <2>1. \E p \in DOMAIN data : data[p].id = i
    BY <1>2 DEF Without
  <2>2. Rebuilt[i] = CHOOSE p \in DOMAIN data :
          data[p].id = i /\ \A q \in p+1..Len(data) : data[q].id # i
    BY <2>1, Zenon DEF Rebuilt
  <2>3. \E p \in DOMAIN data : data[p].id = i /\ \A q \in p+1..Len(data) : data[q].id # i
    BY <1>2, LastRecord
  <2> QED BY <2>2, <2>3, Zenon
<1>3. ASSUME NEW i \in Id, Without(data, i) PROVE Rebuilt[i] = 0
  <2>1. ~ \E p \in DOMAIN data : data[p].id = i
    BY <1>3 DEF Without
  <2> QED BY <2>1, Zenon DEF Rebuilt
<1>4. \A i \in Id : Rebuilt[i] \in 0..Len(data)
  BY <1>1, <1>2, <1>3
<1> DEFINE B(i) == IF \E p \in DOMAIN data : data[p].id = i
                   THEN CHOOSE p \in DOMAIN data :
                          data[p].id = i /\ \A q \in p+1..Len(data) : data[q].id # i ELSE 0
<1>5. Rebuilt = [i \in Id |-> B(i)]
  BY Zenon DEF Rebuilt
<1> HIDE DEF B
<1>6. Rebuilt \in [Id -> 0..Len(data)]
  BY <1>4, <1>5
<1> QED BY <1>2, <1>3, <1>6

-----------------------------------------------------------------------------
(* The log of the engine is the WAL of WALProofs.                           *)

LEMMA SameLog ==
  /\ Wal!InitLog <=> WalP!InitLog
  /\ Wal!WALTypeOK <=> WalP!WALTypeOK
  /\ Wal!OpenLog <=> WalP!OpenLog
  /\ Wal!Clear <=> WalP!Clear
  /\ Wal!MarkCommitted <=> WalP!MarkCommitted
  /\ \A k, v : Wal!WriteEntry(k, v) <=> WalP!WriteEntry(k, v)
  /\ \A result : Wal!Replay(result) <=> WalP!Replay(result)
  /\ Wal!ReplayResults = WalP!ReplayResults
<1> USE DEF Wal!EmptyVal, WalP!EmptyVal, Wal!Entry, WalP!Entry, Wal!NoEntry, WalP!NoEntry,
            Wal!Zero, WalP!Zero, Wal!Cell, WalP!Cell, Wal!Flag, WalP!Flag
<1>1. Wal!WALTypeOK <=> WalP!WALTypeOK
  BY Zenon DEF Wal!WALTypeOK, WalP!WALTypeOK
<1>2. \A c, p, n : Wal!WrittenAt(c, p, n) = WalP!WrittenAt(c, p, n)
  BY Zenon DEF Wal!WrittenAt, WalP!WrittenAt
<1>3. \A e, flag : Wal!Encoded(e, flag) = WalP!Encoded(e, flag)
  BY Zenon DEF Wal!Encoded, WalP!Encoded, Wal!BodyLen, WalP!BodyLen
<1>4. \A n : Wal!Written(n) = WalP!Written(n)
  BY <1>2, Zenon DEF Wal!Written, WalP!Written
<1>5. /\ Wal!InitLog <=> WalP!InitLog
      /\ Wal!OpenLog <=> WalP!OpenLog
      /\ Wal!Clear <=> WalP!Clear
  BY Zenon DEF Wal!InitLog, WalP!InitLog, Wal!OpenLog, WalP!OpenLog, Wal!Clear, WalP!Clear
<1>6. Wal!MarkCommitted <=> WalP!MarkCommitted
  BY <1>2, Zenon DEF Wal!MarkCommitted, WalP!MarkCommitted
<1>7. \A k, v : Wal!WriteEntry(k, v) <=> WalP!WriteEntry(k, v)
  BY <1>3, <1>4, Zenon DEF Wal!WriteEntry, WalP!WriteEntry
<1>8. Wal!ReplayResults = WalP!ReplayResults
  <2>1. \A c : Wal!Scan(c) = WalP!Scan(c)
    BY Zenon DEF Wal!Scan, WalP!Scan, Wal!BodyLen, WalP!BodyLen
  <2> QED BY <2>1, Zenon DEF Wal!ReplayResults, WalP!ReplayResults
<1>9. \A result : Wal!Replay(result) <=> WalP!Replay(result)
  BY <1>8, Zenon DEF Wal!Replay, WalP!Replay
<1> QED BY <1>1, <1>5, <1>6, <1>7, <1>8, <1>9

\* Every operation the engine uses keeps the log well-formed.
LEMMA LogStep ==
  ASSUME Wal!WALTypeOK, [Next]_vars
  PROVE  Wal!WALTypeOK'
<1> DEFINE SomeEntry == \E k \in Id, v \in Vec \cup {Gone} : Wal!WriteEntry(k, v)
           SomeReplay == \E result : Wal!Replay(result)
           Known == Wal!OpenLog \/ Wal!Clear \/ Wal!MarkCommitted \/ UNCHANGED log
                    \/ SomeEntry \/ SomeReplay
<1>1. ASSUME NEW c \in Client, NEW i \in Id, NEW v \in Vec \cup {Gone}, Call(c, i, v) PROVE Known
  BY <1>1, Zenon DEF Call
<1>2. ASSUME NEW c \in Client, ClientStep(c) PROVE Known
  BY <1>2, Zenon DEF ClientStep, Ingest, Commit
<1>3. ASSUME FlushStep PROVE Known
  BY <1>3, Zenon DEF FlushStep, FlushTake, FlushLock, FlushAppend, FlushUnlock
<1>4. ASSUME CheckpointStart \/ CheckpointEnd \/ Kill PROVE Known
  BY <1>4, Zenon DEF CheckpointStart, CheckpointEnd, Kill
<1>5. ASSUME OpenStep PROVE Known
  <2>1. CASE Start
    BY <2>1, Zenon DEF Start
  <2>2. CASE StartSaves \/ StartClears
    BY <2>2, Zenon DEF StartSaves, StartClears
  <2> QED BY <1>5, <2>1, <2>2 DEF OpenStep
<1>6. ASSUME UNCHANGED vars PROVE Known
  <2>1. UNCHANGED log
    BY <1>6 DEF vars
  <2> QED BY <2>1, Zenon
<1> HIDE DEF Known
<1>7. Known
  BY <1>1, <1>2, <1>3, <1>4, <1>5, <1>6 DEF Next
<1>8. /\ WalP!WALTypeOK
      /\ \/ WalP!OpenLog \/ WalP!Clear \/ WalP!MarkCommitted \/ UNCHANGED log
         \/ \E k \in Id, v \in Vec \cup {WalP!EmptyVal} : WalP!WriteEntry(k, v)
         \/ \E k \in Id : WalP!WriteDelete(k)
         \/ \E result : WalP!Replay(result)
  BY <1>7, SameLog, Zenon DEF Known, Gone, WalP!EmptyVal
<1>9. WalP!WALTypeOK'
  BY <1>8, LogAssumed, WalP!LogType, Zenon
<1>10. Wal!WALTypeOK' <=> WalP!WALTypeOK'
  BY Zenon DEF Wal!WALTypeOK, WalP!WALTypeOK, Wal!EmptyVal, WalP!EmptyVal, Wal!Entry, WalP!Entry,
     Wal!NoEntry, WalP!NoEntry, Wal!Zero, WalP!Zero, Wal!Cell, WalP!Cell
<1> QED BY <1>9, <1>10

\* What Replay returns are inserts and removals of ids.
LEMMA ReplayedType ==
  ASSUME Wal!WALTypeOK, NEW result \in Wal!ReplayResults
  PROVE  result.entries \in Seq(LogEntry)
<1>1. WalP!WALTypeOK /\ result \in WalP!ReplayResults
  BY SameLog
<1>2. log.cells \in Seq(WalP!Cell)
  BY <1>1 DEF WalP!WALTypeOK
<1>3. WalP!Scan(log.cells) = WalP!ScanFunction(log.cells)[0]
  BY LogAssumed, WalP!ScanIsFunction, Zenon
<1>4. WalP!ScanFunction(log.cells)[0] \in WalP!ScanResult
  <2>1. 0 \in 0..Len(log.cells)
    BY <1>2
  <2> QED BY <1>2, <2>1, LogAssumed, WalP!ScanType
<1>5. WalP!Scan(log.cells).entries \in Seq(WalP!Entry)
  BY <1>3, <1>4 DEF WalP!ScanResult
<1>6. WalP!Entry = LogEntry
  BY Zenon DEF WalP!Entry, LogEntry, WalP!EmptyVal, Gone
<1>7. result.entries = WalP!Scan(log.cells).entries \/ result.entries = <<>>
  BY <1>1 DEF WalP!ReplayResults
<1>8. <<>> \in Seq(LogEntry)
  OBVIOUS
<1> QED BY <1>5, <1>6, <1>7, <1>8

-----------------------------------------------------------------------------
(* The invariant.                                                           *)

File == [state : {"none", "torn", "saved"}, index : Index, trained : BOOLEAN]
ClientState == [at : {"idle", "ingest", "commit"}, id : Nat, vec : Vec \cup {Gone, NoVec}]

\* The types of all variables but the log and the engine in memory, and what a
\* client is about.
RestInv ==
  /\ kind \in Kinds /\ data \in Seq(Record) /\ indexFile \in File
  /\ moving \in Seq(Record) /\ lock \in {"free", "flush", "checkpoint"}
  /\ phase \in {"down", "opening", "clearing", "up", "failed"}
  /\ client \in [Client -> ClientState]
  /\ \A c \in Client : client[c].at # "idle" => client[c].id \in Id /\ client[c].vec \in Vec \cup {Gone}
  /\ live \in [Id -> Vec \cup {Gone, NoVec}] /\ touched \subseteq Id
  /\ seen \in [Id -> [gets : Vec \cup {NoVec}, finds : SUBSET Vec]]
  /\ count \in [{"op", "kill", "checkpoint"} -> Nat]

\* The engine fits the data file: an id leads to its last record there.
EngineInv ==
  /\ Sound(mem, Len(data))
  /\ \A i \in Id : mem.offsets[i] # 0 =>
       /\ data[mem.offsets[i]].id = i
       /\ \A q \in mem.offsets[i]+1..Len(data) : data[q].id # i

\* While the engine is not up nobody works on it and nothing has been taken in.
QuietInv ==
  phase # "up" =>
    /\ moving = <<>> /\ lock = "free" /\ live = NoPending
    /\ \A c \in Client : client[c] = Idle

\* A removed id does not wait for training and is not in the index.
RemovedInv ==
  \A i \in Id : live[i] = Gone =>
    /\ mem.pending[i] = NoVec
    /\ kind.removes => \A v \in Vec : <<i, v>> \notin mem.index

\* What has been queued for the data file or is in it ends with v.
Leads(i, v) ==
  \/ EndsWith(mem.buf, i, v)
  \/ Without(mem.buf, i) /\ EndsWith(moving, i, v)
  \/ Without(mem.buf, i) /\ Without(moving, i) /\ Gets(i) = v

\* The vector taken in last waits for training, or is in the index and on the
\* way that leads to the data file, behind every older one of its id.
LatestInv ==
  \A i \in Id : live[i] \in Vec =>
    IF mem.trained THEN <<i, live[i]>> \in mem.index /\ Leads(i, live[i])
    ELSE mem.pending[i] = live[i]

\* Without a log only a torn index file keeps the engine from being up, and of
\* an id that has not been touched the saved index has what the index has.
SavedInv ==
  ~kind.wal =>
    /\ phase \in {"up", "down"} \/ (phase = "failed" /\ indexFile.state = "torn")
    /\ Waiting(mem) \subseteq touched
    /\ indexFile.state # "torn" /\ phase = "up" =>
         \A i \in Id \ touched, v \in Vec : <<i, v>> \in mem.index <=> <<i, v>> \in indexFile.index

\* What clients found at the last kill is in the two files.
SeenInv ==
  phase = "down" => \A i \in Id :
    /\ seen[i].gets # NoVec => EndsWith(data, i, seen[i].gets)
    /\ ~kind.wal /\ indexFile.state # "torn" /\ seen[i].finds # {} =>
         /\ ~Without(data, i)
         /\ i \notin touched => seen[i].finds = {v \in Vec : <<i, v>> \in indexFile.index}

-----------------------------------------------------------------------------
(* Types.                                                                   *)

\* The engine of a process that has just begun.
LEMMA EmptyIs ==
  ASSUME NEW n \in Nat
  PROVE  /\ Sound(Empty, n)
         /\ Empty.pending = NoPending /\ Empty.offsets = [i \in Id |-> 0]
         /\ Empty.buf = <<>> /\ Empty.index = {} /\ Waiting(Empty) = {}
<1>1. Waiting(Empty) = {}
  BY DEF Waiting, Empty, NoPending
<1>2. Empty \in Engine(n)
  <2>1. NoPending \in [Id -> Vec \cup {NoVec}] /\ {} \in Index /\ <<>> \in Seq(Record)
    BY DEF NoPending, Index
  <2>2. (kind.train = 0) \in BOOLEAN /\ [i \in Id |-> 0] \in [Id -> 0..n]
    OBVIOUS
  <2> HIDE DEF NoPending, Index, Record
  <2> QED BY <2>1, <2>2 DEF Empty, Engine
<1>3. IsFiniteSet(Waiting(Empty))
  BY <1>1, FS_EmptySet
<1> QED BY <1>1, <1>2, <1>3 DEF Sound, Empty

\* The engine NewVectorEngine makes of the two files.
LEMMA OpenedIs ==
  ASSUME data \in Seq(Record), indexFile \in File
  PROVE  /\ Sound(Opened, Len(data))
         /\ Opened.pending = NoPending /\ Opened.offsets = Rebuilt
         /\ Opened.buf = <<>> /\ Opened.index = indexFile.index /\ Waiting(Opened) = {}
<1>1. Len(data) \in Nat
  OBVIOUS
<1>2. Rebuilt \in [Id -> 0..Len(data)]
  BY RebuiltIs
<1>3. indexFile.index \in Index /\ indexFile.trained \in BOOLEAN
  BY DEF File
<1> DEFINE t == Empty.trained \/ indexFile.trained
<1>4. t \in BOOLEAN
  OBVIOUS
<1>5. Opened = [Empty EXCEPT !.index = indexFile.index, !.trained = t, !.offsets = Rebuilt]
  BY Zenon DEF Opened
<1> HIDE DEF t, Rebuilt
<1>6. /\ Empty \in Engine(Len(data)) /\ Empty.pending = NoPending /\ Empty.buf = <<>>
      /\ Waiting(Empty) = {}
  BY <1>1, EmptyIs DEF Sound
<1> HIDE DEF NoPending, Empty
<1>7. Opened = [index |-> indexFile.index, trained |-> t, pending |-> Empty.pending,
                pool |-> Empty.pool, offsets |-> Rebuilt, buf |-> Empty.buf]
  BY <1>5, <1>6 DEF Engine
<1>8. Opened \in Engine(Len(data))
  BY <1>2, <1>3, <1>4, <1>6, <1>7 DEF Engine
<1>9. Waiting(Opened) = {}
  BY <1>6, <1>7 DEF Waiting
<1>10. IsFiniteSet(Waiting(Opened))
  BY <1>9, FS_EmptySet
<1> QED BY <1>6, <1>7, <1>8, <1>9, <1>10 DEF Sound

LEMMA GetsType ==
  ASSUME RestInv, EngineInv, NEW i \in Id
  PROVE  Gets(i) \in Vec \cup {NoVec} /\ Finds(i) \in SUBSET Vec
<1>1. mem.offsets[i] \in 0..Len(data) /\ data \in Seq(Record)
  BY EngineFields DEF RestInv, EngineInv, Sound
<1>2. mem.offsets[i] # 0 => data[mem.offsets[i]] \in Record
  BY <1>1
<1>3. mem.offsets[i] # 0 => data[mem.offsets[i]].vec \in Vec
  BY <1>2 DEF Record
<1> QED BY <1>3 DEF Gets, Finds

LEMMA CountType ==
  ASSUME RestInv, NEW e \in {"op", "kill", "checkpoint"}, NEW max, Counted(e, max)
  PROVE  count' \in [{"op", "kill", "checkpoint"} -> Nat]
BY DEF RestInv, Counted

\* The types, action by action.
LEMMA RestStep ==
  ASSUME RestInv, EngineInv, [Next]_vars
  PROVE  RestInv'
<1> USE DEF RestInv
<1>a. Idle \in ClientState /\ NoPending \in [Id -> Vec \cup {Gone, NoVec}]
  BY DEF Idle, ClientState, NoPending
<1>b. Torn \in File
  BY DEF Torn, File, Index
<1>c. Saved \in File
  BY EngineFields DEF EngineInv, Sound, Saved, File
<1>1. ASSUME NEW c \in Client, NEW i \in Id, NEW v \in Vec \cup {Gone}, Call(c, i, v) PROVE RestInv'
  <2> DEFINE now == [at |-> "ingest", id |-> i, vec |-> v]
  <2>1. now \in ClientState
    BY VectorAssumption DEF ClientState
  <2>2. /\ client' = [client EXCEPT ![c] = now]
        /\ UNCHANGED <<kind, data, indexFile, mem, moving, lock, phase, live, touched, seen>>
    BY <1>1 DEF Call, history
  <2>3. count' \in [{"op", "kill", "checkpoint"} -> Nat]
    BY <1>1, CountType DEF Call
  <2>4. now.at = "ingest" /\ now.id = i /\ now.vec = v
    OBVIOUS
  <2> HIDE DEF now
  <2>5. client' \in [Client -> ClientState]
    BY <2>1, <2>2
  <2>6. \A d \in Client : client'[d].at # "idle" =>
          client'[d].id \in Id /\ client'[d].vec \in Vec \cup {Gone}
    BY <2>2, <2>4
  <2> QED BY <2>2, <2>3, <2>5, <2>6
<1>2. ASSUME NEW c \in Client, Ingest(c) PROVE RestInv'
  <2> DEFINE now == IF kind.wal THEN [client[c] EXCEPT !.at = "commit"] ELSE Idle
  <2>1. client[c].id \in Id /\ client[c].vec \in Vec \cup {Gone} /\ client[c] \in ClientState
    BY <1>2 DEF Ingest
  <2>2. now \in ClientState /\ (now.at # "idle" => now.id = client[c].id /\ now.vec = client[c].vec)
    BY <1>a, <2>1 DEF ClientState, Idle
  <2>3. /\ client' = [client EXCEPT ![c] = now]
        /\ live' = [live EXCEPT ![client[c].id] = client[c].vec]
        /\ touched' = touched \cup {client[c].id}
        /\ UNCHANGED <<kind, data, indexFile, moving, lock, phase, seen, count>>
    BY <1>2, Zenon DEF Ingest
  <2> HIDE DEF now
  <2>4. client' \in [Client -> ClientState]
    BY <2>2, <2>3
  <2>5. \A d \in Client : client'[d].at # "idle" =>
          client'[d].id \in Id /\ client'[d].vec \in Vec \cup {Gone}
    BY <2>1, <2>2, <2>3
  <2>6. live' \in [Id -> Vec \cup {Gone, NoVec}] /\ touched' \subseteq Id
    BY <2>1, <2>3
  <2> QED BY <2>3, <2>4, <2>5, <2>6
<1>3. ASSUME NEW c \in Client, Commit(c) PROVE RestInv'
  <2>1. /\ client' = [client EXCEPT ![c] = Idle]
        /\ UNCHANGED <<kind, data, indexFile, mem, moving, lock, phase, live, touched, seen, count>>
    BY <1>3 DEF Commit, history
  <2>2. client' \in [Client -> ClientState]
    BY <1>a, <2>1
  <2>3. \A d \in Client : client'[d].at # "idle" =>
          client'[d].id \in Id /\ client'[d].vec \in Vec \cup {Gone}
    BY <2>1 DEF Idle
  <2> QED BY <2>1, <2>2, <2>3
<1>4. ASSUME FlushTake PROVE RestInv'
  <2>1. mem.buf \in Seq(Record)
    BY EngineFields DEF EngineInv, Sound
  <2> QED BY <1>4, <2>1 DEF FlushTake, history
<1>5. ASSUME FlushLock PROVE RestInv'
  BY <1>5 DEF FlushLock, history
<1>6. ASSUME FlushAppend PROVE RestInv'
  <2>1. Head(moving) \in Record /\ Tail(moving) \in Seq(Record)
    BY <1>6 DEF FlushAppend
  <2>2. Append(data, Head(moving)) \in Seq(Record)
    BY <2>1
  <2> QED BY <1>6, <2>1, <2>2 DEF FlushAppend, history
<1>7. ASSUME FlushUnlock PROVE RestInv'
  BY <1>7 DEF FlushUnlock, history
<1>8. ASSUME CheckpointStart PROVE RestInv'
  <2>1. count' \in [{"op", "kill", "checkpoint"} -> Nat]
    BY <1>8, CountType DEF CheckpointStart
  <2> QED BY <1>8, <1>b, <2>1 DEF CheckpointStart, history
<1>9. ASSUME CheckpointEnd PROVE RestInv'
  BY <1>9, <1>c DEF CheckpointEnd, Waiting
<1>10. ASSUME Kill PROVE RestInv'
  <2>1. count' \in [{"op", "kill", "checkpoint"} -> Nat]
    BY <1>10, CountType DEF Kill
  <2>2. seen' \in [Id -> [gets : Vec \cup {NoVec}, finds : SUBSET Vec]]
    BY <1>10, GetsType DEF Kill
  <2>3. client' \in [Client -> ClientState] /\ \A c \in Client : client'[c].at = "idle"
    BY <1>10, <1>a DEF Kill, Idle
  <2>4. live' \in [Id -> Vec \cup {Gone, NoVec}]
    BY <1>10, <1>a DEF Kill
  <2> QED BY <1>10, <2>1, <2>2, <2>3, <2>4 DEF Kill
<1>11. ASSUME Start PROVE RestInv'
  <2>1. /\ UNCHANGED <<kind, data, moving, lock, client, live, seen, count>>
        /\ phase' \in {"failed", "up", "opening"}
        /\ indexFile' \in {indexFile, Torn} /\ touched' \in {touched, {}}
    BY <1>11, Zenon DEF Start
  <2> QED BY <1>b, <2>1
<1>12. ASSUME StartSaves PROVE RestInv'
  BY <1>12, <1>c DEF StartSaves, history
<1>13. ASSUME StartClears PROVE RestInv'
  BY <1>13 DEF StartClears, history
<1>14. ASSUME UNCHANGED vars PROVE RestInv'
  BY <1>14 DEF vars, history
<1> QED BY <1>1, <1>2, <1>3, <1>4, <1>5, <1>6, <1>7, <1>8, <1>9, <1>10, <1>11, <1>12, <1>13, <1>14,
        Zenon DEF Next, ClientStep, FlushStep, OpenStep

\* A longer data file.
LEMMA SoundGrows ==
  ASSUME NEW n \in Nat, NEW m, Sound(m, n)
  PROVE  Sound(m, n + 1)
<1>1. m.offsets \in [Id -> 0..n + 1]
  <2>1. m.offsets \in [Id -> 0..n]
    BY EngineFields DEF Sound
  <2> QED BY <2>1
<1>2. m \in Engine(n + 1)
  BY <1>1 DEF Sound, Engine
<1> QED BY <1>2 DEF Sound

\* What Start makes the engine of: of the two files, or nothing changes.
LEMMA StartIs ==
  ASSUME RestInv, Wal!WALTypeOK, Start
  PROVE  /\ phase = "down"
         /\ mem' = mem \/ Replayed(mem', Len(data))
         /\ phase' = "up" => Replayed(mem', Len(data))
         /\ phase' = "up" /\ ~kind.wal =>
              indexFile.state # "torn" /\ mem' = Opened /\ UNCHANGED indexFile
<1>0. Len(data) \in Nat /\ Sound(Opened, Len(data)) /\ phase = "down"
  <2>1. data \in Seq(Record) /\ indexFile \in File
    BY DEF RestInv
  <2>2. Sound(Opened, Len(data))
    BY <2>1, OpenedIs
  <2>3. phase = "down"
    BY Zenon DEF Start
  <2>4. Len(data) \in Nat
    BY <2>1
  <2> QED BY <2>2, <2>3, <2>4
<1>a. Replayed(Opened, Len(data))
  BY <1>0 DEF Replayed
<1>1. CASE indexFile.state = "torn"
  BY <1>0, <1>1 DEF Start
<1>2. CASE indexFile.state # "torn" /\ ~kind.wal
  BY <1>0, <1>a, <1>2 DEF Start
<1>3. CASE indexFile.state # "torn" /\ kind.wal
  <2>1. PICK result \in Wal!ReplayResults :
          IF ~result.ok \/ result.blank
          THEN phase' = "failed" /\ UNCHANGED <<mem, indexFile>>
          ELSE /\ mem' = FoldLeft(LAMBDA m, e : After(m, e.key, e.val), Opened, result.entries)
               /\ IF result.entries = <<>>
                  THEN phase' = "up" /\ UNCHANGED indexFile
                  ELSE phase' = "opening" /\ indexFile' = Torn
    BY <1>3, Zenon DEF Start
  <2>2. result.entries \in Seq(LogEntry)
    BY ReplayedType
  <2>3. Replayed(FoldLeft(LAMBDA m, e : After(m, e.key, e.val), Opened, result.entries), Len(data))
    BY <1>0, <2>2, ReplayedSound
  <2>4. CASE ~result.ok \/ result.blank
    BY <1>0, <1>3, <2>1, <2>4
  <2>5. CASE ~(~result.ok \/ result.blank)
    <3>1. Replayed(mem', Len(data))
      BY <2>1, <2>3, <2>5, Zenon
    <3> QED BY <1>0, <1>3, <3>1
  <2> QED BY <2>4, <2>5
<1> QED BY <1>1, <1>2, <1>3

\* The engine stays sound, and an id leads to its last record in the data file.
LEMMA EngineStep ==
  ASSUME RestInv, EngineInv, Wal!WALTypeOK, [Next]_vars
  PROVE  EngineInv'
<1>a. data \in Seq(Record) /\ Len(data) \in Nat /\ DOMAIN data = 1..Len(data)
  BY DEF RestInv
<1>b. Sound(mem, Len(data))
  BY DEF EngineInv
<1>1. ASSUME NEW c \in Client, Ingest(c) PROVE EngineInv'
  <2>1. /\ client[c].id \in Id /\ client[c].vec \in Vec \cup {Gone}
        /\ mem' = After(mem, client[c].id, client[c].vec) /\ UNCHANGED data
    BY <1>1 DEF Ingest, RestInv
  <2>2. Sound(mem', Len(data)) /\ \A j \in Id : mem'.offsets[j] \in {0, mem.offsets[j]}
    BY <1>a, <1>b, <2>1, AfterSound
  <2> QED BY <2>1, <2>2 DEF EngineInv
<1>2. ASSUME FlushTake PROVE EngineInv'
  <2>1. mem' = [mem EXCEPT !.buf = <<>>] /\ UNCHANGED data
    BY <1>2 DEF FlushTake
  <2>2. mem'.offsets = mem.offsets /\ mem'.pending = mem.pending /\ mem'.trained = mem.trained
    BY <1>b, <2>1 DEF Sound, Engine
  <2>3. mem' \in Engine(Len(data))
    <3>1. <<>> \in Seq(Record)
      OBVIOUS
    <3> HIDE DEF Record
    <3> QED BY <1>b, <2>1, <3>1 DEF Sound, Engine
  <2>4. Waiting(mem') = Waiting(mem)
    BY <2>2 DEF Waiting
  <2>5. Sound(mem', Len(data))
    BY <1>b, <2>2, <2>3, <2>4 DEF Sound
  <2> QED BY <2>1, <2>2, <2>5 DEF EngineInv
<1>3. ASSUME FlushAppend PROVE EngineInv'
  <2> DEFINE r == Head(moving)
             n == Len(data)
             o == [mem.offsets EXCEPT ![r.id] = n + 1]
  <2>1. r \in Record /\ data' = Append(data, r) /\ mem' = [mem EXCEPT !.offsets = o]
    BY <1>3 DEF FlushAppend, RestInv
  <2>2. /\ Len(data') = n + 1 /\ data'[n + 1] = r /\ \A p \in 1..n : data'[p] = data[p]
    BY <1>a, <2>1
  <2>3. Sound(mem, n + 1) /\ r.id \in Id
    BY <1>a, <1>b, <2>1, SoundGrows DEF Record
  <2>4. mem.offsets \in [Id -> 0..n]
    BY <1>a, <1>b, EngineFields DEF Sound
  <2>5. o \in [Id -> 0..n + 1] /\ o[r.id] = n + 1 /\ \A j \in Id : j # r.id => o[j] = mem.offsets[j]
    BY <1>a, <2>3, <2>4
  <2> HIDE DEF r, o, n
  <2>6. mem'.offsets = o /\ mem'.pending = mem.pending /\ mem'.trained = mem.trained
    BY <2>1, <2>3 DEF Sound, Engine
  <2>7. mem' \in Engine(n + 1)
    BY <2>1, <2>3, <2>5 DEF Sound, Engine
  <2>8. Waiting(mem') = Waiting(mem)
    BY <2>6 DEF Waiting
  <2>9. Sound(mem', Len(data'))
    BY <2>2, <2>3, <2>6, <2>7, <2>8 DEF Sound
  <2>10. ASSUME NEW i \in Id, o[i] # 0
         PROVE  data'[o[i]].id = i /\ \A q \in o[i]+1..Len(data') : data'[q].id # i
    <3>1. CASE i = r.id
      BY <1>a, <2>2, <2>5, <3>1 DEF n
    <3>2. CASE i # r.id
      <4>1. o[i] = mem.offsets[i] /\ o[i] \in 1..n
        BY <1>a, <2>4, <2>5, <2>10, <3>2 DEF n
      <4>2. data[o[i]].id = i /\ \A q \in o[i]+1..n : data[q].id # i
        BY <2>10, <4>1 DEF EngineInv, n
      <4>3. \A q \in o[i]+1..n + 1 : q = n + 1 \/ (q \in o[i]+1..n /\ q \in 1..n)
        BY <1>a, <4>1 DEF n
      <4> QED BY <2>2, <3>2, <4>1, <4>2, <4>3
    <3> QED BY <3>1, <3>2
  <2> QED BY <2>6, <2>9, <2>10 DEF EngineInv
<1>4. ASSUME Kill PROVE EngineInv'
  <2>1. mem' = Empty /\ UNCHANGED data
    BY <1>4 DEF Kill
  <2>2. Sound(mem', Len(data)) /\ \A i \in Id : mem'.offsets[i] = 0
    BY <1>a, <2>1, EmptyIs
  <2> QED BY <2>1, <2>2 DEF EngineInv
<1>5. ASSUME Start PROVE EngineInv'
  <2>1. UNCHANGED data /\ (mem' = mem \/ Replayed(mem', Len(data)))
    BY <1>5, StartIs DEF Start
  <2>2. CASE mem' = mem
    BY <2>1, <2>2 DEF EngineInv
  <2>3. CASE Replayed(mem', Len(data))
    <3>1. Sound(mem', Len(data)) /\ \A j \in Id : mem'.offsets[j] \in {0, Rebuilt[j]}
      BY <2>3, OpenedIs DEF Replayed, RestInv
    <3>2. \A i \in Id : Rebuilt[i] # 0 =>
            data[Rebuilt[i]].id = i /\ \A q \in Rebuilt[i]+1..Len(data) : data[q].id # i
      BY <1>a, RebuiltIs
    <3>3. \A i \in Id : mem'.offsets[i] # 0 => mem'.offsets[i] = Rebuilt[i]
      BY <3>1
    <3> HIDE DEF Rebuilt
    <3> QED BY <2>1, <3>1, <3>2, <3>3 DEF EngineInv
  <2> QED BY <2>1, <2>2, <2>3
<1>6. ASSUME UNCHANGED <<mem, data>> PROVE EngineInv'
  BY <1>6 DEF EngineInv
<1>7. ASSUME NEW c \in Client, NEW i \in Id, NEW v \in Vec \cup {Gone}, Call(c, i, v)
      PROVE  UNCHANGED <<mem, data>>
  BY <1>7 DEF Call
<1>8. ASSUME NEW c \in Client, Commit(c) PROVE UNCHANGED <<mem, data>>
  BY <1>8 DEF Commit
<1>9. FlushLock \/ FlushUnlock \/ CheckpointStart \/ CheckpointEnd \/ StartSaves \/ StartClears
      => UNCHANGED <<mem, data>>
  BY DEF FlushLock, FlushUnlock, CheckpointStart, CheckpointEnd, StartSaves, StartClears
<1>10. UNCHANGED vars => UNCHANGED <<mem, data>>
  BY DEF vars
<1> QED BY <1>1, <1>2, <1>3, <1>4, <1>5, <1>6, <1>7, <1>8, <1>9, <1>10, Zenon
        DEF Next, ClientStep, FlushStep, OpenStep

\* Nobody works on an engine that is not up.
LEMMA QuietStep ==
  ASSUME QuietInv, [Next]_vars
  PROVE  QuietInv'
<1> DEFINE at == <<moving, lock, live, client>>
<1>1. ASSUME NEW c \in Client, NEW i \in Id, NEW v \in Vec \cup {Gone}, Call(c, i, v) PROVE QuietInv'
  BY <1>1 DEF QuietInv, Call
<1>2. ASSUME NEW c \in Client, Ingest(c) PROVE QuietInv'
  <2>1. client[c] # Idle /\ UNCHANGED phase
    BY <1>2 DEF Ingest, Idle
  <2> QED BY <2>1 DEF QuietInv
<1>3. ASSUME NEW c \in Client, Commit(c) PROVE QuietInv'
  <2>1. client[c] # Idle /\ UNCHANGED phase
    BY <1>3 DEF Commit, Idle
  <2> QED BY <2>1 DEF QuietInv
<1>4. ASSUME FlushTake \/ CheckpointStart PROVE QuietInv'
  BY <1>4 DEF QuietInv, FlushTake, CheckpointStart
<1>5. ASSUME FlushLock \/ FlushAppend \/ FlushUnlock \/ CheckpointEnd PROVE QuietInv'
  BY <1>5 DEF QuietInv, FlushLock, FlushAppend, FlushUnlock, CheckpointEnd
<1>6. ASSUME Kill PROVE QuietInv'
  <2>1. moving' = <<>> /\ lock' = "free" /\ live' = NoPending /\ client' = [c \in Client |-> Idle]
    BY <1>6 DEF Kill
  <2> QED BY <2>1 DEF QuietInv, NoPending, Idle
<1>7. ASSUME OpenStep PROVE QuietInv'
  <2>1. UNCHANGED at
    BY <1>7, Zenon DEF OpenStep, Start, StartSaves, StartClears, history
  <2>2. phase # "up"
    BY <1>7, Zenon DEF OpenStep, Start, StartSaves, StartClears
  <2>3. moving' = moving /\ lock' = lock /\ live' = live /\ client' = client
    BY <2>1
  <2> QED BY <2>2, <2>3 DEF QuietInv, NoPending, Idle
<1>8. ASSUME UNCHANGED vars PROVE QuietInv'
  BY <1>8 DEF vars, history, QuietInv, NoPending, Idle
<1> QED BY <1>1, <1>2, <1>3, <1>4, <1>5, <1>6, <1>7, <1>8, Zenon DEF Next, ClientStep, FlushStep

\* The steps that leave what an insert or removal is about.
LEMMA OtherSteps ==
  ASSUME [Next]_vars
  PROVE  \/ \E c \in Client : Ingest(c)
         \/ FlushTake \/ FlushAppend \/ Kill \/ Start
         \/ UNCHANGED <<kind, data, mem, moving, live>>
<1>1. ASSUME NEW c \in Client, NEW i \in Id, NEW v \in Vec \cup {Gone}, Call(c, i, v)
      PROVE  UNCHANGED <<kind, data, mem, moving, live>>
  BY <1>1, Zenon DEF Call, history
<1>2. ASSUME NEW c \in Client, Commit(c) PROVE UNCHANGED <<kind, data, mem, moving, live>>
  BY <1>2, Zenon DEF Commit, history
<1>3. ASSUME FlushLock \/ FlushUnlock \/ CheckpointStart \/ CheckpointEnd \/ StartSaves \/ StartClears
      PROVE  UNCHANGED <<kind, data, mem, moving, live>>
  BY <1>3, Zenon DEF FlushLock, FlushUnlock, CheckpointStart, CheckpointEnd, StartSaves, StartClears, history
<1>4. ASSUME UNCHANGED vars PROVE UNCHANGED <<kind, data, mem, moving, live>>
  BY <1>4 DEF vars, history
<1> QED BY <1>1, <1>2, <1>3, <1>4, Zenon DEF Next, ClientStep, FlushStep, OpenStep

\* A removed id stays out of search.
LEMMA RemovedStep ==
  ASSUME RestInv, EngineInv, QuietInv, RemovedInv, [Next]_vars
  PROVE  RemovedInv'
<1>a. Len(data) \in Nat /\ Sound(mem, Len(data)) /\ live \in [Id -> Vec \cup {Gone, NoVec}]
  BY DEF RestInv, EngineInv
<1>b. ASSUME live' = NoPending PROVE RemovedInv'
  BY <1>b DEF RemovedInv, NoPending, Gone, NoVec
<1>1. ASSUME NEW c \in Client, Ingest(c) PROVE RemovedInv'
  <2> DEFINE i == client[c].id
             v == client[c].vec
  <2>1. /\ i \in Id /\ v \in Vec \cup {Gone} /\ mem' = After(mem, i, v)
        /\ live' = [live EXCEPT ![i] = v] /\ UNCHANGED kind
    BY <1>1 DEF Ingest, RestInv
  <2> HIDE DEF i, v
  <2> SUFFICES ASSUME NEW j \in Id, live'[j] = Gone
               PROVE  /\ mem'.pending[j] = NoVec
                      /\ kind.removes => \A w \in Vec : <<j, w>> \notin mem'.index
    BY <2>1 DEF RemovedInv
  <2>2. CASE j = i
    <3>1. v = Gone
      BY <1>a, <2>1, <2>2
    <3> QED BY <1>a, <2>1, <2>2, <3>1, AfterRemoved
  <2>3. CASE j # i
    <3>1. live[j] = Gone
      BY <1>a, <2>1, <2>3
    <3>2. mem.pending[j] = NoVec /\ (kind.removes => \A w \in Vec : <<j, w>> \notin mem.index)
      BY <3>1 DEF RemovedInv
    <3>3. ASSUME NEW w \in Vec
          PROVE  mem'.pending[j] = NoVec /\ (<<j, w>> \in mem'.index <=> <<j, w>> \in mem.index)
      BY <1>a, <2>1, <2>3, <3>2, AfterOther
    <3>4. mem'.pending[j] = NoVec
      BY <1>a, <2>1, <2>3, <3>2, AfterOtherPending
    <3> QED BY <3>2, <3>3, <3>4
  <2> QED BY <2>2, <2>3
<1>2. ASSUME FlushTake PROVE RemovedInv'
  <2>1. mem' = [mem EXCEPT !.buf = <<>>] /\ UNCHANGED <<kind, live>>
    BY <1>2 DEF FlushTake, history
  <2>2. mem'.pending = mem.pending /\ mem'.index = mem.index
    BY <1>a, <2>1 DEF Sound, Engine
  <2> QED BY <2>1, <2>2 DEF RemovedInv
<1>3. ASSUME FlushAppend PROVE RemovedInv'
  <2> DEFINE o == [mem.offsets EXCEPT ![Head(moving).id] = Len(data) + 1]
  <2>1. mem' = [mem EXCEPT !.offsets = o] /\ UNCHANGED <<kind, live>>
    BY <1>3, Zenon DEF FlushAppend, history
  <2> HIDE DEF o
  <2>2. mem'.pending = mem.pending /\ mem'.index = mem.index
    BY <1>a, <2>1 DEF Sound, Engine
  <2> QED BY <2>1, <2>2 DEF RemovedInv
<1>4. ASSUME Kill PROVE RemovedInv'
  BY <1>4, <1>b DEF Kill
<1>5. ASSUME Start PROVE RemovedInv'
  <2>1. phase = "down" /\ UNCHANGED live
    BY <1>5, Zenon DEF Start
  <2>2. live' = NoPending
    BY <2>1 DEF QuietInv
  <2> QED BY <1>b, <2>2
<1>6. ASSUME UNCHANGED <<kind, data, mem, moving, live>> PROVE RemovedInv'
  BY <1>6 DEF RemovedInv
<1> QED BY <1>1, <1>2, <1>3, <1>4, <1>5, <1>6, OtherSteps

\* The last vector taken in waits, or is in the index and leads its id.
LEMMA LatestStep ==
  ASSUME RestInv, EngineInv, QuietInv, LatestInv, [Next]_vars
  PROVE  LatestInv'
<1>a. /\ Len(data) \in Nat /\ Sound(mem, Len(data)) /\ live \in [Id -> Vec \cup {Gone, NoVec}]
      /\ moving \in Seq(Record) /\ data \in Seq(Record)
  BY DEF RestInv, EngineInv
<1>b. mem \in Engine(Len(data)) /\ mem.buf \in Seq(Record) /\ mem.offsets \in [Id -> 0..Len(data)]
  BY <1>a, EngineFields DEF Sound
<1>c. ASSUME live' = NoPending PROVE LatestInv'
  BY <1>c, VecIs DEF LatestInv, NoPending
<1>1. ASSUME NEW c \in Client, Ingest(c) PROVE LatestInv'
  <2> DEFINE i == client[c].id
             v == client[c].vec
  <2>1. /\ i \in Id /\ v \in Vec \cup {Gone} /\ mem' = After(mem, i, v)
        /\ live' = [live EXCEPT ![i] = v] /\ UNCHANGED <<data, moving>>
    BY <1>1 DEF Ingest, RestInv
  <2> HIDE DEF i, v
  <2> SUFFICES ASSUME NEW j \in Id, NEW w \in Vec, live'[j] = w
               PROVE  IF mem'.trained THEN <<j, w>> \in mem'.index /\ Leads(j, w)'
                      ELSE mem'.pending[j] = w
    BY DEF LatestInv
  <2>2. CASE j = i
    <3>1. v = w
      BY <1>a, <2>1, <2>2
    <3>2. Taken(mem', j, w)
      BY <1>a, <2>1, <2>2, <3>1, AfterTaken
    <3> QED BY <3>2 DEF Taken, Leads
  <2>3. CASE j # i
    <3>1. live[j] = w
      BY <1>a, <2>1, <2>3
    <3>2. mem.trained => <<j, w>> \in mem.index /\ Leads(j, w)
      BY <3>1 DEF LatestInv
    <3>3. ~mem.trained => mem.pending[j] = w
      BY <3>1 DEF LatestInv
    <3>4. /\ mem.trained /\ <<j, w>> \in mem.index => mem'.trained /\ <<j, w>> \in mem'.index
          /\ mem.trained /\ EndsWith(mem.buf, j, w) => EndsWith(mem'.buf, j, w)
          /\ mem.trained /\ Without(mem.buf, j) => Without(mem'.buf, j)
          /\ ~mem.trained /\ mem.pending[j] = w => Taken(mem', j, w)
          /\ mem'.offsets[j] = mem.offsets[j]
      BY <1>a, <2>1, <2>3, AfterOther
    <3>5. Gets(j) = w => Gets(j)' = w
      BY <2>1, <3>4 DEF Gets
    <3>6. CASE mem.trained
      <4>1. mem'.trained /\ <<j, w>> \in mem'.index /\ Leads(j, w)
        BY <3>2, <3>4, <3>6
      <4>2. Leads(j, w)'
        BY <2>1, <3>4, <3>5, <3>6, <4>1 DEF Leads, EndsWith, Without
      <4> QED BY <4>1, <4>2
    <3>7. CASE ~mem.trained
      BY <3>3, <3>4, <3>7 DEF Taken, Leads
    <3> QED BY <3>6, <3>7
  <2> QED BY <2>2, <2>3
<1>2. ASSUME FlushTake PROVE LatestInv'
  <2>1. /\ mem' = [mem EXCEPT !.buf = <<>>] /\ UNCHANGED <<data, live>>
        /\ moving = <<>> /\ moving' = mem.buf
    BY <1>2 DEF FlushTake, history
  <2>2. /\ mem'.pending = mem.pending /\ mem'.index = mem.index /\ mem'.trained = mem.trained
        /\ mem'.offsets = mem.offsets /\ mem'.buf = <<>>
    BY <1>b, <2>1 DEF Engine
  <2>3. \A i \in Id, v \in Vec : ~EndsWith(<<>>, i, v) /\ Without(<<>>, i)
    BY DEF EndsWith, Without
  <2>4. \A i \in Id : Gets(i)' = Gets(i)
    BY <2>1, <2>2 DEF Gets
  <2>5. ASSUME NEW i \in Id, NEW v \in Vec, Leads(i, v) PROVE Leads(i, v)'
    BY <2>1, <2>2, <2>3, <2>4, <2>5 DEF Leads, EndsWith, Without
  <2> QED BY <2>1, <2>2, <2>5 DEF LatestInv
<1>3. ASSUME FlushAppend PROVE LatestInv'
  <2> DEFINE r == Head(moving)
             n == Len(data)
             o == [mem.offsets EXCEPT ![r.id] = n + 1]
  <2>1. /\ moving # <<>> /\ moving' = Tail(moving) /\ data' = Append(data, r)
        /\ mem' = [mem EXCEPT !.offsets = o] /\ UNCHANGED live
    BY <1>3 DEF FlushAppend, history
  <2>2. r \in Record /\ r.id \in Id
    <3>1. \A s \in Seq(Record) : s # <<>> => Head(s) \in Record
      OBVIOUS
    <3>2. r \in Record
      BY <1>a, <2>1, <3>1
    <3> QED BY <3>2 DEF Record
  <2>3. n \in Nat /\ data'[n + 1] = r /\ \A p \in 1..n : data'[p] = data[p]
    BY <1>a, <2>1, <2>2
  <2>4. o[r.id] = n + 1 /\ \A j \in Id : j # r.id => o[j] = mem.offsets[j]
    BY <1>b, <2>2
  <2>5. \A j \in Id : mem.offsets[j] \in 0..n
    BY <1>b
  <2> HIDE DEF o, r, n
  <2>6. /\ mem'.pending = mem.pending /\ mem'.index = mem.index /\ mem'.trained = mem.trained
        /\ mem'.offsets = o /\ mem'.buf = mem.buf
    BY <1>b, <2>1 DEF Engine
  <2>7. ASSUME NEW i \in Id, NEW v \in Vec, Leads(i, v) PROVE Leads(i, v)'
    <3>1. r = [id |-> i, vec |-> v] => Gets(i)' = v
      <4> SUFFICES ASSUME r = [id |-> i, vec |-> v] PROVE Gets(i)' = v
        OBVIOUS
      <4>1. r.id = i /\ r.vec = v
        OBVIOUS
      <4>2. mem'.offsets[i] = n + 1 /\ n + 1 # 0 /\ data'[n + 1].vec = v
        BY <2>3, <2>4, <2>6, <4>1
      <4> QED BY <4>2 DEF Gets
    <3>2. r.id # i => Gets(i)' = Gets(i)
      <4> SUFFICES ASSUME r.id # i PROVE Gets(i)' = Gets(i)
        OBVIOUS
      <4>1. mem'.offsets[i] = mem.offsets[i]
        BY <2>4, <2>6
      <4>2. mem.offsets[i] # 0 => data'[mem.offsets[i]] = data[mem.offsets[i]]
        BY <2>3, <2>5
      <4> QED BY <4>1, <4>2 DEF Gets
    <3>3. /\ EndsWith(moving, i, v) =>
               EndsWith(moving', i, v) \/ (Without(moving', i) /\ r = [id |-> i, vec |-> v])
          /\ Without(moving, i) => Without(moving', i) /\ r.id # i
      BY <1>a, <2>1, EndsTail DEF r
    <3> QED BY <2>6, <2>7, <3>1, <3>2, <3>3 DEF Leads, EndsWith, Without
  <2> QED BY <2>1, <2>6, <2>7 DEF LatestInv
<1>4. ASSUME Kill PROVE LatestInv'
  BY <1>4, <1>c DEF Kill
<1>5. ASSUME Start PROVE LatestInv'
  <2>1. phase = "down" /\ UNCHANGED live
    BY <1>5, Zenon DEF Start
  <2>2. live' = NoPending
    BY <2>1 DEF QuietInv
  <2> QED BY <1>c, <2>2
<1>6. ASSUME UNCHANGED <<kind, data, mem, moving, live>> PROVE LatestInv'
  BY <1>6 DEF LatestInv, Leads, EndsWith, Without, Gets
<1> QED BY <1>1, <1>2, <1>3, <1>4, <1>5, <1>6, OtherSteps

\* A space keeps its kind.
LEMMA KindIsFixed ==
  ASSUME [Next]_vars
  PROVE  UNCHANGED kind
BY Zenon DEF Next, ClientStep, FlushStep, OpenStep, Call, Ingest, Commit, FlushTake, FlushLock,
   FlushAppend, FlushUnlock, CheckpointStart, CheckpointEnd, Kill, Start, StartSaves, StartClears, vars

\* Of untouched ids the saved index has what the index has.
LEMMA SavedStep ==
  ASSUME RestInv, EngineInv, QuietInv, SavedInv, Wal!WALTypeOK, [Next]_vars
  PROVE  SavedInv'
<1>a. /\ Len(data) \in Nat /\ Sound(mem, Len(data)) /\ touched \subseteq Id
      /\ data \in Seq(Record) /\ indexFile \in File
  BY DEF RestInv, EngineInv
<1>b. mem \in Engine(Len(data)) /\ mem.index \in Index
  BY <1>a, EngineFields DEF Sound
<1>c. UNCHANGED kind
  BY KindIsFixed
<1> SUFFICES ASSUME ~kind.wal PROVE SavedInv'
  BY <1>c DEF SavedInv
<1>d. /\ phase \in {"up", "down"} \/ (phase = "failed" /\ indexFile.state = "torn")
      /\ Waiting(mem) \subseteq touched
      /\ indexFile.state # "torn" /\ phase = "up" =>
           \A i \in Id \ touched, v \in Vec : <<i, v>> \in mem.index <=> <<i, v>> \in indexFile.index
  BY DEF SavedInv
<1>e. Torn.state = "torn"
  BY DEF Torn
<1>1. ASSUME NEW c \in Client, Ingest(c) PROVE SavedInv'
  <2> DEFINE i == client[c].id
             v == client[c].vec
  <2>1. /\ i \in Id /\ v \in Vec \cup {Gone} /\ mem' = After(mem, i, v)
        /\ touched' = touched \cup {i} /\ UNCHANGED <<phase, indexFile>>
    BY <1>1 DEF Ingest, RestInv
  <2> HIDE DEF i, v
  <2>2. Waiting(mem') \subseteq Waiting(mem) \cup {i}
    BY <1>a, <2>1, AfterSound
  <2>3. ASSUME NEW j \in Id \ touched', NEW w \in Vec
        PROVE  <<j, w>> \in mem'.index <=> <<j, w>> \in mem.index
    <3>1. mem.pending[j] = NoVec /\ j # i
      BY <1>d, <2>1, <2>3 DEF Waiting
    <3> QED BY <1>a, <2>1, <2>3, <3>1, AfterOther
  <2>4. Waiting(mem)' \subseteq touched'
    BY <1>d, <2>1, <2>2 DEF Waiting
  <2> QED BY <1>d, <2>1, <2>3, <2>4 DEF SavedInv
<1>2. ASSUME FlushTake \/ FlushAppend PROVE SavedInv'
  <2>1. UNCHANGED <<phase, indexFile, touched>>
    BY <1>2, Zenon DEF FlushTake, FlushAppend, history
  <2>2. \/ mem' = [mem EXCEPT !.buf = <<>>]
        \/ \E o : mem' = [mem EXCEPT !.offsets = o]
    BY <1>2, Zenon DEF FlushTake, FlushAppend
  <2>3. mem'.pending = mem.pending /\ mem'.index = mem.index
    BY <1>b, <2>2 DEF Engine
  <2> QED BY <1>d, <2>1, <2>3 DEF SavedInv, Waiting
<1>3. ASSUME CheckpointStart PROVE SavedInv'
  <2>1. UNCHANGED <<phase, mem, touched>> /\ indexFile' = Torn /\ phase = "up"
    BY <1>3 DEF CheckpointStart, history
  <2> QED BY <1>d, <1>e, <2>1 DEF SavedInv, Waiting
<1>4. ASSUME CheckpointEnd PROVE SavedInv'
  <2>1. /\ lock = "checkpoint" /\ indexFile' = Saved /\ touched' = Waiting(mem)
        /\ UNCHANGED <<phase, mem>>
    BY <1>4 DEF CheckpointEnd
  <2>2. phase = "up"
    BY <2>1 DEF QuietInv
  <2>3. indexFile'.index = mem.index
    BY <2>1 DEF Saved
  <2> QED BY <2>1, <2>2, <2>3 DEF SavedInv, Waiting
<1>5. ASSUME Kill PROVE SavedInv'
  <2>1. mem' = Empty /\ phase' = "down" /\ UNCHANGED touched
    BY <1>5 DEF Kill
  <2>2. Waiting(mem') = {}
    BY <1>a, <2>1, EmptyIs
  <2>3. Waiting(mem)' = {}
    BY <2>2 DEF Waiting
  <2> QED BY <2>1, <2>3 DEF SavedInv
<1>6. ASSUME Start PROVE SavedInv'
  <2>1. CASE indexFile.state = "torn"
    <3>1. phase' = "failed" /\ UNCHANGED <<mem, indexFile, touched>>
      BY <1>6, <2>1, Zenon DEF Start
    <3> QED BY <1>d, <2>1, <3>1 DEF SavedInv, Waiting
  <2>2. CASE indexFile.state # "torn"
    <3>1. phase' = "up" /\ mem' = Opened /\ UNCHANGED indexFile
      BY <1>6, <2>2, Zenon DEF Start
    <3>2. Opened.index = indexFile.index /\ Waiting(Opened) = {}
      BY <1>a, OpenedIs
    <3>3. Waiting(mem)' = {}
      BY <3>1, <3>2 DEF Waiting
    <3> QED BY <3>1, <3>2, <3>3 DEF SavedInv
  <2> QED BY <2>1, <2>2
<1>7. ASSUME StartSaves \/ StartClears PROVE SavedInv'
  BY <1>7, <1>d DEF StartSaves, StartClears
<1>8. ASSUME UNCHANGED <<phase, mem, indexFile, touched>> PROVE SavedInv'
  BY <1>8, <1>d DEF SavedInv, Waiting
<1>9. ASSUME NEW c \in Client, NEW i \in Id, NEW v \in Vec \cup {Gone}, Call(c, i, v)
      PROVE  UNCHANGED <<phase, mem, indexFile, touched>>
  BY <1>9, Zenon DEF Call, history
<1>10. ASSUME NEW c \in Client, Commit(c) PROVE UNCHANGED <<phase, mem, indexFile, touched>>
  BY <1>10, Zenon DEF Commit, history
<1>11. ASSUME FlushLock \/ FlushUnlock PROVE UNCHANGED <<phase, mem, indexFile, touched>>
  BY <1>11, Zenon DEF FlushLock, FlushUnlock, history
<1>12. ASSUME UNCHANGED vars PROVE UNCHANGED <<phase, mem, indexFile, touched>>
  BY <1>12 DEF vars, history
<1> QED BY <1>1, <1>2, <1>3, <1>4, <1>5, <1>6, <1>7, <1>8, <1>9, <1>10, <1>11, <1>12, Zenon
        DEF Next, ClientStep, FlushStep, OpenStep

\* Nothing happens to the files of a process that is not there.
LEMMA DownSteps ==
  ASSUME QuietInv, [Next]_vars
  PROVE  /\ phase' = "down" => Kill \/ UNCHANGED vars
         /\ phase = "down" /\ phase' = "up" => Start
<1>1. ASSUME NEW c \in Client, NEW i \in Id, NEW v \in Vec \cup {Gone}, Call(c, i, v)
      PROVE  phase = "up" /\ phase' = "up"
  BY <1>1 DEF Call
<1>2. ASSUME NEW c \in Client, ClientStep(c) PROVE phase = "up" /\ phase' = "up"
  <2>1. client[c] # Idle /\ UNCHANGED phase
    BY <1>2 DEF ClientStep, Ingest, Commit, Idle
  <2> QED BY <2>1 DEF QuietInv
<1>3. ASSUME FlushStep \/ CheckpointStart \/ CheckpointEnd PROVE phase = "up" /\ phase' = "up"
  BY <1>3 DEF FlushStep, FlushTake, FlushLock, FlushAppend, FlushUnlock,
              CheckpointStart, CheckpointEnd, QuietInv
<1>4. ASSUME Kill PROVE phase # "down" /\ phase' = "down"
  BY <1>4 DEF Kill
<1>5. ASSUME Start PROVE phase' # "down"
  BY <1>5, Zenon DEF Start
<1>6. ASSUME StartSaves \/ StartClears PROVE phase # "down" /\ phase' # "down"
  BY <1>6 DEF StartSaves, StartClears
<1>7. UNCHANGED vars => UNCHANGED phase
  BY DEF vars
<1> QED BY <1>1, <1>2, <1>3, <1>4, <1>5, <1>6, <1>7 DEF Next, OpenStep

\* What clients found at a kill stays in the files until the next start.
LEMMA SeenStep ==
  ASSUME RestInv, EngineInv, QuietInv, SavedInv, SeenInv, [Next]_vars
  PROVE  SeenInv'
<1>a. Len(data) \in Nat /\ Sound(mem, Len(data)) /\ data \in Seq(Record) /\ indexFile \in File
  BY DEF RestInv, EngineInv
<1>b. mem.offsets \in [Id -> 0..Len(data)]
  BY <1>a, EngineFields DEF Sound
<1>1. CASE phase' # "down"
  BY <1>1 DEF SeenInv
<1>2. CASE UNCHANGED vars
  <2>1. UNCHANGED <<kind, data, indexFile, phase, touched, seen>>
    BY <1>2 DEF vars, history
  <2> QED BY <2>1 DEF SeenInv, EndsWith, Without
<1>3. CASE Kill
  <2>1. /\ seen' = [i \in Id |-> [gets |-> Gets(i), finds |-> Finds(i)]]
        /\ phase # "down" /\ UNCHANGED <<kind, data, indexFile, touched>>
    BY <1>3 DEF Kill
  <2>2. ASSUME NEW i \in Id
        PROVE  seen'[i].gets = Gets(i) /\ seen'[i].finds = Finds(i)
    BY <2>1
  <2>3. ASSUME NEW i \in Id, mem.offsets[i] # 0
        PROVE  EndsWith(data, i, Gets(i)) /\ ~Without(data, i)
    <3> DEFINE p == mem.offsets[i]
    <3>1. p \in DOMAIN data /\ data[p] \in Record
      BY <1>a, <1>b, <2>3
    <3>2. data[p].id = i /\ \A q \in p+1..Len(data) : data[q].id # i
      BY <2>3 DEF EngineInv
    <3>3. Gets(i) = data[p].vec
      BY <2>3 DEF Gets
    <3>4. data[p] = [id |-> i, vec |-> Gets(i)]
      BY <3>1, <3>2, <3>3 DEF Record
    <3> HIDE DEF p
    <3> QED BY <3>1, <3>2, <3>4 DEF EndsWith, Without
  <2>4. ASSUME NEW i \in Id, seen'[i].gets # NoVec PROVE EndsWith(data, i, seen'[i].gets)
    <3>1. mem.offsets[i] # 0
      BY <2>2, <2>4 DEF Gets
    <3> QED BY <2>2, <2>3, <3>1
  <2>5. ASSUME NEW i \in Id, ~kind.wal, indexFile.state # "torn", seen'[i].finds # {}
        PROVE  /\ ~Without(data, i)
               /\ i \notin touched => seen'[i].finds = {v \in Vec : <<i, v>> \in indexFile.index}
    <3>1. mem.offsets[i] # 0 /\ seen'[i].finds = {v \in Vec : <<i, v>> \in mem.index}
      BY <2>2, <2>5 DEF Finds
    <3>2. phase = "up"
      BY <2>1, <2>5 DEF SavedInv
    <3>3. i \notin touched => \A v \in Vec : <<i, v>> \in mem.index <=> <<i, v>> \in indexFile.index
      BY <2>5, <3>2 DEF SavedInv
    <3>4. i \notin touched => seen'[i].finds = {v \in Vec : <<i, v>> \in indexFile.index}
      BY <3>1, <3>3
    <3> QED BY <2>3, <3>1, <3>4
  <2> QED BY <2>1, <2>4, <2>5 DEF SeenInv, EndsWith, Without
<1> QED BY <1>1, <1>2, <1>3, DownSteps

-----------------------------------------------------------------------------
(* The theorems.                                                            *)

VecInv ==
  /\ RestInv /\ Wal!WALTypeOK /\ EngineInv /\ QuietInv
  /\ RemovedInv /\ LatestInv /\ SavedInv /\ SeenInv

LEMMA VecInit == Init => VecInv
<1> SUFFICES ASSUME Init PROVE VecInv
  OBVIOUS
<1>0. /\ kind \in Kinds /\ data = <<>> /\ indexFile = NoFile /\ mem = Empty /\ moving = <<>>
      /\ lock = "free" /\ phase = "up" /\ client = [c \in Client |-> Idle]
      /\ live = NoPending /\ touched = {}
      /\ seen = [i \in Id |-> [gets |-> NoVec, finds |-> {}]]
      /\ count = [e \in {"op", "kill", "checkpoint"} |-> 0]
  BY Zenon DEF Init
<1>1. data \in Seq(Record) /\ moving \in Seq(Record) /\ Len(data) = 0
  BY <1>0
<1>2. Sound(mem, Len(data)) /\ mem.index = {} /\ Waiting(mem) = {} /\ \A i \in Id : mem.offsets[i] = 0
  BY <1>0, <1>1, EmptyIs
<1>3. RestInv
  <2>1. NoFile \in File
    BY DEF NoFile, File, Index
  <2>2. client \in [Client -> ClientState] /\ \A c \in Client : client[c].at = "idle"
    BY <1>0 DEF Idle, ClientState
  <2>3. live \in [Id -> Vec \cup {Gone, NoVec}]
    BY <1>0 DEF NoPending
  <2>4. seen \in [Id -> [gets : Vec \cup {NoVec}, finds : SUBSET Vec]]
    BY <1>0
  <2>5. count \in [{"op", "kill", "checkpoint"} -> Nat]
    BY <1>0
  <2> QED BY <1>0, <1>1, <2>1, <2>2, <2>3, <2>4, <2>5 DEF RestInv
<1>4. Wal!WALTypeOK
  <2>1. WalP!InitLog
    BY SameLog, Zenon DEF Init
  <2>2. WalP!WALTypeOK
    BY <2>1, LogAssumed, WalP!InitType
  <2> QED BY <2>2, SameLog
<1>5. EngineInv
  BY <1>2 DEF EngineInv
<1>6. QuietInv /\ SeenInv
  BY <1>0 DEF QuietInv, SeenInv
<1>7. RemovedInv /\ LatestInv
  BY <1>0, VecIs DEF RemovedInv, LatestInv, NoPending, NoVec, Gone
<1>8. SavedInv
  BY <1>0, <1>2 DEF SavedInv, NoFile
<1> QED BY <1>3, <1>4, <1>5, <1>6, <1>7, <1>8 DEF VecInv

\* The invariant holds in every run of the engine.
LEMMA VecCorrect == Spec => []VecInv
<1>1. VecInv /\ [Next]_vars => VecInv'
  BY RestStep, LogStep, EngineStep, QuietStep, RemovedStep, LatestStep, SavedStep, SeenStep DEF VecInv
<1> QED BY VecInit, <1>1, PTL DEF Spec

\* The engine keeps its types: ids and vectors in the two files, in the buffers
\* and in the log, and no offset in fileOffsets behind the end of the data file.
THEOREM TypeCorrect == Spec => []TypeOK
<1>1. VecInv => TypeOK
  BY Zenon DEF VecInv, RestInv, EngineInv, Sound, Engine, File, ClientState, TypeOK
<1> QED BY VecCorrect, <1>1, PTL

\* Once the flusher has brought all records of an id to the data file, search
\* and GetVectorByID give the vector InsertVector took in last, or it waits in
\* pendingAdd: whatever several clients, training, flushes and checkpoints did
\* in between.
THEOREM LatestStored == Spec => []StoredIsLatest
<1>1. VecInv => StoredIsLatest
  <2> SUFFICES ASSUME VecInv, NEW i \in Id, live[i] \in Vec, ~OnTheWay(i)
               PROVE  mem.pending[i] = live[i] \/ (Gets(i) = live[i] /\ live[i] \in Finds(i))
    BY DEF StoredIsLatest
  <2>0. mem.buf \in Seq(Record) /\ moving \in Seq(Record)
    <3>1. Len(data) \in Nat /\ Sound(mem, Len(data)) /\ moving \in Seq(Record)
      BY DEF VecInv, RestInv, EngineInv
    <3> QED BY <3>1, EngineFields DEF Sound
  <2>1. ASSUME NEW s \in Seq(Record), EndsWith(s, i, live[i]) PROVE \E r \in ToSet(s) : r.id = i
    BY <2>1 DEF EndsWith, ToSet
  <2>2. ~EndsWith(mem.buf, i, live[i]) /\ ~EndsWith(moving, i, live[i])
    BY <2>0, <2>1 DEF OnTheWay
  <2>3. CASE mem.trained
    <3>1. <<i, live[i]>> \in mem.index /\ Gets(i) = live[i]
      BY <2>2, <2>3 DEF VecInv, LatestInv, Leads
    <3>2. mem.offsets[i] # 0
      BY <3>1, VecIs DEF Gets
    <3> QED BY <3>1, <3>2 DEF Finds
  <2>4. CASE ~mem.trained
    BY <2>4 DEF VecInv, LatestInv
  <2> QED BY <2>3, <2>4
<1> QED BY VecCorrect, <1>1, PTL

\* What RemoveVector took out of the FAISS index neither training nor the flush
\* of an older insert brings back to a search.
THEOREM RemovedNotFound == Spec => []SearchFindsNoneRemoved
<1>1. VecInv => SearchFindsNoneRemoved
  BY DEF VecInv, RemovedInv, SearchFindsNoneRemoved, Finds
<1> QED BY VecCorrect, <1>1, PTL

\* NewVectorEngine of a space without a log finds by id what clients of the
\* killed process found by id, and by search what they found by search of the
\* ids that have not changed since the last checkpoint.
THEOREM RestartIsFaithful == Spec => RestartKeepsSaved
<1> DEFINE Kept == phase = "down" /\ phase' = "up" /\ ~kind.wal =>
                     \A i \in Id :
                       /\ seen[i].gets # NoVec => Gets(i)' = seen[i].gets
                       /\ seen[i].finds # {} /\ i \notin touched => Finds(i)' = seen[i].finds
<1>1. VecInv /\ [Next]_vars => [Kept]_vars
  <2> SUFFICES ASSUME VecInv, [Next]_vars, phase = "down", phase' = "up", ~kind.wal, NEW i \in Id
               PROVE  /\ seen[i].gets # NoVec => Gets(i)' = seen[i].gets
                      /\ seen[i].finds # {} /\ i \notin touched => Finds(i)' = seen[i].finds
    OBVIOUS
  <2>0. RestInv /\ QuietInv /\ SeenInv /\ Wal!WALTypeOK /\ data \in Seq(Record) /\ indexFile \in File
    BY DEF VecInv, RestInv
  <2>1. Start
    BY <2>0, DownSteps
  <2>2. mem' = Opened /\ indexFile.state # "torn" /\ UNCHANGED data
    BY <2>0, <2>1, StartIs DEF Start
  <2>3. mem'.offsets = Rebuilt /\ mem'.index = indexFile.index
    BY <2>0, <2>2, OpenedIs
  <2>4. ~Without(data, i) =>
          /\ Rebuilt[i] \in DOMAIN data /\ Rebuilt[i] # 0 /\ data[Rebuilt[i]].id = i
          /\ \A q \in Rebuilt[i]+1..Len(data) : data[q].id # i
    BY <2>0, RebuiltIs
  <2> HIDE DEF Rebuilt
  <2>5. ASSUME seen[i].gets # NoVec PROVE Gets(i)' = seen[i].gets
    <3>1. EndsWith(data, i, seen[i].gets)
      BY <2>0, <2>5 DEF SeenInv
    <3>2. PICK p \in DOMAIN data :
            data[p] = [id |-> i, vec |-> seen[i].gets] /\ \A q \in p+1..Len(data) : data[q].id # i
      BY <3>1 DEF EndsWith
    <3>3. ~Without(data, i)
      BY <3>2 DEF Without
    <3>4. Rebuilt[i] = p
      <4>1. p \in 1..Len(data) /\ Rebuilt[i] \in 1..Len(data) /\ Len(data) \in Nat
        BY <2>0, <2>4, <3>3
      <4>2. ~(Rebuilt[i] \in p+1..Len(data)) /\ ~(p \in Rebuilt[i]+1..Len(data))
        BY <2>4, <3>2, <3>3
      <4> QED BY <4>1, <4>2
    <3>5. mem'.offsets[i] = p /\ p # 0 /\ data'[p].vec = seen[i].gets
      BY <2>2, <2>3, <2>4, <3>2, <3>3, <3>4
    <3> QED BY <3>5 DEF Gets
  <2>6. ASSUME seen[i].finds # {}, i \notin touched PROVE Finds(i)' = seen[i].finds
    <3>1. ~Without(data, i) /\ seen[i].finds = {v \in Vec : <<i, v>> \in indexFile.index}
      BY <2>0, <2>2, <2>6 DEF SeenInv
    <3>2. mem'.offsets[i] # 0
      BY <2>3, <2>4, <3>1
    <3> QED BY <2>3, <3>1, <3>2 DEF Finds
  <2> QED BY <2>5, <2>6
<1> QED BY VecCorrect, <1>1, PTL DEF Spec, RestartKeepsSaved
=============================================================================
