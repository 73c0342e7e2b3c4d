-------------------------- MODULE BTreeIndexProofs --------------------------
(***************************************************************************)
(* Proofs about BTreeIndex, for every set of keys, every number of slots   *)
(* and every range of stored positions.  All results but the type          *)
(* invariant need that the empty key is not used: an entry of it cannot be *)
(* told from padding.                                                      *)
(***************************************************************************)
EXTENDS BTreeIndex, WellFoundedInduction, TLAPS

NoEmptyKey == EmptyKey \notin Key

\* i is the slot of s that a reader finds for k.
IsLast(s, k, i) ==
  /\ i \in DOMAIN s /\ s[i].key = k
  /\ \A j \in DOMAIN s : s[j].key = k => j <= i

\* From slot o + 1 on the image holds nothing but padding.
Padded(s, o) == \A i \in DOMAIN s : i > o => s[i] = ZeroSlot

\* The inductive invariant.  The image decodes to the tree with its positions
\* truncated, less the keys that a Remove in progress has still to append.
IndexInv ==
  /\ IndexTypeOK
  /\ Padded(slots, off)
  /\ \A k \in Key : Loaded(slots)[k] =
       IF k \in rewrite \/ btree[k] = NoPos THEN NoPos ELSE Truncated(btree[k])

\* Every position of the tree fits into the stored field.
PositionsFit == \A k \in Key : btree[k] <= PosMod

-----------------------------------------------------------------------------
\* A stored position is a position below the range, and storing it again does
\* not change it.
LEMMA TruncatedIs ==
  ASSUME NEW p \in Pos
  PROVE  /\ Truncated(p) \in Pos
         /\ Truncated(p) <= PosMod
         /\ p <= PosMod => Truncated(p) = p
<1>1. PosMod \in Nat \ {0} /\ p \in Nat \ {0}
  BY IndexAssumption DEF Pos, NoPos
<1>2. (p - 1) % PosMod \in 0..(PosMod - 1)
  BY <1>1
<1>3. p <= PosMod => (p - 1) % PosMod = p - 1
  BY <1>1
<1> QED BY <1>1, <1>2, <1>3 DEF Truncated, Pos, NoPos, FirstPos

\* Every set of natural numbers that is not empty has a least element.
LEMMA LeastElement ==
  ASSUME NEW T \in SUBSET Nat, T # {}
  PROVE  \E n \in T : \A m \in T : n <= m
<1>1. ASSUME NEW R, IsWellFoundedOn(R, Nat), \A x, y \in Nat : x < y => <<x, y>> \in R
      PROVE  \E n \in T : \A m \in T : n <= m
  <2>1. IsWellFoundedOn(R, Nat) /\ T \subseteq Nat /\ T # {}
    BY <1>1
  <2>2. \E n \in T : \A m \in T : ~ (<<m, n>> \in R)
    BY <2>1, WFMin, Zenon
  <2>3. PICK n \in T : \A m \in T : ~ (<<m, n>> \in R)
    BY <2>2
  <2>4. \A m \in T : ~ (m < n)
    BY <1>1, <2>3
  <2> QED BY <2>4
<1> DEFINE R == OpToRel(<, Nat)
<1>2. IsWellFoundedOn(R, Nat)
  BY NatLessThanWellFounded
<1>3. \A x, y \in Nat : x < y => <<x, y>> \in R
  BY DEF OpToRel
<1> HIDE DEF R
<1> QED BY <1>1, <1>2, <1>3, Zenon

\* A key that has a slot has a last one.
LEMMA LastExists ==
  ASSUME NEW s \in Seq(Slot), NEW k, NEW i0 \in DOMAIN s, s[i0].key = k
  PROVE  \E i \in DOMAIN s : IsLast(s, k, i)
<1> DEFINE fromEnd == {n \in Nat : n < Len(s) /\ s[Len(s) - n].key = k}
<1>1. Len(s) \in Nat /\ DOMAIN s = 1..Len(s)
  OBVIOUS
<1>2. Len(s) - i0 \in fromEnd
  BY <1>1
<1>3. PICK n \in fromEnd : \A m \in fromEnd : n <= m
  BY <1>2, LeastElement
<1>4. \A j \in DOMAIN s : s[j].key = k => Len(s) - j \in fromEnd
  BY <1>1
<1>5. Len(s) - n \in DOMAIN s /\ s[Len(s) - n].key = k
  BY <1>1, <1>3
<1>6. ASSUME NEW j \in DOMAIN s, s[j].key = k
      PROVE  j <= Len(s) - n
  <2>1. Len(s) - j \in fromEnd /\ n \in Nat
    BY <1>1, <1>4, <1>6
  <2>2. n <= Len(s) - j
    BY <1>3, <2>1
  <2> QED BY <1>1, <2>1, <2>2
<1> QED BY <1>5, <1>6 DEF IsLast

\* Loaded returns the position of the last slot of a key, ...
LEMMA LoadedIs ==
  ASSUME NEW s \in Seq(Slot), NEW k \in Key, NEW i \in DOMAIN s, IsLast(s, k, i)
  PROVE  Loaded(s)[k] = s[i].pos
<1>1. DOMAIN s \subseteq Int
  OBVIOUS
<1>2. IsLast(s, k, LastSlot(s, k))
  BY DEF IsLast, LastSlot
<1>3. LastSlot(s, k) = i
  BY <1>1, <1>2 DEF IsLast
<1> QED BY <1>3 DEF Loaded, IsLast

\* ... and no position for a key that has no slot.
LEMMA LoadedNone ==
  ASSUME NEW s \in Seq(Slot), NEW k \in Key, \A i \in DOMAIN s : s[i].key # k
  PROVE  Loaded(s)[k] = NoPos
BY DEF Loaded

\* Padding is a sequence of slots that holds no key in use.
LEMMA ZerosAreSlots ==
  ASSUME NEW n \in Nat
  PROVE  /\ Zeros(n) \in Seq(Slot) /\ Len(Zeros(n)) = n
         /\ DOMAIN Zeros(n) = 1..n
         /\ \A i \in 1..n : Zeros(n)[i] = ZeroSlot
         /\ ZeroSlot \in Slot /\ ZeroSlot.key = EmptyKey
<1>1. ZeroSlot \in Slot /\ ZeroSlot.key = EmptyKey
  BY DEF ZeroSlot, Slot, EmptyKey, Pos, NoPos, FirstPos
<1> QED BY <1>1 DEF Zeros

\* The image after appendIndexEntry, slot by slot.
LEMMA AppendedIs ==
  ASSUME NEW s \in Seq(Slot), NEW o \in 0..Len(s), NEW k \in Key, NEW p \in Pos,
         Padded(s, o)
  PROVE  LET t == Appended(s, o, k, p) IN
         /\ t \in Seq(Slot) /\ o + 1 \in 0..Len(t) /\ Len(s) <= Len(t)
         /\ \A i \in 1..o : t[i] = s[i]
         /\ t[o + 1] = [key |-> k, pos |-> Truncated(p)]
         /\ Padded(t, o + 1)
<1> DEFINE pad  == Zeros(Len(s) + 1 + InitSlots)
           room == IF o < Len(s) THEN s ELSE s \o pad
           new  == [key |-> k, pos |-> Truncated(p)]
           t    == Appended(s, o, k, p)
<1>1. Len(s) \in Nat /\ InitSlots \in Nat /\ o \in Nat /\ o <= Len(s)
  BY IndexAssumption
<1>2. new \in Slot
  BY TruncatedIs, IndexAssumption DEF Slot
<1>3. /\ pad \in Seq(Slot) /\ Len(pad) = Len(s) + 1 + InitSlots
      /\ \A i \in 1..Len(pad) : pad[i] = ZeroSlot
  BY <1>1, ZerosAreSlots
<1> HIDE DEF pad
<1>4. /\ room \in Seq(Slot) /\ Len(room) > o /\ Len(room) >= Len(s)
      /\ \A i \in 1..o : room[i] = s[i]
      /\ \A i \in 1..Len(room) : i > o => room[i] = ZeroSlot
  <2>1. CASE o < Len(s)
    BY <1>1, <2>1 DEF Padded
  <2>2. CASE ~(o < Len(s))
    BY <1>1, <1>3, <2>2
  <2> QED BY <2>1, <2>2
<1> HIDE DEF room
<1>5. t = [room EXCEPT ![o + 1] = new]
  BY DEF Appended, room, pad, t
<1> HIDE DEF t, new
<1>6. /\ t \in Seq(Slot) /\ Len(t) = Len(room) /\ t[o + 1] = new
      /\ \A i \in 1..Len(room) : i # o + 1 => t[i] = room[i]
  BY <1>1, <1>2, <1>4, <1>5
<1>7. /\ o + 1 \in 0..Len(t) /\ Len(s) <= Len(t)
      /\ \A i \in 1..o : t[i] = s[i]
      /\ Padded(t, o + 1)
  <2>1. DOMAIN t = 1..Len(room) /\ Len(t) = Len(room)
    BY <1>6
  <2>2. \A i \in DOMAIN t : i > o + 1 => t[i] = ZeroSlot
    BY <1>1, <1>4, <1>6, <2>1
  <2>3. \A i \in 1..o : t[i] = s[i]
    BY <1>1, <1>4, <1>6
  <2> QED BY <1>1, <1>4, <2>1, <2>2, <2>3 DEF Padded
<1> QED BY <1>6, <1>7 DEF t, new

\* appendIndexEntry changes what a reader finds for its own key and for no other.
LEMMA LoadedAppended ==
  ASSUME NoEmptyKey, NEW s \in Seq(Slot), NEW o \in 0..Len(s), Padded(s, o),
         NEW k \in Key, NEW p \in Pos
  PROVE  \A j \in Key : Loaded(Appended(s, o, k, p))[j] =
           IF j = k THEN Truncated(p) ELSE Loaded(s)[j]
<1> DEFINE t == Appended(s, o, k, p)
<1>1. /\ t \in Seq(Slot) /\ o + 1 \in 1..Len(t) /\ Len(s) <= Len(t)
      /\ \A i \in 1..o : t[i] = s[i]
      /\ t[o + 1] = [key |-> k, pos |-> Truncated(p)]
      /\ \A i \in DOMAIN t : i > o + 1 => t[i] = ZeroSlot
  BY AppendedIs DEF Padded
<1> HIDE DEF t
<1>2. DOMAIN t = 1..Len(t) /\ DOMAIN s = 1..Len(s) /\ o \in Nat /\ Len(s) \in Nat /\ Len(t) \in Nat
  BY <1>1
<1>3. ZeroSlot.key \notin Key /\ t[o + 1].key = k /\ t[o + 1].pos = Truncated(p)
  BY <1>1, ZerosAreSlots DEF NoEmptyKey
<1>4. \A i \in DOMAIN s : s[i].key \in Key => i \in 1..o
  BY <1>2, <1>3 DEF Padded
<1>5. \A i \in DOMAIN t : t[i].key \in Key => i \in 1..(o + 1)
  BY <1>1, <1>2, <1>3
<1>6. IsLast(t, k, o + 1)
  BY <1>1, <1>2, <1>3, <1>5 DEF IsLast
<1>7. ASSUME NEW j \in Key, j # k
      PROVE  /\ \A i \in 1..(o + 1) : t[i].key = j => i \in 1..o /\ s[i].key = j
             /\ \A i \in DOMAIN s : IsLast(s, j, i) => IsLast(t, j, i) /\ t[i].pos = s[i].pos
  <2>1. \A i \in 1..(o + 1) : t[i].key = j => i \in 1..o /\ s[i].key = j
    BY <1>1, <1>2, <1>3, <1>7
  <2>2. ASSUME NEW i \in DOMAIN s, IsLast(s, j, i)
        PROVE  IsLast(t, j, i) /\ t[i].pos = s[i].pos
    <3>1. s[i].key = j /\ i \in 1..o
      BY <1>4, <2>2 DEF IsLast
    <3>2. t[i] = s[i] /\ i \in DOMAIN t
      BY <1>1, <1>2, <3>1
    <3>3. \A m \in DOMAIN t : t[m].key = j => m \in DOMAIN s /\ s[m].key = j
      BY <1>2, <1>5, <2>1
    <3> QED BY <2>2, <3>1, <3>2, <3>3 DEF IsLast
  <2> QED BY <2>1, <2>2
<1>8. Loaded(t)[k] = Truncated(p)
  BY <1>1, <1>2, <1>3, <1>6, LoadedIs
<1>9. ASSUME NEW j \in Key, j # k
      PROVE  Loaded(t)[j] = Loaded(s)[j]
  <2>1. CASE \E i \in DOMAIN s : s[i].key = j
    <3>1. PICK i \in DOMAIN s : IsLast(s, j, i)
      BY <2>1, LastExists
    <3>2. IsLast(t, j, i) /\ t[i].pos = s[i].pos /\ i \in DOMAIN t
      BY <1>7, <1>9, <3>1 DEF IsLast
    <3> QED BY <1>1, <3>1, <3>2, LoadedIs
  <2>2. CASE ~ \E i \in DOMAIN s : s[i].key = j
    <3>1. \A i \in DOMAIN t : t[i].key # j
      BY <1>2, <1>5, <1>7, <1>9, <2>2
    <3> QED BY <1>1, <2>2, <3>1, LoadedNone
  <2> QED BY <2>1, <2>2
<1> QED BY <1>8, <1>9 DEF t

\* Loaded is a function from the keys to positions or NoPos.
LEMMA LoadedType ==
  ASSUME NEW s \in Seq(Slot)
  PROVE  Loaded(s) \in [Key -> Nat]
<1> SUFFICES ASSUME NEW k \in Key PROVE Loaded(s)[k] \in Nat
  BY DEF Loaded
<1>1. CASE \E i \in DOMAIN s : s[i].key = k
  <2>1. PICK i \in DOMAIN s : IsLast(s, k, i)
    BY <1>1, LastExists
  <2>2. Loaded(s)[k] = s[i].pos /\ s[i] \in Slot
    BY <2>1, LoadedIs
  <2> QED BY <2>2 DEF Slot, Pos
<1>2. CASE ~ \E i \in DOMAIN s : s[i].key = k
  BY <1>2, LoadedNone DEF NoPos
<1> QED BY <1>1, <1>2

-----------------------------------------------------------------------------
\* IndexInv is inductive: one lemma for the initial state, one for the steps.
\* The type part needs no assumption about keys.
TypeInv == IndexTypeOK /\ Padded(slots, off)

\* A new index (NewBTreeIndex on no file) has the types, and its image is
\* padding from writeOffset on or at its end.
LEMMA TypeInit == Init => TypeInv
<1> SUFFICES ASSUME Init PROVE TypeInv
  OBVIOUS
<1>1. slots \in Seq(Slot) /\ Len(slots) = InitSlots /\ InitSlots \in Nat
  BY IndexAssumption, ZerosAreSlots DEF Init
<1>2. btree \in [Key -> Nat]
  BY <1>1, LoadedType DEF Init
<1> QED BY <1>1, <1>2 DEF Init, IndexTypeOK, TypeInv, Padded

\* Add, Remove, persistIndex and a restart keep the types.
LEMMA TypeStep == TypeInv /\ [Next]_vars => TypeInv'
<1> SUFFICES ASSUME TypeInv, [Next]_vars PROVE TypeInv'
  OBVIOUS
<1>1. /\ btree \in [Key -> Nat] /\ slots \in Seq(Slot) /\ off \in 0..Len(slots)
      /\ rewrite \subseteq {k \in Key : btree[k] # NoPos} /\ Padded(slots, off)
  BY DEF TypeInv, IndexTypeOK
<1>2. ASSUME NEW k \in Key, NEW p \in Pos, Add(k, p)
      PROVE  TypeInv'
  <2>1. slots' \in Seq(Slot) /\ off' \in 0..Len(slots') /\ Padded(slots', off')
    BY <1>1, <1>2, AppendedIs DEF Add
  <2>2. btree' \in [Key -> Nat] /\ rewrite' = {}
    BY <1>1, <1>2 DEF Add, Pos
  <2> QED BY <2>1, <2>2 DEF TypeInv, IndexTypeOK
<1>3. ASSUME NEW k \in Key, RemoveStart(k)
      PROVE  TypeInv'
  <2>1. slots' \in Seq(Slot) /\ off' \in 0..Len(slots') /\ Padded(slots', off')
    BY <1>3, IndexAssumption, ZerosAreSlots DEF RemoveStart, Padded
  <2>2. btree' \in [Key -> Nat] /\ rewrite' \subseteq {j \in Key : btree'[j] # NoPos}
    BY <1>1, <1>3 DEF RemoveStart, NoPos
  <2> QED BY <2>1, <2>2 DEF TypeInv, IndexTypeOK
<1>4. CASE RemoveAppend
  <2>1. PICK k \in rewrite : /\ slots' = Appended(slots, off, k, btree[k])
                             /\ off' = off + 1
                             /\ rewrite' = rewrite \ {k} /\ btree' = btree
    BY <1>4 DEF RemoveAppend
  <2>2. k \in Key /\ btree[k] \in Pos
    BY <1>1 DEF Pos
  <2>3. slots' \in Seq(Slot) /\ off' \in 0..Len(slots') /\ Padded(slots', off')
    BY <1>1, <2>1, <2>2, AppendedIs
  <2> QED BY <1>1, <2>1, <2>3 DEF TypeInv, IndexTypeOK
<1>5. CASE Kill
  <2>1. btree' \in [Key -> Nat] /\ rewrite' = {} /\ slots' = slots /\ off' = Len(slots)
    BY <1>1, <1>5, LoadedType DEF Kill, Open
  <2> QED BY <1>1, <2>1 DEF TypeInv, IndexTypeOK, Padded
<1>6. CASE UNCHANGED vars
  BY <1>1, <1>6 DEF vars, TypeInv, IndexTypeOK, Padded
<1> QED BY <1>2, <1>3, <1>4, <1>5, <1>6 DEF Next

\* Type correctness of the index: every operation of BTreeIndex keeps the
\* offsets, slots and positions in range, whatever the keys.
THEOREM TypeCorrect == Spec => []IndexTypeOK
<1>1. TypeInv => IndexTypeOK
  BY DEF TypeInv
<1> QED BY <1>1, TypeInit, TypeStep, PTL DEF Spec

-----------------------------------------------------------------------------
\* A fresh image, which is padding only, decodes to the empty tree.
LEMMA FreshIsEmpty ==
  NoEmptyKey /\ Init => \A k \in Key : Loaded(slots)[k] = NoPos /\ btree[k] = NoPos
<1> SUFFICES ASSUME NoEmptyKey, Init, NEW k \in Key
             PROVE  Loaded(slots)[k] = NoPos /\ btree[k] = NoPos
  OBVIOUS
<1>1. slots \in Seq(Slot) /\ \A i \in DOMAIN slots : slots[i].key # k
  BY IndexAssumption, ZerosAreSlots DEF Init, NoEmptyKey
<1> QED BY <1>1, LoadedNone DEF Init

\* The image of a new index decodes to the empty tree.
LEMMA IndexInit == NoEmptyKey /\ Init => IndexInv
BY TypeInit, FreshIsEmpty DEF IndexInv, TypeInv

\* Every operation, and every step of persistIndex, keeps the image decoding
\* to the tree less the keys still to be appended.
LEMMA IndexStep == NoEmptyKey /\ IndexInv /\ [Next]_vars => IndexInv'
<1> SUFFICES ASSUME NoEmptyKey, IndexInv, [Next]_vars PROVE IndexInv'
  OBVIOUS
<1>1. /\ btree \in [Key -> Nat] /\ slots \in Seq(Slot) /\ off \in 0..Len(slots)
      /\ rewrite \subseteq {k \in Key : btree[k] # NoPos} /\ Padded(slots, off)
  BY DEF IndexInv, IndexTypeOK
<1>2. IndexTypeOK' /\ Padded(slots, off)'
  BY TypeStep DEF IndexInv, TypeInv
<1> DEFINE Agrees == \A k \in Key : Loaded(slots)[k] =
                       IF k \in rewrite \/ btree[k] = NoPos THEN NoPos ELSE Truncated(btree[k])
<1>3. Agrees
  BY DEF IndexInv
<1> SUFFICES Agrees'
  BY <1>2 DEF IndexInv
<1>4. ASSUME NEW k \in Key, NEW p \in Pos, Add(k, p)
      PROVE  Agrees'
  <2>1. \A j \in Key : Loaded(slots')[j] = IF j = k THEN Truncated(p) ELSE Loaded(slots)[j]
    BY <1>1, <1>4, LoadedAppended DEF Add
  <2>2. /\ rewrite = {} /\ rewrite' = {} /\ btree'[k] = p /\ p # NoPos
        /\ \A j \in Key : j # k => btree'[j] = btree[j]
    BY <1>1, <1>4 DEF Add, Pos
  <2> QED BY <1>3, <2>1, <2>2
<1>5. ASSUME NEW k \in Key, RemoveStart(k)
      PROVE  Agrees'
  <2>1. slots' \in Seq(Slot) /\ \A i \in DOMAIN slots' : slots'[i].key \notin Key
    BY <1>5, IndexAssumption, ZerosAreSlots DEF RemoveStart, NoEmptyKey
  <2>2. \A j \in Key : Loaded(slots')[j] = NoPos
    BY <2>1, LoadedNone
  <2>3. \A j \in Key : j \in rewrite' \/ btree'[j] = NoPos
    BY <1>1, <1>5 DEF RemoveStart
  <2> QED BY <2>2, <2>3
<1>6. CASE RemoveAppend
  <2>1. PICK k \in rewrite : /\ slots' = Appended(slots, off, k, btree[k])
                             /\ rewrite' = rewrite \ {k} /\ btree' = btree
    BY <1>6 DEF RemoveAppend
  <2>2. k \in Key /\ btree[k] \in Pos /\ btree[k] # NoPos
    BY <1>1 DEF Pos
  <2>3. \A j \in Key : Loaded(slots')[j] = IF j = k THEN Truncated(btree[k]) ELSE Loaded(slots)[j]
    BY <1>1, <2>1, <2>2, LoadedAppended
  <2> QED BY <1>3, <2>1, <2>2, <2>3
<1>7. CASE Kill
  <2>1. btree' = Loaded(slots) /\ rewrite' = {} /\ slots' = slots
    BY <1>7 DEF Kill, Open
  <2>2. ASSUME NEW k \in Key, Loaded(slots)[k] # NoPos
        PROVE  Truncated(Loaded(slots)[k]) = Loaded(slots)[k]
    <3>1. btree[k] \in Pos /\ Loaded(slots)[k] = Truncated(btree[k])
      BY <1>1, <1>3, <2>2 DEF Pos
    <3>2. Truncated(btree[k]) \in Pos /\ Truncated(btree[k]) <= PosMod
      BY <3>1, TruncatedIs
    <3> QED BY <3>1, <3>2, TruncatedIs
  <2> QED BY <2>1, <2>2
<1>8. CASE UNCHANGED vars
  BY <1>3, <1>8 DEF vars
<1> QED BY <1>4, <1>5, <1>6, <1>7, <1>8 DEF Next

\* While all positions fit into the stored field, truncation shows nowhere.
LEMMA FittingImage ==
  IndexInv /\ PositionsFit => ReloadFindsEveryKey /\ KillRevivesNothing
<1> SUFFICES ASSUME IndexInv, PositionsFit PROVE ReloadFindsEveryKey /\ KillRevivesNothing
  OBVIOUS
<1>1. btree \in [Key -> Nat] /\ Loaded(slots) \in [Key -> Nat]
  BY LoadedType DEF IndexInv, IndexTypeOK
<1>2. ASSUME NEW k \in Key
      PROVE  Loaded(slots)[k] = IF k \in rewrite THEN NoPos ELSE btree[k]
  <2>1. CASE btree[k] = NoPos
    BY <2>1 DEF IndexInv
  <2>2. CASE btree[k] # NoPos
    <3>1. btree[k] \in Pos /\ btree[k] <= PosMod
      BY <1>1, <2>2 DEF Pos, PositionsFit
    <3> QED BY <2>2, <3>1, TruncatedIs DEF IndexInv
  <2> QED BY <2>1, <2>2
<1>3. ReloadFindsEveryKey
  BY <1>1, <1>2 DEF ReloadFindsEveryKey
<1>4. KillRevivesNothing
  BY <1>2 DEF KillRevivesNothing
<1> QED BY <1>3, <1>4

\* IndexInv holds of every behaviour, so the image always decodes to the tree
\* as the last completed Add or Remove left it, with positions truncated to
\* what the file can store (Add, Remove, persistIndex and kills within them).
THEOREM ImageFollowsTree == NoEmptyKey => (Spec => []IndexInv)
<1> SUFFICES ASSUME NoEmptyKey PROVE Spec => []IndexInv
  OBVIOUS
<1>1. Init => IndexInv
  BY IndexInit
<1>2. IndexInv /\ [Next]_vars => IndexInv'
  BY IndexStep
<1> QED BY <1>1, <1>2, PTL DEF Spec

\* BatchLoadFromMmap of the file finds the tree whenever no Remove is in
\* persistIndex, as long as all positions fit into their stored field.
THEOREM ReloadIsFaithful ==
  NoEmptyKey => (Spec => [](PositionsFit => ReloadFindsEveryKey))
BY ImageFollowsTree, FittingImage, PTL

\* A kill in the middle of persistIndex, or anywhere else, revives nothing.
THEOREM KillIsHarmlessToAbsentKeys ==
  NoEmptyKey => (Spec => [](PositionsFit => KillRevivesNothing))
BY ImageFollowsTree, FittingImage, PTL
=============================================================================
