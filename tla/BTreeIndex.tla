----------------------------- MODULE BTreeIndex -----------------------------
(***************************************************************************)
(* The key index of one space (internal/index/BTreeIndex.go): a B-tree in  *)
(* memory and an append-only, memory-mapped image of it on disk.           *)
(*                                                                         *)
(* A key is its rank in the byte order of keys, so 0 is the empty key.  A  *)
(* position is an ordinal that stands for a byte offset of the data file:  *)
(* FirstPos is offset 0, and NoPos says that the tree has no such key.     *)
(* The image is a sequence of slots, one per entry; a slot of zero bytes   *)
(* (padding of the mapped file) decodes exactly as an entry of the empty   *)
(* key at offset 0, and is modelled as that entry.  Slots all have one     *)
(* size: the real ones have 8 + len(key) bytes, and the trailing fragment  *)
(* shorter than 8 bytes that no entry fits into is not represented.        *)
(***************************************************************************)
EXTENDS Integers, Sequences

CONSTANTS
  Key,        \* ranks of the keys in use
  PosMod,     \* positions are stored modulo this (2^32 in the code)
  InitSlots   \* slots of a fresh image (4096 bytes in the code)

ASSUME IndexAssumption ==
  /\ Key \subseteq Nat
  /\ PosMod \in Nat \ {0}
  /\ InitSlots \in Nat \ {0}

VARIABLES
  btree,    \* [Key -> position or NoPos]
  slots,    \* the image: what the mapped file holds
  off,      \* writeOffset: slots before it are never written again
  rewrite   \* keys persistIndex has still to append (it holds idx.lock)

vars == <<btree, slots, off, rewrite>>

NoPos    == 0
FirstPos == 1
Pos      == Nat \ {NoPos}
EmptyKey == 0
Slot     == [key : Nat, pos : Pos]

ZeroSlot == [key |-> EmptyKey, pos |-> FirstPos]
Zeros(n) == [i \in 1..n |-> ZeroSlot]

IndexTypeOK ==
  /\ btree \in [Key -> Nat]
  /\ slots \in Seq(Slot)
  /\ off \in 0..Len(slots)
  /\ rewrite \subseteq {k \in Key : btree[k] # NoPos}

-----------------------------------------------------------------------------
\* What a reader of the image finds: the last slot of a key wins.
LastSlot(s, k) ==
  CHOOSE i \in DOMAIN s : s[i].key = k /\ \A j \in DOMAIN s : s[j].key = k => j <= i

Loaded(s) ==
  [k \in Key |-> IF \E i \in DOMAIN s : s[i].key = k THEN s[LastSlot(s, k)].pos ELSE NoPos]

Truncated(p) == ((p - FirstPos) % PosMod) + FirstPos

\* The image after appendIndexEntry at slot o: the file is grown to more than
\* twice its length when the entry does not fit.
Appended(s, o, k, p) ==
  LET room == IF o < Len(s) THEN s ELSE s \o Zeros(Len(s) + 1 + InitSlots)
  IN  [room EXCEPT ![o + 1] = [key |-> k, pos |-> Truncated(p)]]

-----------------------------------------------------------------------------
Init ==
  /\ slots = Zeros(InitSlots)
  /\ btree = Loaded(slots)
  /\ off = Len(slots)
  /\ rewrite = {}

\* Mutant of Open: writeOffset is left at 0.
OpenAtStart ==
  /\ btree' = Loaded(slots) /\ off' = 0 /\ rewrite' = {} /\ UNCHANGED slots

\* NewBTreeIndex on whatever file the previous process left: the tree is what
\* the image decodes to, and writing resumes after the zero padding.
Open ==
  /\ btree' = Loaded(slots)
  /\ off' = Len(slots)
  /\ rewrite' = {}
  /\ UNCHANGED slots

Add(k, p) ==
  /\ rewrite = {}
  /\ btree' = [btree EXCEPT ![k] = p]
  /\ slots' = Appended(slots, off, k, p)
  /\ off' = off + 1
  /\ UNCHANGED rewrite

Get(k) == btree[k]

\* Mutants of RemoveStart: the removed key is appended again; the image is
\* written over from its start but not emptied.
RemoveStartKeepsKey(k) ==
  /\ rewrite = {} /\ btree[k] # NoPos
  /\ btree' = [btree EXCEPT ![k] = NoPos]
  /\ slots' = Zeros(InitSlots) /\ off' = 0
  /\ rewrite' = {j \in Key : btree[j] # NoPos}

RemoveStartNoTruncate(k) ==
  /\ rewrite = {} /\ btree[k] # NoPos
  /\ btree' = [btree EXCEPT ![k] = NoPos]
  /\ slots' = slots /\ off' = 0
  /\ rewrite' = {j \in Key : j # k /\ btree[j] # NoPos}

\* Remove of a key the tree has: persistIndex empties the image first, ...
\* (NewBTreeIndex extends an empty file to a fresh image, so a kill between the
\* two Truncate calls leaves what a kill after them leaves.)
RemoveStart(k) ==
  /\ rewrite = {} /\ btree[k] # NoPos
  /\ btree' = [btree EXCEPT ![k] = NoPos]
  /\ slots' = Zeros(InitSlots)
  /\ off' = 0
  /\ rewrite' = {j \in Key : j # k /\ btree[j] # NoPos}

\* ... then appends the remaining keys again, in ascending order.
RemoveAppend ==
  \E k \in rewrite :
    /\ \A j \in rewrite : k <= j
    /\ slots' = Appended(slots, off, k, btree[k])
    /\ off' = off + 1
    /\ rewrite' = rewrite \ {k}
    /\ UNCHANGED btree

\* The process is killed (at any point) and the file opened again.
Kill == Open

Next ==
  \/ \E k \in Key, p \in Pos : Add(k, p)
  \/ \E k \in Key : RemoveStart(k)
  \/ RemoveAppend
  \/ Kill

Spec == Init /\ [][Next]_vars

-----------------------------------------------------------------------------
\* A file that is read back while no Remove is rewriting it holds exactly the
\* tree (BatchLoadFromMmap after Add, Remove and earlier restarts, with the
\* writeOffset each of them left behind).
ReloadFindsEveryKey == rewrite = {} => Loaded(slots) = btree

\* A kill at any point, in the middle of persistIndex too, never brings back
\* a removed key nor an older position of a key: at worst the key is gone.
KillRevivesNothing == \A k \in Key : Loaded(slots)[k] \in {NoPos, btree[k]}
=============================================================================
