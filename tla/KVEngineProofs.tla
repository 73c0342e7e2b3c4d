---------------------------- MODULE KVEngineProofs ----------------------------
(***************************************************************************)
(* Proofs about KVEngine, for every set of keys and readers, with or       *)
(* without the log, and for every number of puts, deletes, faults, kills   *)
(* and closes.                                                             *)
(***************************************************************************)
EXTENDS KVEngine, TLAPS

IndexP == INSTANCE BTreeIndexProofs
WalP   == INSTANCE WALProofs WITH LogKey <- Key

\* The data file stays within the range of the positions the image can store.
DataFits == Len(data) <= PosMod

\* The labels of FlushBatch between db.lock.Lock and Unlock.
Locked == {"wal", "data", "index", "sync", "checkpoint"}
Label  == {"idle", "lock", "wal", "data", "index", "sync", "checkpoint", "flush",
           "clear", "walClose", "fileClose", "rewrite", "append"}

\* db.lock: whoever is between Lock and Unlock holds it, and only a Delete that
\* holds it has keys of the index still to append.
LockInv ==
  /\ pc \in [Flusher \cup {"delete"} -> Label]
  /\ \A p \in Flusher : pc[p] \in Locked => lock = p
  /\ pc["delete"] # "idle" => lock = "delete"
  /\ rewrite # {} => pc["delete"] = "rewrite"

Record == [key : Key, val : Val \cup {EmptyVal}]
Content == [Key -> Val \cup {NoVal}]
Events == {"put", "delete", "kill", "fault", "close"}

\* What the records and the tree owe to each other.  A flush that has appended
\* a record and not yet indexed it has the last record of the file.
DataInv ==
  /\ data \in Seq(Record) /\ batch \in Content /\ inflight \in [Flusher -> Content]
  /\ count \in [Events -> Nat]
  /\ pc["delete"] # "idle" => delKey \in Key
  /\ \A p \in Flusher : pc[p] = "index" => Len(data) > 0 /\ data[Len(data)].val # EmptyVal
  /\ \A k \in Key : btree[k] # NoPos => OwnRecord(k, btree[k])

\* The inductive invariant: IndexPointsToOwnRecord alone is not inductive, for
\* it says neither whose record a flush is about to index, nor that no Delete
\* rewrites the image meanwhile, nor what the image decodes to.
EngineInv == LockInv /\ DataInv /\ IndexP!IndexInv

-----------------------------------------------------------------------------
\* The engine's keys are not empty, and its constants are fit for the index.
LEMMA Assumed == IndexP!NoEmptyKey /\ IndexP!IndexAssumption
BY EngineAssumption DEF IndexP!NoEmptyKey, IndexP!EmptyKey

\* A new engine holds no lock (OpenDBWithPathsAndWAL).
LEMMA LockInit == Init => LockInv
BY DEF Init, LockInv, Index!Init, Label, Flusher, Locked

\* db.lock is taken before log, data file and index are touched, and released
\* only behind the last of them: FlushBatch, Delete and their error returns.
LEMMA LockStep == LockInv /\ [Next]_vars => LockInv'
<1> SUFFICES ASSUME LockInv, [Next]_vars PROVE LockInv'
  OBVIOUS
<1> USE DEF LockInv, Label, Locked, Flusher
<1>1. ASSUME NEW k \in Key, Put(k) PROVE LockInv'
  BY <1>1 DEF Put, files
<1>2. ASSUME NEW k \in Key, DeleteStart(k) PROVE LockInv'
  BY <1>2 DEF DeleteStart, Goto, Index!RemoveStart
<1>3. ASSUME NEW r \in Reader, NEW k \in Key, GetMissesBatch(r, k) PROVE LockInv'
  BY <1>3 DEF GetMissesBatch, files
<1>4. ASSUME NEW r \in Reader, GetReadsStore(r) PROVE LockInv'
  BY <1>4 DEF GetReadsStore, files
<1>5. CASE DeleteRewrites
  BY <1>5 DEF DeleteRewrites, Index!RemoveAppend
<1>6. CASE DeleteLogs
  BY <1>6 DEF DeleteLogs, Goto
<1>7. CASE DeleteAppends
  BY <1>7 DEF DeleteAppends, DeleteUnlocks, Goto
<1>8. CASE DeleteFails
  BY <1>8 DEF DeleteFails, DeleteUnlocks, Goto, files
<1>9. ASSUME NEW p \in Flusher, SwapBatch(p) PROVE LockInv'
  BY <1>9 DEF SwapBatch, Goto, AfterFlush, files
<1>10. ASSUME NEW p \in Flusher, LockForFlush(p) PROVE LockInv'
  BY <1>10 DEF LockForFlush, Goto, files
<1>11. ASSUME NEW p \in Flusher, AddToIndex(p) PROVE LockInv'
  BY <1>11 DEF AddToIndex, Goto, Index!Add
<1>12. ASSUME NEW p \in Flusher, SyncAndCommit(p) PROVE LockInv'
  BY <1>12 DEF SyncAndCommit, Goto
<1>13. ASSUME NEW p \in Flusher, Checkpoint(p) PROVE LockInv'
  BY <1>13 DEF Checkpoint, Goto, AfterFlush
<1>14. ASSUME NEW p \in Flusher, FlushFails(p) PROVE LockInv'
  BY <1>14 DEF FlushFails, Goto, AfterFlush, files
<1>15. ASSUME NEW p \in Flusher, NEW k \in Key, WriteWAL(p, k) PROVE LockInv'
  BY <1>15 DEF WriteWAL, Goto
<1>16. ASSUME NEW p \in Flusher, NEW k \in Key, AppendRecord(p, k) PROVE LockInv'
  BY <1>16 DEF AppendRecord, Goto
<1>17. CASE CloseStart
  BY <1>17 DEF CloseStart, Goto, files
<1>18. CASE CloseStep
  BY <1>18 DEF CloseStep, Goto
<1>19. CASE Kill
  BY <1>19 DEF Kill, Index!Kill, Index!Open
<1>20. CASE Start
  BY <1>20 DEF Start, Goto
<1>21. CASE StartDone
  BY <1>21 DEF StartDone, Goto
<1>22. CASE UNCHANGED vars
  BY <1>22 DEF vars, files
<1> QED
  BY <1>1, <1>2, <1>3, <1>4, <1>5, <1>6, <1>7, <1>8, <1>9, <1>10, <1>11, <1>12, <1>13, <1>14, <1>15, <1>16, <1>17, <1>18, <1>19, <1>20, <1>21, <1>22 DEF Next, FlushStep, DeleteStep

-----------------------------------------------------------------------------
\* The operations of the index that KVEngine uses are those the proofs of
\* BTreeIndexProofs are about.
LEMMA SameIndex ==
  /\ Index!Init <=> IndexP!Init
  /\ \A k \in Key : \A p : Index!Add(k, p) <=> IndexP!Add(k, p)
  /\ \A k \in Key : Index!RemoveStart(k) <=> IndexP!RemoveStart(k)
  /\ Index!RemoveAppend <=> IndexP!RemoveAppend
  /\ Index!Kill <=> IndexP!Kill
  /\ \A s : Index!Loaded(s) = IndexP!Loaded(s)
<1> USE DEF Index!NoPos, IndexP!NoPos, Index!FirstPos, IndexP!FirstPos,
            Index!EmptyKey, IndexP!EmptyKey, Index!ZeroSlot, IndexP!ZeroSlot,
            Index!Zeros, IndexP!Zeros, Index!LastSlot, IndexP!LastSlot
<1>1. \A s : Index!Loaded(s) = IndexP!Loaded(s)
  BY Zenon DEF Index!Loaded, IndexP!Loaded
<1>2. \A s, o, k, p : Index!Appended(s, o, k, p) = IndexP!Appended(s, o, k, p)
  BY Zenon DEF Index!Appended, IndexP!Appended, Index!Truncated, IndexP!Truncated
<1>3. Index!Init <=> IndexP!Init
  BY <1>1, Zenon DEF Index!Init, IndexP!Init
<1>4. \A k \in Key : \A p : Index!Add(k, p) <=> IndexP!Add(k, p)
  BY <1>2, Zenon DEF Index!Add, IndexP!Add
<1>5. \A k \in Key : Index!RemoveStart(k) <=> IndexP!RemoveStart(k)
  BY Zenon DEF Index!RemoveStart, IndexP!RemoveStart
<1>6. Index!RemoveAppend <=> IndexP!RemoveAppend
  BY <1>2, Zenon DEF Index!RemoveAppend, IndexP!RemoveAppend
<1>7. Index!Kill <=> IndexP!Kill
  BY <1>1, Zenon DEF Index!Kill, IndexP!Kill, Index!Open, IndexP!Open
<1> QED BY <1>1, <1>3, <1>4, <1>5, <1>6, <1>7

\* A step of the engine is one of the index or leaves the index alone.
LEMMA StepOfIndex == DataInv /\ [Next]_vars => [IndexP!Next]_(IndexP!vars)
<1> SUFFICES ASSUME DataInv, [Next]_vars PROVE [IndexP!Next]_(IndexP!vars)
  OBVIOUS
<1> USE SameIndex
<1> DEFINE Idle == UNCHANGED <<btree, slots, off, rewrite>>
<1>1. ASSUME NEW k \in Key, DeleteStart(k) PROVE IndexP!Next
  BY <1>1 DEF DeleteStart, IndexP!Next
<1>2. ASSUME DeleteRewrites PROVE IndexP!Next
  BY <1>2 DEF DeleteRewrites, IndexP!Next
<1>3. ASSUME NEW p \in Flusher, AddToIndex(p) PROVE IndexP!Next
  <2>1. data \in Seq(Record) /\ Len(data) \in Nat \ {0}
    BY <1>3 DEF AddToIndex, DataInv
  <2>2. data[Len(data)].key \in Key /\ Len(data) \in IndexP!Pos
    <3>1. data[Len(data)] \in Record
      BY <2>1
    <3>2. Len(data) \in IndexP!Pos
      BY <2>1 DEF IndexP!Pos, IndexP!NoPos
    <3> QED BY <3>1, <3>2 DEF Record
  <2>3. IndexP!Add(data[Len(data)].key, Len(data))
    BY <1>3, <2>2 DEF AddToIndex
  <2> QED BY <2>2, <2>3 DEF IndexP!Next
<1>4. ASSUME Kill PROVE IndexP!Next
  BY <1>4 DEF Kill, IndexP!Next
<1>5. ASSUME NEW k \in Key, Put(k) PROVE Idle
  BY <1>5 DEF Put, files
<1>6. ASSUME NEW r \in Reader, NEW k \in Key, GetMissesBatch(r, k) PROVE Idle
  BY <1>6 DEF GetMissesBatch, files
<1>7. ASSUME NEW r \in Reader, GetReadsStore(r) PROVE Idle
  BY <1>7 DEF GetReadsStore, files
<1>8. ASSUME DeleteLogs \/ DeleteAppends \/ DeleteFails PROVE Idle
  BY <1>8 DEF DeleteLogs, DeleteAppends, DeleteFails, files
<1>9. ASSUME NEW p \in Flusher, SwapBatch(p) \/ LockForFlush(p) \/ FlushFails(p) PROVE Idle
  BY <1>9 DEF SwapBatch, LockForFlush, FlushFails, files
<1>10. ASSUME NEW p \in Flusher, SyncAndCommit(p) \/ Checkpoint(p) PROVE Idle
  BY <1>10 DEF SyncAndCommit, Checkpoint
<1>11. ASSUME NEW p \in Flusher, NEW k \in Key, WriteWAL(p, k) \/ AppendRecord(p, k) PROVE Idle
  BY <1>11 DEF WriteWAL, AppendRecord
<1>12. ASSUME CloseStart \/ CloseStep PROVE Idle
  BY <1>12 DEF CloseStart, CloseStep, files
<1>13. ASSUME Start \/ StartDone PROVE Idle
  BY <1>13 DEF Start, StartDone
<1>14. ASSUME UNCHANGED vars PROVE Idle
  BY <1>14 DEF vars, files
<1> QED
  BY <1>1, <1>2, <1>3, <1>4, <1>5, <1>6, <1>7, <1>8, <1>9, <1>10, <1>11, <1>12, <1>13, <1>14
     DEF Next, FlushStep, DeleteStep, IndexP!vars

-----------------------------------------------------------------------------
\* A new engine has an empty tree.
LEMMA DataInit == Init => DataInv
<1> SUFFICES ASSUME Init PROVE DataInv
  OBVIOUS
<1>1. \A k \in Key : btree[k] = NoPos
  BY SameIndex, Assumed, IndexP!FreshIsEmpty DEF Init, NoPos, Index!NoPos, IndexP!NoPos
<1> QED BY <1>1 DEF Init, DataInv, Record, Content, Events, Nothing, Flusher

\* Every bounded event is counted, and counts are natural numbers.
LEMMA CountedType ==
  ASSUME count \in [Events -> Nat], NEW e \in Events, NEW n \in Nat, Counted(e, n)
  PROVE  count' \in [Events -> Nat] /\ count[e] \in Nat /\ count[e] < n
BY DEF Counted

\* A record stays where it is when another one is appended to the data file.
LEMMA AppendKeepsRecords ==
  ASSUME data \in Seq(Record), NEW r \in Record, data' = Append(data, r)
  PROVE  /\ data' \in Seq(Record) /\ Len(data') = Len(data) + 1 /\ data'[Len(data')] = r
         /\ \A k \in Key, n \in Nat : OwnRecord(k, n) => OwnRecord(k, n)'
BY DEF OwnRecord

\* A step that leaves data file, tree, batch and inflight alone.
LEMMA QuietStep ==
  ASSUME DataInv, UNCHANGED <<data, btree, batch, inflight>>,
         count' \in [Events -> Nat], pc'["delete"] # "idle" => delKey' \in Key,
         \A p \in Flusher : pc'[p] = "index" => pc[p] = "index"
  PROVE  DataInv'
BY DEF DataInv, OwnRecord, NoPos, Index!NoPos

\* What a restart would load is a part of the tree.
LEMMA ImageHoldsTree ==
  ASSUME DataInv, IndexP!IndexInv, DataFits
  PROVE  \A k \in Key : Index!Loaded(slots)[k] \in {NoPos, btree[k]}
<1>1. btree \in [Key -> Nat] /\ PosMod \in Nat
  BY EngineAssumption DEF IndexP!IndexInv, IndexP!IndexTypeOK
<1>2. \A k \in Key : btree[k] # NoPos => btree[k] <= Len(data)
  BY DEF DataInv, OwnRecord
<1>3. data \in Seq(Record) /\ Len(data) \in Nat /\ Len(data) <= PosMod
  BY DEF DataInv, DataFits
<1>4. ASSUME NEW k \in Key PROVE btree[k] <= PosMod
  <2>1. CASE btree[k] = NoPos
    BY <1>1, <2>1 DEF NoPos, Index!NoPos
  <2>2. CASE btree[k] # NoPos
    <3>1. btree[k] <= Len(data) /\ btree[k] \in Nat
      BY <1>1, <1>2, <2>2
    <3> QED BY <1>1, <1>3, <3>1
  <2> QED BY <2>1, <2>2
<1>5. IndexP!KillRevivesNothing
  BY <1>4, Assumed, IndexP!FittingImage DEF IndexP!PositionsFit
<1> QED BY <1>5, SameIndex DEF IndexP!KillRevivesNothing, NoPos, Index!NoPos, IndexP!NoPos

\* Every action keeps what tree and image say of a key true of the data file:
\* records are appended first and never changed.
LEMMA DataStep ==
  DataInv /\ LockInv /\ IndexP!IndexInv /\ DataFits /\ [Next]_vars => DataInv'
<1> SUFFICES ASSUME DataInv, LockInv, IndexP!IndexInv, DataFits, [Next]_vars PROVE DataInv'
  OBVIOUS
<1> USE EngineAssumption
<1>a. /\ data \in Seq(Record) /\ batch \in Content /\ inflight \in [Flusher -> Content]
      /\ count \in [Events -> Nat] /\ (pc["delete"] # "idle" => delKey \in Key)
      /\ btree \in [Key -> Nat] /\ pc \in [Flusher \cup {"delete"} -> Label]
  BY DEF DataInv, LockInv, IndexP!IndexInv, IndexP!IndexTypeOK
<1>1. ASSUME NEW k \in Key, Put(k) PROVE DataInv'
  <2>1. count' \in [Events -> Nat] /\ count["put"] + 1 \in Val
    BY <1>1, <1>a, CountedType DEF Put, Events, Val, Counted
  <2>2. batch' \in Content
    BY <1>1, <1>a, <2>1 DEF Put, Content
  <2> QED BY <1>1, <2>1, <2>2 DEF Put, DataInv, files, OwnRecord
<1>2. ASSUME NEW k \in Key, DeleteStart(k) PROVE DataInv'
  <2>1. count' \in [Events -> Nat]
    BY <1>2, <1>a, CountedType DEF DeleteStart, Events
  <2>2. delKey' \in Key /\ \A p \in Flusher : pc'[p] = "index" => pc[p] = "index"
    BY <1>2, <1>a DEF DeleteStart, Goto, Flusher
  <2>3. \A j \in Key : btree'[j] # NoPos => btree[j] # NoPos /\ btree'[j] = btree[j]
    BY <1>2, <1>a DEF DeleteStart, Index!RemoveStart, NoPos
  <2>4. UNCHANGED <<data, batch, inflight>>
    BY <1>2 DEF DeleteStart
  <2> QED BY <1>a, <2>1, <2>2, <2>3, <2>4 DEF DataInv, OwnRecord
<1>3. ASSUME NEW r \in Reader, NEW k \in Key, GetMissesBatch(r, k) PROVE DataInv'
  BY <1>3, <1>a, QuietStep DEF GetMissesBatch, files
<1>4. ASSUME NEW r \in Reader, GetReadsStore(r) PROVE DataInv'
  BY <1>4, <1>a, QuietStep DEF GetReadsStore, files
<1>5. CASE DeleteRewrites
  BY <1>5, <1>a, QuietStep DEF DeleteRewrites, Index!RemoveAppend
<1>6. CASE DeleteLogs
  BY <1>6, <1>a, QuietStep DEF DeleteLogs, Goto, Flusher
<1>7. CASE DeleteAppends
  <2> DEFINE r == [key |-> delKey, val |-> EmptyVal]
  <2>1. r \in Record /\ data' = Append(data, r)
    BY <1>7, <1>a DEF DeleteAppends, Record
  <2>2. /\ data' \in Seq(Record)
        /\ \A k \in Key, n \in Nat : OwnRecord(k, n) => OwnRecord(k, n)'
    BY <1>a, <2>1, AppendKeepsRecords
  <2>3. pc'["delete"] = "idle" /\ \A p \in Flusher : pc'[p] # "index"
    BY <1>7, <1>a DEF DeleteAppends, DeleteUnlocks, Goto, Flusher, LockInv, Locked
  <2>4. UNCHANGED <<btree, batch, inflight, count>>
    BY <1>7 DEF DeleteAppends
  <2> QED BY <1>a, <2>2, <2>3, <2>4 DEF DataInv, NoPos, Index!NoPos
<1>8. CASE DeleteFails
  <2>1. count' \in [Events -> Nat]
    BY <1>8, <1>a, CountedType DEF DeleteFails, Events
  <2> QED BY <1>8, <1>a, <2>1, QuietStep DEF DeleteFails, DeleteUnlocks, Goto, Flusher, files
<1>9. ASSUME NEW p \in Flusher, SwapBatch(p) PROVE DataInv'
  <2>1. batch' \in Content /\ inflight' \in [Flusher -> Content]
    BY <1>9, <1>a DEF SwapBatch, Content, Nothing
  <2>2. pc'["delete"] = pc["delete"] /\ \A q \in Flusher : pc'[q] = "index" => pc[q] = "index"
    BY <1>9, <1>a DEF SwapBatch, Goto, Flusher, AfterFlush
  <2>3. UNCHANGED <<data, btree, delKey, count>>
    BY <1>9 DEF SwapBatch, files
  <2> QED BY <1>a, <2>1, <2>2, <2>3 DEF DataInv, OwnRecord
<1>10. ASSUME NEW p \in Flusher, LockForFlush(p) PROVE DataInv'
  BY <1>10, <1>a, QuietStep DEF LockForFlush, Goto, Flusher, files
<1>11. ASSUME NEW p \in Flusher, AddToIndex(p) PROVE DataInv'
  <2> DEFINE k == data[Len(data)].key
  <2>1. Len(data) \in Nat /\ Len(data) > 0 /\ data[Len(data)] \in Record /\ data[Len(data)].val # EmptyVal
    BY <1>11, <1>a DEF AddToIndex, DataInv
  <2>2. k \in Key /\ OwnRecord(k, Len(data))
    BY <2>1 DEF Record, OwnRecord
  <2> HIDE DEF k
  <2>3. btree' = [btree EXCEPT ![k] = Len(data)]
    BY <1>11 DEF AddToIndex, Index!Add, k
  <2>4. \A j \in Key : btree'[j] # NoPos => OwnRecord(j, btree'[j])
    BY <1>a, <2>2, <2>3 DEF DataInv
  <2>5. inflight' \in [Flusher -> Content]
    BY <1>11, <1>a, <2>2 DEF AddToIndex, Content, k
  <2>6. pc'["delete"] = pc["delete"] /\ \A q \in Flusher : pc'[q] = "index" => pc[q] = "index"
    BY <1>11, <1>a DEF AddToIndex, Goto, Flusher
  <2>7. UNCHANGED <<data, batch, delKey, count>>
    BY <1>11 DEF AddToIndex
  <2> QED BY <1>a, <2>4, <2>5, <2>6, <2>7 DEF DataInv, OwnRecord
<1>12. ASSUME NEW p \in Flusher, SyncAndCommit(p) PROVE DataInv'
  BY <1>12, <1>a, QuietStep DEF SyncAndCommit, Goto, Flusher
<1>13. ASSUME NEW p \in Flusher, Checkpoint(p) PROVE DataInv'
  BY <1>13, <1>a, QuietStep DEF Checkpoint, Goto, Flusher, AfterFlush
<1>14. ASSUME NEW p \in Flusher, FlushFails(p) PROVE DataInv'
  <2>1. count' \in [Events -> Nat]
    BY <1>14, <1>a, CountedType DEF FlushFails, Events
  <2>2. inflight' \in [Flusher -> Content]
    BY <1>14, <1>a DEF FlushFails, Content, Nothing
  <2>3. pc'["delete"] = pc["delete"] /\ \A q \in Flusher : pc'[q] = "index" => pc[q] = "index"
    BY <1>14, <1>a DEF FlushFails, Goto, Flusher, AfterFlush
  <2>4. UNCHANGED <<data, btree, batch, delKey>>
    BY <1>14 DEF FlushFails, files
  <2> QED BY <1>a, <2>1, <2>2, <2>3, <2>4 DEF DataInv, OwnRecord
<1>15. ASSUME NEW p \in Flusher, NEW k \in Key, WriteWAL(p, k) PROVE DataInv'
  BY <1>15, <1>a, QuietStep DEF WriteWAL, Goto, Flusher
<1>16. ASSUME NEW p \in Flusher, NEW k \in Key, AppendRecord(p, k) PROVE DataInv'
  <2> DEFINE r == [key |-> k, val |-> inflight[p][k]]
  <2>1. r \in Record /\ r.val # EmptyVal /\ data' = Append(data, r)
    BY <1>16, <1>a DEF AppendRecord, Record, Content, Val, EmptyVal, NoVal
  <2> HIDE DEF r
  <2>2. /\ data' \in Seq(Record) /\ Len(data') = Len(data) + 1 /\ data'[Len(data')] = r
        /\ \A j \in Key, n \in Nat : OwnRecord(j, n) => OwnRecord(j, n)'
    BY <1>a, <2>1, AppendKeepsRecords
  <2>3. pc'["delete"] = pc["delete"]
    BY <1>16, <1>a DEF AppendRecord, Goto, Flusher
  <2>4. UNCHANGED <<btree, batch, inflight, delKey, count>>
    BY <1>16 DEF AppendRecord
  <2>5. Len(data') > 0 /\ data'[Len(data')].val # EmptyVal
    BY <1>a, <2>1, <2>2
  <2> QED BY <1>a, <2>2, <2>3, <2>4, <2>5 DEF DataInv, NoPos, Index!NoPos
<1>17. CASE CloseStart
  <2>1. count' \in [Events -> Nat]
    BY <1>17, <1>a, CountedType DEF CloseStart, Events
  <2> QED BY <1>17, <1>a, <2>1, QuietStep DEF CloseStart, Goto, Flusher, files
<1>18. CASE CloseStep
  BY <1>18, <1>a, QuietStep DEF CloseStep, Goto, Flusher
<1>19. CASE Kill
  <2>1. \A k \in Key : btree'[k] \in {NoPos, btree[k]}
    BY <1>19, ImageHoldsTree DEF Kill, Index!Kill, Index!Open
  <2>2. count' \in [Events -> Nat]
    BY <1>19, <1>a, CountedType DEF Kill, Events
  <2>3. batch' \in Content /\ inflight' \in [Flusher -> Content]
    BY <1>19 DEF Kill, Content, Nothing
  <2>4. \A q \in Flusher \cup {"delete"} : pc'[q] = "idle"
    BY <1>19, <1>a DEF Kill
  <2>5. data' = data
    BY <1>19 DEF Kill
  <2> QED BY <1>a, <2>1, <2>2, <2>3, <2>4, <2>5 DEF DataInv, OwnRecord
<1>20. CASE Start
  <2>1. batch' \in Content
    BY <1>20, <1>a DEF Start, Content
  <2>2. pc'["delete"] = pc["delete"] /\ \A q \in Flusher : pc'[q] = "index" => pc[q] = "index"
    BY <1>20, <1>a DEF Start, Goto, Flusher
  <2>3. UNCHANGED <<data, btree, inflight, delKey, count>>
    BY <1>20 DEF Start
  <2> QED BY <1>a, <2>1, <2>2, <2>3 DEF DataInv, OwnRecord
<1>21. CASE StartDone
  BY <1>21, <1>a, QuietStep DEF StartDone, Goto, Flusher
<1>22. CASE UNCHANGED vars
  BY <1>22, <1>a, QuietStep DEF vars, files
<1> QED
  BY <1>1, <1>2, <1>3, <1>4, <1>5, <1>6, <1>7, <1>8, <1>9, <1>10, <1>11, <1>12, <1>13,
     <1>14, <1>15, <1>16, <1>17, <1>18, <1>19, <1>20, <1>21, <1>22
  DEF Next, FlushStep, DeleteStep

-----------------------------------------------------------------------------
\* The invariant holds of every behaviour whose data file stays below the
\* range of a stored position.
LEMMA EngineInvariant == Spec /\ []DataFits => []EngineInv
<1>1. Init => EngineInv
  BY LockInit, DataInit, SameIndex, Assumed, IndexP!IndexInit DEF EngineInv, Init
<1>2. EngineInv /\ DataFits /\ [Next]_vars => EngineInv'
  <2> SUFFICES ASSUME EngineInv, DataFits, [Next]_vars PROVE EngineInv'
    OBVIOUS
  <2>1. LockInv' /\ DataInv'
    BY LockStep, DataStep DEF EngineInv
  <2>2. IndexP!IndexInv'
    BY StepOfIndex, Assumed, IndexP!IndexStep DEF EngineInv
  <2> QED BY <2>1, <2>2 DEF EngineInv
<1> QED BY <1>1, <1>2, PTL DEF Spec

\* Get never meets "key mismatch at position" or a tombstone, and neither does
\* the process that is started after a kill at any step: db.lock and the order
\* data file before index keep the tree and its image on records of the key.
THEOREM IndexIsSound == Spec /\ []DataFits => []IndexPointsToOwnRecord
<1>1. EngineInv /\ DataFits => IndexPointsToOwnRecord
  <2> SUFFICES ASSUME EngineInv, DataFits PROVE IndexPointsToOwnRecord
    OBVIOUS
  <2>1. \A k \in Key : Index!Loaded(slots)[k] \in {NoPos, btree[k]}
    BY ImageHoldsTree DEF EngineInv
  <2> QED BY <2>1 DEF EngineInv, DataInv, IndexPointsToOwnRecord
<1> QED BY <1>1, EngineInvariant, PTL

\* db.lock is held by one goroutine at a time: two flushes, or a flush and a
\* Delete, are never between Lock and Unlock together.
THEOREM OneWriter ==
  Spec => [](\A p, q \in Flusher : pc[p] \in Locked /\ pc[q] \in Locked => p = q /\ pc["delete"] = "idle")
<1>1. LockInv => \A p, q \in Flusher : pc[p] \in Locked /\ pc[q] \in Locked => p = q /\ pc["delete"] = "idle"
  BY DEF LockInv, Flusher
<1> QED BY <1>1, LockInit, LockStep, PTL DEF Spec

-----------------------------------------------------------------------------
\* The types of the variables that LockInv and DataInv do not speak of, and one
\* fact that is not a type: the keys that a flush has still to log have a value
\* in its copy of the batch.
RestInv ==
  /\ todo \subseteq Key
  /\ \A p \in Flusher : pc[p] = "wal" => \A k \in todo : inflight[p][k] # NoVal
  /\ lock \in Flusher \cup {"delete", "free"}
  /\ phase \in {"down", "opening", "up", "closing", "closed"}
  /\ open \subseteq {"wal", "data"}
  /\ delKey \in Key \cup {0}
  /\ reading \in [Reader -> Key \cup {0}] /\ legal \in [Reader -> SUBSET Value]
  /\ acked \in [Key -> Value] /\ before \in [Key -> Value] /\ maybe \in [Key -> SUBSET Value]

\* The operations of the log that KVEngine uses are those of WALProofs.
LEMMA SameLog ==
  /\ Wal!InitLog <=> WalP!InitLog
  /\ Wal!WALTypeOK <=> WalP!WALTypeOK
  /\ Wal!OpenLog <=> WalP!OpenLog
  /\ Wal!Clear <=> WalP!Clear
  /\ Wal!MarkCommitted <=> WalP!MarkCommitted
  /\ \A k, v : Wal!WriteEntry(k, v) <=> WalP!WriteEntry(k, v)
  /\ \A k : Wal!WriteDelete(k) <=> WalP!WriteDelete(k)
<1> USE DEF Wal!EmptyVal, WalP!EmptyVal, Wal!Entry, WalP!Entry, Wal!NoEntry, WalP!NoEntry,
            Wal!Zero, WalP!Zero, Wal!Cell, WalP!Cell
<1>1. Wal!WALTypeOK <=> WalP!WALTypeOK
  BY Zenon DEF Wal!WALTypeOK, WalP!WALTypeOK
<1>2. \A c, p, n : Wal!WrittenAt(c, p, n) = WalP!WrittenAt(c, p, n)
  BY Zenon DEF Wal!WrittenAt, WalP!WrittenAt
<1>3. \A e, flag : Wal!Encoded(e, flag) = WalP!Encoded(e, flag)
  BY Zenon DEF Wal!Encoded, WalP!Encoded, Wal!BodyLen, WalP!BodyLen
<1>4. \A n : Wal!Written(n) = WalP!Written(n)
  BY <1>2, Zenon DEF Wal!Written, WalP!Written
<1>5. /\ Wal!InitLog <=> WalP!InitLog
      /\ Wal!OpenLog <=> WalP!OpenLog
      /\ Wal!Clear <=> WalP!Clear
  BY Zenon DEF Wal!InitLog, WalP!InitLog, Wal!OpenLog, WalP!OpenLog, Wal!Clear, WalP!Clear
<1>6. Wal!MarkCommitted <=> WalP!MarkCommitted
  BY <1>2, Zenon DEF Wal!MarkCommitted, WalP!MarkCommitted
<1>7. /\ \A k, v : Wal!WriteEntry(k, v) <=> WalP!WriteEntry(k, v)
      /\ \A k : Wal!WriteDelete(k) <=> WalP!WriteDelete(k)
  BY <1>3, <1>4, Zenon DEF Wal!WriteEntry, WalP!WriteEntry, Wal!WriteDelete, WalP!WriteDelete
<1> QED BY <1>1, <1>5, <1>6, <1>7

\* The engine's constants are fit for the log.
LEMMA LogAssumed == WalP!WALAssumption
BY EngineAssumption DEF WalP!WALAssumption, WalP!EmptyVal, Val

\* The log stays well-formed under whatever flushes, deletes, Close and kills
\* do to it.
LEMMA LogStep ==
  Wal!WALTypeOK /\ RestInv /\ DataInv /\ [Next]_vars => Wal!WALTypeOK'
<1> SUFFICES ASSUME Wal!WALTypeOK, RestInv, DataInv, [Next]_vars PROVE Wal!WALTypeOK'
  OBVIOUS
<1> DEFINE SomeEntry == \E k \in Key, v \in Val : Wal!WriteEntry(k, v)
           SomeDelete == \E k \in Key : Wal!WriteDelete(k)
           Known == Wal!OpenLog \/ Wal!Clear \/ Wal!MarkCommitted \/ UNCHANGED log
                    \/ SomeEntry \/ SomeDelete
<1>a. ASSUME Known PROVE Wal!WALTypeOK'
  <2>1. WalP!WALTypeOK /\ (WalP!WALTypeOK' => Wal!WALTypeOK')
    BY SameLog DEF Wal!WALTypeOK, WalP!WALTypeOK, Wal!Cell, WalP!Cell, Wal!Entry, WalP!Entry,
       Wal!Zero, WalP!Zero, Wal!NoEntry, WalP!NoEntry, Wal!EmptyVal, WalP!EmptyVal
  <2>2. \/ WalP!OpenLog \/ WalP!Clear \/ WalP!MarkCommitted \/ UNCHANGED log
        \/ \E k \in Key, v \in Val : WalP!WriteEntry(k, v)
        \/ \E k \in Key : WalP!WriteDelete(k)
        \/ \E result : WalP!Replay(result)
    BY <1>a, SameLog, Zenon
  <2> QED BY <2>1, <2>2, LogAssumed, WalP!LogType
<1>b. /\ inflight \in [Flusher -> Content] /\ (pc["delete"] # "idle" => delKey \in Key)
      /\ todo \subseteq Key
      /\ \A p \in Flusher : pc[p] = "wal" => \A k \in todo : inflight[p][k] # NoVal
  BY DEF DataInv, RestInv
<1>1. ASSUME NEW p \in Flusher, NEW k \in Key, WriteWAL(p, k) PROVE SomeEntry
  <2>1. inflight[p][k] \in Val /\ Wal!WriteEntry(k, inflight[p][k])
    BY <1>1, <1>b DEF WriteWAL, Content
  <2> QED BY <2>1
<1>2. ASSUME DeleteLogs PROVE SomeDelete \/ UNCHANGED log
  <2>1. delKey \in Key
    BY <1>2, <1>b DEF DeleteLogs
  <2> QED BY <1>2, <2>1 DEF DeleteLogs
<1>3. ASSUME NEW p \in Flusher, SyncAndCommit(p) \/ Checkpoint(p) PROVE Known
  BY <1>3 DEF SyncAndCommit, Checkpoint
<1>4. ASSUME CloseStep \/ Kill \/ StartDone PROVE Known
  BY <1>4 DEF CloseStep, Kill, StartDone
<1>5. ASSUME NEW k \in Key, Put(k) PROVE UNCHANGED log
  BY <1>5 DEF Put, files
<1>6. ASSUME NEW k \in Key, DeleteStart(k) PROVE UNCHANGED log
  BY <1>6 DEF DeleteStart
<1>7. ASSUME NEW r \in Reader, NEW k \in Key, GetMissesBatch(r, k) PROVE UNCHANGED log
  BY <1>7 DEF GetMissesBatch, files
<1>8. ASSUME NEW r \in Reader, GetReadsStore(r) PROVE UNCHANGED log
  BY <1>8 DEF GetReadsStore, files
<1>9. ASSUME DeleteRewrites \/ DeleteAppends \/ DeleteFails PROVE UNCHANGED log
  BY <1>9 DEF DeleteRewrites, DeleteAppends, DeleteFails, files
<1>10. ASSUME NEW p \in Flusher, SwapBatch(p) \/ LockForFlush(p) \/ FlushFails(p) \/ AddToIndex(p)
       PROVE  UNCHANGED log
  BY <1>10 DEF SwapBatch, LockForFlush, FlushFails, AddToIndex, files
<1>11. ASSUME NEW p \in Flusher, NEW k \in Key, AppendRecord(p, k) PROVE UNCHANGED log
  BY <1>11 DEF AppendRecord
<1>12. ASSUME CloseStart PROVE UNCHANGED log
  BY <1>12 DEF CloseStart, files
<1>13. ASSUME UNCHANGED vars PROVE UNCHANGED log
  BY <1>13 DEF vars, files
<1>14. ASSUME Start PROVE Wal!WALTypeOK'
  <2>1. log' = log \/ log' = [log EXCEPT !.pos = Len(log.cells)]
    BY <1>14 DEF Start, Wal!Replay
  <2>2. log \in [cells : Seq(Wal!Cell), pos : Nat] /\ Len(log.cells) \in Nat
    BY DEF Wal!WALTypeOK
  <2> QED BY <2>1, <2>2 DEF Wal!WALTypeOK
<1> HIDE DEF SomeEntry, SomeDelete
<1>15. Known \/ Start
  BY <1>1, <1>2, <1>3, <1>4, <1>5, <1>6, <1>7, <1>8, <1>9, <1>10, <1>11, <1>12, <1>13
     DEF Next, FlushStep, DeleteStep
<1> QED BY <1>a, <1>14, <1>15

\* What a Get finds behind the index is a value, a tombstone or nothing.
LEMMA StoredType ==
  ASSUME DataInv, NEW k \in Key
  PROVE  Stored(k) \in Value
<1>1. CASE btree[k] = NoPos
  BY <1>1 DEF Stored, ValueAt, Value
<1>2. CASE btree[k] # NoPos
  <2>1. OwnRecord(k, btree[k]) /\ data \in Seq(Record)
    BY <1>2 DEF DataInv
  <2>2. data[btree[k]] \in Record
    BY <2>1 DEF OwnRecord
  <2> QED BY <1>2, <2>2 DEF Stored, ValueAt, Record, Value
<1> QED BY <1>1, <1>2

\* Types of everything that DataInv and LockInv leave out, step by step.
LEMMA RestStep ==
  RestInv /\ DataInv /\ LockInv /\ [Next]_vars => RestInv'
<1> SUFFICES ASSUME RestInv, DataInv, LockInv, [Next]_vars PROVE RestInv'
  OBVIOUS
<1> USE DEF RestInv
<1>a. /\ inflight \in [Flusher -> Content] /\ pc \in [Flusher \cup {"delete"} -> Label]
      /\ count \in [Events -> Nat]
      /\ \A p \in Flusher : pc[p] \in Locked => lock = p
  BY DEF DataInv, LockInv
<1>1. ASSUME NEW k \in Key, Put(k) PROVE RestInv'
  <2> DEFINE v == count["put"] + 1
  <2>1. v \in Val
    BY <1>1, <1>a, CountedType, EngineAssumption DEF Put, Events, Val
  <2>2. acked' = [acked EXCEPT ![k] = v]
    BY <1>1 DEF Put, SetAcked
  <2>3. legal' = [r \in Reader |-> IF reading[r] = k THEN legal[r] \cup {v} ELSE legal[r]]
    BY <1>1 DEF Put, SetAcked
  <2>4. UNCHANGED <<todo, pc, inflight, lock, phase, open, delKey, reading, before, maybe>>
    BY <1>1 DEF Put, files, history
  <2> HIDE DEF v
  <2>5. acked' \in [Key -> Value] /\ legal' \in [Reader -> SUBSET Value]
    BY <2>1, <2>2, <2>3 DEF Value
  <2> QED BY <2>4, <2>5
<1>2. ASSUME NEW k \in Key, DeleteStart(k) PROVE RestInv'
  BY <1>2, <1>a DEF Flusher, Locked, DeleteStart, Goto, reads, history
<1>3. ASSUME NEW r \in Reader, NEW k \in Key, GetMissesBatch(r, k) PROVE RestInv'
  BY <1>3, <1>a DEF Flusher, Locked, GetMissesBatch, files, history
<1>4. ASSUME NEW r \in Reader, GetReadsStore(r) PROVE RestInv'
  BY <1>4, <1>a DEF Flusher, Locked, GetReadsStore, files, history
<1>5. CASE DeleteRewrites
  BY <1>5, <1>a DEF Flusher, Locked, DeleteRewrites, reads, history
<1>6. CASE DeleteLogs
  BY <1>6, <1>a DEF Flusher, Locked, DeleteLogs, Goto, reads, history
<1>7. CASE DeleteAppends
  BY <1>7, <1>a DEF Flusher, Locked, DeleteAppends, DeleteUnlocks, SetAcked, Goto, history, Value
<1>8. CASE DeleteFails
  BY <1>8, <1>a DEF Flusher, Locked, DeleteFails, DeleteUnlocks, Goto, files, reads, history
<1>9. ASSUME NEW p \in Flusher, SwapBatch(p) PROVE RestInv'
  BY <1>9, <1>a DEF Flusher, Locked, SwapBatch, Goto, AfterFlush, files, reads, history
<1>10. ASSUME NEW p \in Flusher, LockForFlush(p) PROVE RestInv'
  BY <1>10, <1>a DEF Flusher, Locked, LockForFlush, Goto, files, reads, history, Keys
<1>11. ASSUME NEW p \in Flusher, AddToIndex(p) PROVE RestInv'
  BY <1>11, <1>a DEF Flusher, Locked, AddToIndex, Goto, reads, history
<1>12. ASSUME NEW p \in Flusher, SyncAndCommit(p) PROVE RestInv'
  BY <1>12, <1>a DEF Flusher, Locked, SyncAndCommit, Goto, reads, history
<1>13. ASSUME NEW p \in Flusher, Checkpoint(p) PROVE RestInv'
  BY <1>13, <1>a DEF Flusher, Locked, Checkpoint, Goto, AfterFlush, reads, history
<1>14. ASSUME NEW p \in Flusher, FlushFails(p) PROVE RestInv'
  BY <1>14, <1>a DEF Flusher, Locked, FlushFails, Goto, AfterFlush, files, reads, history
<1>15. ASSUME NEW p \in Flusher, NEW k \in Key, WriteWAL(p, k) PROVE RestInv'
  BY <1>15, <1>a DEF Flusher, Locked, WriteWAL, Goto, reads, history
<1>16. ASSUME NEW p \in Flusher, NEW k \in Key, AppendRecord(p, k) PROVE RestInv'
  BY <1>16, <1>a DEF Flusher, Locked, AppendRecord, Goto, reads, history
<1>17. CASE CloseStart
  BY <1>17, <1>a DEF Flusher, Locked, CloseStart, Goto, files, reads, history
<1>18. CASE CloseStep
  BY <1>18, <1>a DEF Flusher, Locked, CloseStep, Goto, reads, history
<1>19. CASE Kill
  <2>1. before' \in [Key -> Value]
    <3>1. \A k \in Key : Stored(k) \in Value
      BY StoredType
    <3>2. before' = before \/ before' = [k \in Key |-> Stored(k)]
      BY <1>19 DEF Kill, history
    <3> QED BY <3>1, <3>2
  <2>2. maybe' \in [Key -> SUBSET Value]
    <3> DEFINE onTheWay == [k \in Key |-> IF k = delKey THEN Val
                              ELSE {inflight[p][k] : p \in Flusher} \ {NoVal}]
    <3>1. maybe' = maybe \/ maybe' = onTheWay
      BY <1>19 DEF Kill, history
    <3>2. \A k \in Key : {inflight[p][k] : p \in Flusher} \ {NoVal} \subseteq Value
      BY <1>a DEF Content, Value
    <3>3. onTheWay \in [Key -> SUBSET Value]
      BY <3>2 DEF Value
    <3> QED BY <3>1, <3>3
  <2>3. /\ todo' = {} /\ lock' = "free" /\ phase' = "down" /\ open' = {"wal", "data"} /\ delKey' = 0
        /\ reading' = [r \in Reader |-> 0] /\ legal' = [r \in Reader |-> {}] /\ UNCHANGED acked
    BY <1>19 DEF Kill
  <2> QED BY <2>1, <2>2, <2>3
<1>20. CASE Start
  BY <1>20, <1>a DEF Flusher, Locked, Start, Goto, reads, history
<1>21. CASE StartDone
  BY <1>21, <1>a DEF Flusher, Locked, StartDone, Goto, reads, history
<1>22. CASE UNCHANGED vars
  BY <1>22, <1>a DEF Flusher, Locked, vars, files, reads, history
<1> QED
  BY <1>1, <1>2, <1>3, <1>4, <1>5, <1>6, <1>7, <1>8, <1>9, <1>10, <1>11, <1>12, <1>13, <1>14, <1>15, <1>16, <1>17, <1>18, <1>19, <1>20, <1>21, <1>22 DEF Next, FlushStep, DeleteStep

\* A new engine has the types.
LEMMA RestInit == Init => RestInv /\ Wal!WALTypeOK
<1> SUFFICES ASSUME Init PROVE RestInv /\ Wal!WALTypeOK
  OBVIOUS
<1>1. WalP!WALTypeOK
  BY SameLog, LogAssumed, WalP!InitType DEF Init
<1> QED BY <1>1, SameLog DEF Init, RestInv, Flusher, Nothing, Value

\* Type correctness of the engine, with its log and its index.
THEOREM TypeCorrect == Spec /\ []DataFits => []TypeOK
<1>1. Init => RestInv /\ Wal!WALTypeOK
  BY RestInit
<1>2. EngineInv /\ RestInv /\ Wal!WALTypeOK /\ [Next]_vars => RestInv' /\ Wal!WALTypeOK'
  BY RestStep, LogStep DEF EngineInv
<1>3. EngineInv /\ RestInv /\ Wal!WALTypeOK => TypeOK
  <2> SUFFICES ASSUME EngineInv, RestInv, Wal!WALTypeOK PROVE TypeOK
    OBVIOUS
  <2>1. Index!IndexTypeOK
    BY DEF EngineInv, IndexP!IndexInv, IndexP!IndexTypeOK, Index!IndexTypeOK, Index!Slot, IndexP!Slot,
       Index!Pos, IndexP!Pos, Index!NoPos, IndexP!NoPos
  <2> QED BY <2>1 DEF EngineInv, DataInv, LockInv, RestInv, TypeOK, Record, Content, Label, Events
<1> QED BY <1>1, <1>2, <1>3, EngineInvariant, PTL DEF Spec

-----------------------------------------------------------------------------
\* Order.  With one flusher, the ticker, the values of a key are in order along
\* their way, and nothing is newer than the last Put.

\* No Close runs, and no log is replayed.
OnlyTicker == MaxCloses = 0 /\ (EnableWAL => MaxKills = 0)

Ordered(k) ==
  /\ inflight["auto"][k] # NoVal => inflight["auto"][k] > Stored(k)
  /\ batch[k] # NoVal => batch[k] > inflight["auto"][k] /\ batch[k] > Stored(k)
  /\ batch[k] <= count["put"] /\ inflight["auto"][k] <= count["put"] /\ Stored(k) <= count["put"]

OrderInv ==
  /\ phase \in {"up", "down"} /\ (EnableWAL => phase = "up")
  /\ pc["open"] = "idle" /\ pc["close"] = "idle"
  /\ inflight["open"] = Nothing /\ inflight["close"] = Nothing
  /\ pc["auto"] = "index" => data[Len(data)].val = inflight["auto"][data[Len(data)].key]
  /\ \A k \in Key : Ordered(k)

\* Appending to the data file changes nothing that is stored.
LEMMA AppendStoresNothing ==
  ASSUME DataInv, NEW r \in Record, data' = Append(data, r), btree' = btree, NEW k \in Key
  PROVE  Stored(k)' = Stored(k)
<1>1. CASE btree[k] = NoPos
  BY <1>1 DEF Stored, ValueAt
<1>2. CASE btree[k] # NoPos
  <2>1. btree[k] \in 1..Len(data) /\ data \in Seq(Record)
    BY <1>2 DEF DataInv, OwnRecord
  <2>2. data'[btree[k]] = data[btree[k]]
    BY <2>1
  <2> QED BY <2>2 DEF Stored, ValueAt
<1> QED BY <1>1, <1>2

\* A step that puts nothing, moves nothing, and stores nothing.
LEMMA OrderedStep ==
  ASSUME DataInv, OrderInv, UNCHANGED <<batch, inflight>>, count'["put"] = count["put"],
         pc'["open"] = "idle", pc'["close"] = "idle",
         phase' \in {"up", "down"}, EnableWAL => phase' = "up",
         pc'["auto"] = "index" => pc["auto"] = "index" /\ data' = data,
         \A k \in Key : Stored(k)' \in {NoVal, Stored(k)}
  PROVE  OrderInv'
<1>1. ASSUME NEW k \in Key PROVE Ordered(k)'
  <2>1. /\ batch[k] \in Val \cup {NoVal} /\ inflight["auto"][k] \in Val \cup {NoVal}
        /\ Stored(k) \in Value /\ count["put"] \in Nat
    BY StoredType DEF DataInv, Content, Flusher, Events
  <2>2. Stored(k)' <= Stored(k) /\ Stored(k)' \in Int
    BY <2>1 DEF Value, Val, NoVal, EmptyVal
  <2>3. Ordered(k)
    BY DEF OrderInv
  <2> QED BY <2>1, <2>2, <2>3 DEF Ordered, Value, Val, NoVal, EmptyVal
<1> QED BY <1>1 DEF OrderInv

\* In a new engine nothing is on its way.
LEMMA OrderInit == Init => OrderInv
<1> SUFFICES ASSUME Init PROVE OrderInv
  OBVIOUS
<1>1. \A k \in Key : btree[k] = NoPos
  BY SameIndex, Assumed, IndexP!FreshIsEmpty DEF Init, NoPos, Index!NoPos, IndexP!NoPos
<1>2. \A k \in Key : Stored(k) = NoVal /\ batch[k] = NoVal /\ inflight["auto"][k] = NoVal
  BY <1>1 DEF Init, Stored, ValueAt, Nothing, Flusher
<1>3. count["put"] = 0
  BY DEF Init
<1>4. ASSUME NEW k \in Key PROVE Ordered(k)
  <2>1. Stored(k) = -1 /\ batch[k] = -1 /\ inflight["auto"][k] = -1
    BY <1>2 DEF NoVal
  <2> QED BY <1>3, <2>1 DEF Ordered, NoVal
<1> QED BY <1>4 DEF Init, OrderInv, Flusher

\* A put is newer than all before it, a swap moves the whole batch behind an
\* empty batchCopy, and AddToIndex stores what batchCopy has: the order stays.
LEMMA OrderStep ==
  OnlyTicker /\ EngineInv /\ OrderInv /\ DataFits /\ [Next]_vars => OrderInv'
<1> SUFFICES ASSUME OnlyTicker, EngineInv, OrderInv, DataFits, [Next]_vars PROVE OrderInv'
  OBVIOUS
<1>a. DataInv /\ LockInv /\ IndexP!IndexInv
  BY DEF EngineInv
<1>b. /\ data \in Seq(Record) /\ batch \in Content /\ inflight \in [Flusher -> Content]
      /\ count \in [Events -> Nat] /\ pc \in [Flusher \cup {"delete"} -> Label]
      /\ btree \in [Key -> Nat] /\ (pc["delete"] # "idle" => delKey \in Key)
  BY <1>a DEF DataInv, LockInv, IndexP!IndexInv, IndexP!IndexTypeOK
<1>c. /\ phase \in {"up", "down"} /\ (EnableWAL => phase = "up")
      /\ pc["open"] = "idle" /\ pc["close"] = "idle" /\ MaxCloses = 0
      /\ inflight["open"] = Nothing /\ inflight["close"] = Nothing
  BY DEF OrderInv, OnlyTicker
<1>d. \A k \in Key : batch[k] \in Int /\ inflight["auto"][k] \in Int /\ Stored(k) \in Int
  BY <1>a, <1>b, StoredType DEF Content, Flusher, Val, NoVal, Value, EmptyVal
<1>e. UNCHANGED <<data, btree>> => \A k \in Key : Stored(k)' = Stored(k)
  BY DEF Stored, ValueAt, NoPos, Index!NoPos
<1>1. ASSUME NEW k \in Key, Put(k) PROVE OrderInv'
  <2>1. /\ count'["put"] = count["put"] + 1 /\ batch' = [batch EXCEPT ![k] = count["put"] + 1]
        /\ count["put"] \in Nat
    BY <1>1, <1>b DEF Put, Counted, Events
  <2>2. UNCHANGED <<data, btree, inflight, pc, phase>>
    BY <1>1 DEF Put, files
  <2>3. ASSUME NEW j \in Key PROVE Ordered(j)'
    <3>1. Ordered(j) /\ Stored(j)' = Stored(j) /\ batch[j] \in Int /\ inflight["auto"][j] \in Int /\ Stored(j) \in Int
      BY <1>d, <1>e, <2>2 DEF OrderInv
    <3>2. inflight' = inflight /\ batch'[j] = (IF j = k THEN count["put"] + 1 ELSE batch[j])
      BY <1>b, <2>1, <2>2 DEF Content
    <3> QED BY <2>1, <3>1, <3>2 DEF Ordered, NoVal
  <2> QED BY <2>2, <2>3 DEF OrderInv
<1>2. ASSUME NEW k \in Key, DeleteStart(k) PROVE OrderInv'
  <2>1. \A j \in Key : btree'[j] \in {NoPos, btree[j]}
    BY <1>2, <1>b DEF DeleteStart, Index!RemoveStart, NoPos
  <2>2. UNCHANGED <<data, batch, inflight, phase>> /\ count'["put"] = count["put"]
    BY <1>2, <1>b DEF DeleteStart, Counted, Events
  <2>3. \A j \in Key : Stored(j)' \in {NoVal, Stored(j)}
    BY <2>1, <2>2 DEF Stored, ValueAt, NoPos, Index!NoPos
  <2>4. pc'["open"] = "idle" /\ pc'["close"] = "idle" /\ pc'["auto"] = pc["auto"]
    BY <1>2, <1>b, <1>c DEF DeleteStart, Goto, Flusher
  <2> QED BY <1>a, <1>c, <2>2, <2>3, <2>4, OrderedStep
<1>3. ASSUME NEW r \in Reader, NEW k \in Key, GetMissesBatch(r, k) PROVE OrderInv'
  BY <1>3, <1>a, <1>b, <1>c, <1>e, OrderedStep DEF GetMissesBatch, files
<1>4. ASSUME NEW r \in Reader, GetReadsStore(r) PROVE OrderInv'
  BY <1>4, <1>a, <1>b, <1>c, <1>e, OrderedStep DEF GetReadsStore, files
<1>5. CASE DeleteRewrites
  BY <1>5, <1>a, <1>b, <1>c, <1>e, OrderedStep DEF DeleteRewrites, Index!RemoveAppend
<1>6. CASE DeleteLogs
  BY <1>6, <1>a, <1>b, <1>c, <1>e, OrderedStep DEF DeleteLogs, Goto, Flusher
<1>7. CASE DeleteAppends
  <2>1. [key |-> delKey, val |-> EmptyVal] \in Record
    BY <1>7, <1>b DEF DeleteAppends, Record
  <2>2. \A k \in Key : Stored(k)' = Stored(k)
    BY <1>7, <1>a, <2>1, AppendStoresNothing DEF DeleteAppends
  <2>3. pc["auto"] # "index" /\ pc'["auto"] = pc["auto"] /\ pc'["open"] = "idle" /\ pc'["close"] = "idle"
    BY <1>7, <1>a, <1>b, <1>c DEF DeleteAppends, DeleteUnlocks, Goto, Flusher, LockInv, Locked
  <2> QED BY <1>7, <1>a, <1>c, <2>2, <2>3, OrderedStep DEF DeleteAppends
<1>8. CASE DeleteFails
  <2>1. count'["put"] = count["put"]
    BY <1>8, <1>b DEF DeleteFails, Counted, Events
  <2> QED BY <1>8, <1>a, <1>b, <1>c, <1>e, <2>1, OrderedStep DEF DeleteFails, DeleteUnlocks, Goto, Flusher, files
<1>9. ASSUME NEW p \in Flusher, SwapBatch(p) PROVE OrderInv'
  <2>1. p = "auto"
    BY <1>9, <1>c DEF SwapBatch, Flusher
  <2>2. /\ batch' = Nothing /\ inflight'["auto"] = batch
        /\ inflight'["open"] = Nothing /\ inflight'["close"] = Nothing
    BY <1>9, <1>b, <1>c, <2>1 DEF SwapBatch, Flusher
  <2>3. /\ UNCHANGED <<data, btree, phase, count>>
        /\ pc'["open"] = "idle" /\ pc'["close"] = "idle" /\ pc'["auto"] # "index"
    BY <1>9, <1>b, <1>c, <2>1 DEF SwapBatch, Goto, AfterFlush, Flusher, files
  <2>4. ASSUME NEW k \in Key PROVE Ordered(k)'
    <3>1. Ordered(k) /\ Stored(k)' = Stored(k) /\ count["put"] \in Nat /\ batch[k] \in Int
      BY <1>b, <1>d, <1>e, <2>3 DEF OrderInv, Events
    <3>2. batch'[k] = NoVal /\ inflight'["auto"][k] = batch[k]
      BY <2>2 DEF Nothing
    <3> QED BY <2>3, <3>1, <3>2 DEF Ordered, NoVal
  <2> QED BY <1>c, <2>2, <2>3, <2>4 DEF OrderInv
<1>10. ASSUME NEW p \in Flusher, LockForFlush(p) PROVE OrderInv'
  BY <1>10, <1>a, <1>b, <1>c, <1>e, OrderedStep DEF LockForFlush, Goto, Flusher, files
<1>11. ASSUME NEW p \in Flusher, AddToIndex(p) PROVE OrderInv'
  <2>1. p = "auto" /\ pc["auto"] = "index"
    BY <1>11, <1>c DEF AddToIndex, Flusher
  <2>2. /\ Len(data) \in Nat \ {0} /\ data[Len(data)] \in Record /\ data[Len(data)].val # EmptyVal
        /\ data[Len(data)].val = inflight["auto"][data[Len(data)].key]
    BY <1>a, <1>b, <2>1 DEF DataInv, OrderInv, Flusher
  <2>3. PICK k \in Key, v \in Val :
          k = data[Len(data)].key /\ v = data[Len(data)].val /\ v = inflight["auto"][k]
    BY <2>2 DEF Record
  <2>4. btree' = [btree EXCEPT ![k] = Len(data)] /\ inflight' = [inflight EXCEPT !["auto"][k] = NoVal]
    BY <1>11, <2>1, <2>3 DEF AddToIndex, Index!Add
  <2>5. UNCHANGED <<data, batch, phase, count>>
    BY <1>11 DEF AddToIndex
  <2>6. pc'["open"] = "idle" /\ pc'["close"] = "idle" /\ pc'["auto"] # "index"
    BY <1>11, <1>b, <1>c, <2>1 DEF AddToIndex, Goto, Flusher
  <2>7. Stored(k)' = v
    BY <1>b, <2>2, <2>3, <2>4, <2>5 DEF Stored, ValueAt, NoPos, Index!NoPos
  <2>8. \A j \in Key : j # k => Stored(j)' = Stored(j)
    BY <1>b, <2>3, <2>4, <2>5 DEF Stored, ValueAt, NoPos, Index!NoPos
  <2>9. \A j \in Key : inflight'["auto"][j] = (IF j = k THEN NoVal ELSE inflight["auto"][j])
    BY <1>b, <2>3, <2>4 DEF Content, Flusher
  <2>10. inflight'["open"] = Nothing /\ inflight'["close"] = Nothing
    BY <1>b, <1>c, <2>4 DEF Flusher
  <2>11. ASSUME NEW j \in Key PROVE Ordered(j)'
    <3>1. Ordered(j) /\ count["put"] \in Nat /\ batch[j] \in Int /\ inflight["auto"][j] \in Int
      BY <1>b, <1>d DEF OrderInv, Events
    <3>2. CASE j = k
      <4>1. v = inflight["auto"][j] /\ v \in Nat
        BY <2>3, <3>2 DEF Val
      <4>2. Stored(j)' = v /\ inflight'["auto"][j] = NoVal /\ batch' = batch /\ count' = count
        BY <2>5, <2>7, <2>9, <3>2
      <4> QED BY <3>1, <4>1, <4>2 DEF Ordered, NoVal
    <3>3. CASE j # k
      BY <2>5, <2>8, <2>9, <3>1, <3>3 DEF Ordered
    <3> QED BY <3>2, <3>3
  <2> QED BY <1>c, <2>5, <2>6, <2>10, <2>11 DEF OrderInv
<1>12. ASSUME NEW p \in Flusher, SyncAndCommit(p) PROVE OrderInv'
  BY <1>12, <1>a, <1>b, <1>c, <1>e, OrderedStep DEF SyncAndCommit, Goto, Flusher
<1>13. ASSUME NEW p \in Flusher, Checkpoint(p) PROVE OrderInv'
  BY <1>13, <1>a, <1>b, <1>c, <1>e, OrderedStep DEF Checkpoint, Goto, Flusher, AfterFlush
<1>14. ASSUME NEW p \in Flusher, FlushFails(p) PROVE OrderInv'
  <2>1. p = "auto"
    BY <1>14, <1>c DEF FlushFails, Flusher
  <2>2. /\ inflight'["auto"] = Nothing /\ inflight'["open"] = Nothing /\ inflight'["close"] = Nothing
        /\ pc'["open"] = "idle" /\ pc'["close"] = "idle" /\ pc'["auto"] # "index"
    BY <1>14, <1>b, <1>c, <2>1 DEF FlushFails, Goto, AfterFlush, Flusher
  <2>3. UNCHANGED <<data, btree, batch, phase>> /\ count'["put"] = count["put"]
    BY <1>14, <1>b DEF FlushFails, Counted, Events, files
  <2>4. ASSUME NEW k \in Key PROVE Ordered(k)'
    <3>1. /\ Ordered(k) /\ Stored(k)' = Stored(k) /\ count["put"] \in Nat /\ batch[k] \in Val \cup {NoVal}
          /\ Stored(k) \in Int
      BY <1>b, <1>d, <1>e, <2>3 DEF OrderInv, Events, Content
    <3>2. inflight'["auto"][k] = NoVal /\ batch'[k] = batch[k]
      BY <2>2, <2>3 DEF Nothing
    <3> QED BY <2>3, <3>1, <3>2 DEF Ordered, NoVal, Val
  <2> QED BY <1>c, <2>2, <2>3, <2>4 DEF OrderInv
<1>15. ASSUME NEW p \in Flusher, NEW k \in Key, WriteWAL(p, k) PROVE OrderInv'
  BY <1>15, <1>a, <1>b, <1>c, <1>e, OrderedStep DEF WriteWAL, Goto, Flusher
<1>16. ASSUME NEW p \in Flusher, NEW k \in Key, AppendRecord(p, k) PROVE OrderInv'
  <2>1. p = "auto"
    BY <1>16, <1>c DEF AppendRecord, Flusher
  <2> DEFINE r == [key |-> k, val |-> inflight["auto"][k]]
  <2>2. r \in Record /\ data' = Append(data, r)
    BY <1>16, <1>b, <2>1 DEF AppendRecord, Record, Content
  <2>3. \A j \in Key : Stored(j)' = Stored(j)
    BY <1>16, <1>a, <2>2, AppendStoresNothing DEF AppendRecord
  <2>4. data'[Len(data')] = r
    BY <1>b, <2>2
  <2>5. UNCHANGED <<batch, inflight, phase, count>>
    BY <1>16 DEF AppendRecord
  <2>6. pc'["open"] = "idle" /\ pc'["close"] = "idle"
    BY <1>16, <1>b, <1>c, <2>1 DEF AppendRecord, Goto, Flusher
  <2>7. \A j \in Key : Ordered(j)'
    BY <2>3, <2>5 DEF OrderInv, Ordered
  <2> QED BY <1>c, <2>4, <2>5, <2>6, <2>7 DEF OrderInv
<1>17. CASE CloseStart \/ CloseStep \/ StartDone
  BY <1>17, <1>b, <1>c DEF CloseStart, CloseStep, StartDone, Counted, Events
<1>19. CASE Kill
  <2>1. ~EnableWAL
    BY <1>19, <1>b DEF OnlyTicker, Kill, Counted, Events
  <2>2. \A k \in Key : btree'[k] \in {NoPos, btree[k]}
    BY <1>19, <1>a, ImageHoldsTree DEF Kill, Index!Kill, Index!Open
  <2>3. /\ UNCHANGED data /\ phase' = "down" /\ batch' = Nothing /\ count'["put"] = count["put"]
        /\ inflight' = [p \in Flusher |-> Nothing]
        /\ pc'["open"] = "idle" /\ pc'["close"] = "idle" /\ pc'["auto"] = "idle"
    BY <1>19, <1>b DEF Kill, Counted, Events, Flusher
  <2>4. ASSUME NEW k \in Key PROVE Ordered(k)'
    <3>1. Stored(k)' \in {NoVal, Stored(k)}
      BY <2>2, <2>3 DEF Stored, ValueAt, NoPos, Index!NoPos
    <3>2. Stored(k) <= count["put"] /\ Stored(k) \in Int /\ count["put"] \in Nat
      BY <1>b, <1>d DEF OrderInv, Ordered, Events
    <3>3. batch'[k] = NoVal /\ inflight'["auto"][k] = NoVal
      BY <2>3 DEF Nothing, Flusher
    <3> QED BY <2>3, <3>1, <3>2, <3>3 DEF Ordered, NoVal
  <2> QED BY <2>1, <2>3, <2>4 DEF OrderInv, Flusher
<1>20. CASE Start
  <2>1. ~EnableWAL /\ phase' = "up" /\ UNCHANGED <<batch, pc>>
    BY <1>20, <1>c DEF Start
  <2> QED BY <1>20, <1>a, <1>c, <1>e, <2>1, OrderedStep DEF Start
<1>22. CASE UNCHANGED vars
  BY <1>22, <1>a, <1>b, <1>c, <1>e, OrderedStep DEF vars, files
<1> QED
  BY <1>1, <1>2, <1>3, <1>4, <1>5, <1>6, <1>7, <1>8, <1>9, <1>10, <1>11, <1>12, <1>13,
     <1>14, <1>15, <1>16, <1>17, <1>19, <1>20, <1>22
  DEF Next, FlushStep, DeleteStep

\* Where only the ticker flushes, no step of FlushBatch, Put, Delete or a kill
\* ever leaves an older value behind a newer one: a flush never takes a key of
\* the store back to an older value.
THEOREM OrderIsKept == OnlyTicker => (Spec /\ []DataFits => []NewerBehindOlder)
<1> SUFFICES ASSUME OnlyTicker PROVE Spec /\ []DataFits => []NewerBehindOlder
  OBVIOUS
<1>1. Init => OrderInv
  BY OrderInit
<1>2. EngineInv /\ OrderInv /\ DataFits /\ [Next]_vars => OrderInv'
  BY OrderStep
<1>3. EngineInv /\ OrderInv => NewerBehindOlder
  <2> SUFFICES ASSUME EngineInv, OrderInv, NEW k \in Key, NEW p \in Flusher
               PROVE  /\ inflight[p][k] # NoVal => inflight[p][k] > Stored(k)
                      /\ batch[k] # NoVal => batch[k] > inflight[p][k] /\ batch[k] > Stored(k)
    BY DEF NewerBehindOlder
  <2>1. CASE p = "auto"
    BY <2>1 DEF OrderInv, Ordered
  <2>2. CASE p # "auto"
    <3>1. inflight[p][k] = NoVal
      BY <2>2 DEF OrderInv, Flusher, Nothing
    <3>2. batch[k] \in Val \cup {NoVal}
      BY DEF EngineInv, DataInv, Content
    <3> QED BY <3>1, <3>2 DEF OrderInv, Ordered, Val, NoVal
  <2> QED BY <2>1, <2>2
<1> QED BY <1>1, <1>2, <1>3, EngineInvariant, PTL DEF Spec
-----------------------------------------------------------------------------
\* What a step may do to the store.

\* The image decodes to the tree: every key that is not still to be appended by a Remove is loaded with the position it has.
LEMMA ImageIsTree ==
  ASSUME DataInv, IndexP!IndexInv, DataFits, NEW k \in Key, k \notin rewrite
  PROVE  Index!Loaded(slots)[k] = btree[k]
<1>1. btree[k] \in Nat /\ PosMod \in Nat
  BY EngineAssumption DEF IndexP!IndexInv, IndexP!IndexTypeOK
<1>2. Index!Loaded(slots)[k] = (IF btree[k] = IndexP!NoPos THEN IndexP!NoPos ELSE IndexP!Truncated(btree[k]))
  BY SameIndex DEF IndexP!IndexInv
<1>3. CASE btree[k] = IndexP!NoPos
  BY <1>2, <1>3
<1>4. CASE btree[k] # IndexP!NoPos
  <2>1. data \in Seq(Record) /\ btree[k] \in 1..Len(data) /\ Len(data) <= PosMod
    BY <1>4 DEF DataInv, DataFits, OwnRecord, NoPos, Index!NoPos, IndexP!NoPos
  <2>2. btree[k] <= PosMod /\ btree[k] \in IndexP!Pos
    BY <1>1, <1>4, <2>1 DEF IndexP!Pos
  <2>3. IndexP!Truncated(btree[k]) = btree[k]
    BY <2>2, Assumed, IndexP!TruncatedIs
  <2> QED BY <1>2, <1>4, <2>3
<1> QED BY <1>3, <1>4

\* A process that dies (Kill, then NewBTreeIndex on the file it left) loses no
\* stored value but those of the keys persistIndex had still to append again,
\* and no kill brings a removed value up.
THEOREM KillIsExact == Spec /\ []DataFits => KillCostsOnlyRewrite
<1>1. EngineInv /\ DataFits =>
        [Kill => \A k \in Key : k \notin rewrite => Stored(k)' = Stored(k)]_vars
  <2> SUFFICES ASSUME EngineInv, DataFits, Kill, NEW k \in Key, k \notin rewrite
               PROVE  Stored(k)' = Stored(k)
    OBVIOUS
  <2>1. Index!Loaded(slots)[k] = btree[k]
    BY ImageIsTree DEF EngineInv
  <2>2. btree'[k] = btree[k] /\ data' = data
    BY <2>1 DEF Kill, Index!Kill, Index!Open
  <2> QED BY <2>2 DEF Stored, ValueAt, NoPos, Index!NoPos
<1> QED BY <1>1, EngineInvariant, PTL DEF KillCostsOnlyRewrite

\* What a single step does to the store, where only the ticker flushes.
LEMMA StoreStep ==
  ASSUME OnlyTicker, EngineInv, OrderInv, DataFits, [Next]_vars, NEW j \in Key
  PROVE  Stored(j)' # NoVal => Stored(j)' >= Stored(j)
<1>a. DataInv /\ LockInv /\ IndexP!IndexInv
  BY DEF EngineInv
<1>b. /\ data \in Seq(Record) /\ inflight \in [Flusher -> Content]
      /\ btree \in [Key -> Nat] /\ (pc["delete"] # "idle" => delKey \in Key)
  BY <1>a DEF DataInv, IndexP!IndexInv, IndexP!IndexTypeOK
<1>c. /\ pc["open"] = "idle" /\ pc["close"] = "idle"
      /\ inflight["open"] = Nothing /\ inflight["close"] = Nothing
  BY DEF OrderInv
<1>d. Stored(j) \in Int
  BY <1>a, StoredType DEF Val, NoVal, Value, EmptyVal
<1> DEFINE Forward == Stored(j)' # NoVal => Stored(j)' >= Stored(j)
<1>e. Stored(j)' \in {NoVal, Stored(j)} => Forward
  BY <1>d
<1>f. UNCHANGED <<data, btree>> => Forward
  BY <1>e DEF Stored, ValueAt, NoPos, Index!NoPos
<1> HIDE DEF Forward
<1>1. ASSUME NEW k \in Key, Put(k) PROVE Forward
  BY <1>1, <1>f DEF Put, files
<1>2. ASSUME NEW k \in Key, DeleteStart(k) PROVE Forward
  <2>1. btree'[j] \in {NoPos, btree[j]} /\ data' = data
    BY <1>2, <1>b DEF DeleteStart, Index!RemoveStart, NoPos
  <2> QED BY <1>e, <2>1 DEF Stored, ValueAt, NoPos, Index!NoPos
<1>3. ASSUME NEW r \in Reader, NEW k \in Key, GetMissesBatch(r, k) PROVE Forward
  BY <1>3, <1>f DEF GetMissesBatch, files
<1>4. ASSUME NEW r \in Reader, GetReadsStore(r) PROVE Forward
  BY <1>4, <1>f DEF GetReadsStore, files
<1>5. ASSUME DeleteRewrites \/ DeleteLogs \/ DeleteFails PROVE Forward
  BY <1>5, <1>f DEF DeleteRewrites, Index!RemoveAppend, DeleteLogs, DeleteFails, files
<1>7. ASSUME DeleteAppends PROVE Forward
  <2>1. [key |-> delKey, val |-> EmptyVal] \in Record
    BY <1>7, <1>b DEF DeleteAppends, Record
  <2>2. Stored(j)' = Stored(j)
    BY <1>7, <1>a, <2>1, AppendStoresNothing DEF DeleteAppends
  <2> QED BY <1>e, <2>2
<1>9. ASSUME NEW p \in Flusher, SwapBatch(p) \/ LockForFlush(p) \/ FlushFails(p) PROVE Forward
  BY <1>9, <1>f DEF SwapBatch, LockForFlush, FlushFails, files
<1>11. ASSUME NEW p \in Flusher, AddToIndex(p) PROVE Forward
  <2>1. p = "auto" /\ pc["auto"] = "index"
    BY <1>11, <1>c DEF AddToIndex, Flusher
  <2>2. /\ Len(data) \in Nat \ {0} /\ data[Len(data)] \in Record /\ data[Len(data)].val # EmptyVal
        /\ data[Len(data)].val = inflight["auto"][data[Len(data)].key]
    BY <1>a, <1>b, <2>1 DEF DataInv, OrderInv, Flusher
  <2>3. PICK k \in Key, v \in Val :
          k = data[Len(data)].key /\ v = data[Len(data)].val /\ v = inflight["auto"][k]
    BY <2>2 DEF Record
  <2>4. btree' = [btree EXCEPT ![k] = Len(data)] /\ data' = data
    BY <1>11, <2>1, <2>3 DEF AddToIndex, Index!Add
  <2>5. CASE j = k
    <3>1. Stored(j)' = v
      BY <1>b, <2>2, <2>3, <2>4, <2>5 DEF Stored, ValueAt, NoPos, Index!NoPos
    <3>2. v > Stored(j)
      BY <2>3, <2>5 DEF OrderInv, Ordered, Val, NoVal
    <3> QED BY <1>d, <3>1, <3>2 DEF Val, Forward
  <2>6. CASE j # k
    <3>1. Stored(j)' = Stored(j)
      BY <1>b, <2>3, <2>4, <2>6 DEF Stored, ValueAt, NoPos, Index!NoPos
    <3> QED BY <1>e, <3>1
  <2> QED BY <2>5, <2>6
<1>12. ASSUME NEW p \in Flusher, SyncAndCommit(p) \/ Checkpoint(p) PROVE Forward
  BY <1>12, <1>f DEF SyncAndCommit, Checkpoint
<1>15. ASSUME NEW p \in Flusher, NEW k \in Key, WriteWAL(p, k) PROVE Forward
  BY <1>15, <1>f DEF WriteWAL
<1>16. ASSUME NEW p \in Flusher, NEW k \in Key, AppendRecord(p, k) PROVE Forward
  <2>1. p = "auto"
    BY <1>16, <1>c DEF AppendRecord, Flusher
  <2> DEFINE r == [key |-> k, val |-> inflight["auto"][k]]
  <2>2. r \in Record /\ data' = Append(data, r)
    BY <1>16, <1>b, <2>1 DEF AppendRecord, Record, Content, Flusher
  <2>3. Stored(j)' = Stored(j)
    BY <1>16, <1>a, <2>2, AppendStoresNothing DEF AppendRecord
  <2> QED BY <1>e, <2>3
<1>17. ASSUME CloseStart \/ CloseStep \/ StartDone PROVE Forward
  BY <1>17, <1>f DEF CloseStart, CloseStep, StartDone, files
<1>19. ASSUME Kill PROVE Forward
  <2>1. btree'[j] \in {NoPos, btree[j]} /\ data' = data
    BY <1>19, <1>a, ImageHoldsTree DEF Kill, Index!Kill, Index!Open
  <2> QED BY <1>e, <2>1 DEF Stored, ValueAt, NoPos, Index!NoPos
<1>20. ASSUME Start PROVE Forward
  BY <1>20, <1>f DEF Start
<1>22. ASSUME UNCHANGED vars PROVE Forward
  BY <1>22, <1>f DEF vars, files
<1>30. Forward
  BY <1>1, <1>2, <1>3, <1>4, <1>5, <1>7, <1>9, <1>11, <1>12, <1>15, <1>16, <1>17, <1>19,
     <1>20, <1>22
  DEF Next, FlushStep, DeleteStep
<1> QED BY <1>30 DEF Forward

\* Where only the ticker flushes, no step puts an older value over a newer one:
\* a flush stores a newer value, a Delete or a kill at most takes one away.
THEOREM StoreNeverGoesBack == OnlyTicker => (Spec /\ []DataFits => StoreMovesForward)
<1> SUFFICES ASSUME OnlyTicker PROVE Spec /\ []DataFits => StoreMovesForward
  OBVIOUS
<1>1. Init => OrderInv
  BY OrderInit
<1>2. EngineInv /\ OrderInv /\ DataFits /\ [Next]_vars => OrderInv'
  BY OrderStep
<1>3. EngineInv /\ OrderInv /\ DataFits /\ [Next]_vars =>
        [\A k \in Key : Stored(k)' # NoVal => Stored(k)' >= Stored(k)]_vars
  BY StoreStep
<1> QED BY <1>1, <1>2, <1>3, EngineInvariant, PTL DEF StoreMovesForward, Spec
=============================================================================
