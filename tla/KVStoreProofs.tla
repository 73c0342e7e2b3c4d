----------------------------- MODULE KVStoreProofs -----------------------------
(***************************************************************************)
(* What KVEngine promises, for every set of keys and readers and every     *)
(* number of puts: that it implements the safety part of KVStore, what a   *)
(* restart without a log cannot bring back, what clients read while        *)
(* nothing fails, and what a log would give back after a kill.             *)
(***************************************************************************)
EXTENDS KVEngineProofs

\* No write fails: only then is nothing dropped that a flush has picked up.
NoFaults == MaxFaults = 0

\* Where only the ticker flushes and no write fails, both files stay open and
\* batchCopy is empty whenever no flush is going on.
FlushInv ==
  /\ open = {"wal", "data"}
  /\ pc["auto"] \in {"idle", "sync", "checkpoint"} => inflight["auto"] = Nothing

\* The values KVStore sees: batchCopy of whoever flushes, and what Get finds.
Moving == [k \in Key |-> IF \E p \in Flusher : inflight[p][k] # NoVal
             THEN inflight[CHOOSE p \in Flusher : inflight[p][k] # NoVal][k] ELSE NoVal]
InStore == [k \in Key |-> Stored(k)]

-----------------------------------------------------------------------------
\* A new engine has both files open and nothing picked up.
LEMMA FlushInit == Init => FlushInv
BY DEF Init, FlushInv, Flusher

\* A flush ends only behind its last index.Add (FlushBatch without faults).
LEMMA FlushStepKeeps ==
  OnlyTicker /\ NoFaults /\ EngineInv /\ OrderInv /\ FlushInv /\ [Next]_vars => FlushInv'
<1> SUFFICES ASSUME OnlyTicker, NoFaults, EngineInv, OrderInv, FlushInv, [Next]_vars
             PROVE  FlushInv'
  OBVIOUS
<1>a. /\ inflight \in [Flusher -> Content] /\ count \in [Events -> Nat]
      /\ pc \in [Flusher \cup {"delete"} -> Label] /\ data \in Seq(Record)
      /\ \A p \in Flusher : pc[p] = "index" => Len(data) > 0
  BY DEF EngineInv, DataInv, LockInv
<1>b. /\ pc["open"] = "idle" /\ pc["close"] = "idle"
      /\ phase \in {"up", "down"} /\ (EnableWAL => phase = "up")
      /\ MaxCloses = 0 /\ MaxFaults = 0
  BY DEF OrderInv, OnlyTicker, NoFaults
<1>c. open = {"wal", "data"} /\ (pc["auto"] \in {"idle", "sync", "checkpoint"} => inflight["auto"] = Nothing)
  BY DEF FlushInv
<1> DEFINE Same == UNCHANGED <<open, inflight>> /\ pc'["auto"] = pc["auto"]
<1>d. Same => FlushInv'
  BY <1>c DEF FlushInv
<1>1. ASSUME NEW k \in Key, Put(k) PROVE Same
  BY <1>1 DEF Put
<1>2. ASSUME NEW k \in Key, DeleteStart(k) PROVE Same
  BY <1>2, <1>a DEF DeleteStart, Goto, Flusher
<1>3. ASSUME NEW r \in Reader, NEW k \in Key, GetMissesBatch(r, k) PROVE Same
  BY <1>3 DEF GetMissesBatch
<1>4. ASSUME NEW r \in Reader, GetReadsStore(r) PROVE Same
  BY <1>4 DEF GetReadsStore
<1>5. ASSUME DeleteStep PROVE Same
  BY <1>5, <1>a DEF DeleteStep, DeleteRewrites, DeleteLogs, DeleteAppends, DeleteFails,
     DeleteUnlocks, Goto, Flusher
<1>6. ASSUME NEW p \in Flusher, SwapBatch(p) PROVE FlushInv'
  <2>1. p = "auto" /\ pc["auto"] = "idle"
    BY <1>6, <1>b DEF SwapBatch, Flusher
  <2>2. batch # Nothing /\ pc'["auto"] = "lock" /\ open' = open
    BY <1>6, <1>a, <2>1 DEF SwapBatch, Goto, Flusher
  <2> QED BY <1>c, <2>2 DEF FlushInv
<1>7. ASSUME NEW p \in Flusher, LockForFlush(p) PROVE FlushInv'
  BY <1>7, <1>a, <1>b, <1>c DEF LockForFlush, Goto, Flusher, FlushInv
<1>8. ASSUME NEW p \in Flusher, NEW k \in Key, WriteWAL(p, k) \/ AppendRecord(p, k) PROVE FlushInv'
  BY <1>8, <1>a, <1>b, <1>c DEF WriteWAL, AppendRecord, Goto, Flusher, FlushInv
<1>9. ASSUME NEW p \in Flusher, AddToIndex(p) PROVE FlushInv'
  <2>1. p = "auto" /\ pc["auto"] = "index"
    BY <1>9, <1>b DEF AddToIndex, Flusher
  <2> DEFINE k == data[Len(data)].key
  <2>2. data[Len(data)] \in Record
    BY <1>a, <2>1 DEF Flusher
  <2>3. k \in Key
    BY <2>2 DEF Record
  <2>4. /\ inflight' = [inflight EXCEPT !["auto"][k] = NoVal] /\ open' = open
        /\ pc'["auto"] = IF Keys(inflight["auto"]) = {k} THEN "sync" ELSE "data"
    BY <1>9, <1>a, <2>1 DEF AddToIndex, Goto, Flusher
  <2> HIDE DEF k
  <2>5. \A j \in Key : inflight'["auto"][j] = (IF j = k THEN NoVal ELSE inflight["auto"][j])
    BY <1>a, <2>3, <2>4 DEF Content, Flusher
  <2>6. inflight'["auto"] \in Content
    BY <1>a, <2>3, <2>4 DEF Content, Flusher
  <2>7. Keys(inflight["auto"]) = {k} => inflight'["auto"] = Nothing
    <3> SUFFICES ASSUME Keys(inflight["auto"]) = {k} PROVE inflight'["auto"] = Nothing
      OBVIOUS
    <3>1. \A j \in Key : inflight'["auto"][j] = NoVal
      BY <2>5 DEF Keys
    <3> QED BY <2>6, <3>1 DEF Content, Nothing
  <2> QED BY <1>c, <2>4, <2>7 DEF FlushInv
<1>10. ASSUME NEW p \in Flusher, SyncAndCommit(p) \/ Checkpoint(p) PROVE FlushInv'
  BY <1>10, <1>a, <1>b, <1>c DEF SyncAndCommit, Checkpoint, Goto, AfterFlush, Flusher, FlushInv
<1>11. ASSUME NEW p \in Flusher, FlushFails(p) PROVE FALSE
  BY <1>11, <1>a, <1>b, <1>c DEF FlushFails, Counted, Events
<1>12. ASSUME CloseStart \/ CloseStep \/ StartDone PROVE FALSE
  BY <1>12, <1>a, <1>b DEF CloseStart, CloseStep, StartDone, Counted, Events
<1>13. CASE Kill
  BY <1>13 DEF Kill, FlushInv, Flusher
<1>14. ASSUME Start PROVE Same
  BY <1>14, <1>b DEF Start
<1>15. ASSUME UNCHANGED vars PROVE Same
  BY <1>15 DEF vars
<1> HIDE DEF Same
<1> QED
  BY <1>d, <1>1, <1>2, <1>3, <1>4, <1>5, <1>6, <1>7, <1>8, <1>9, <1>10, <1>11, <1>12, <1>13,
     <1>14, <1>15
  DEF Next, FlushStep

-----------------------------------------------------------------------------
\* With the ticker as the only flusher, what is moving is the ticker's copy.
LEMMA MovingIs ==
  ASSUME NEW f \in [Flusher -> Content], f["open"] = Nothing, f["close"] = Nothing
  PROVE  [k \in Key |-> IF \E p \in Flusher : f[p][k] # NoVal
            THEN f[CHOOSE p \in Flusher : f[p][k] # NoVal][k] ELSE NoVal] = f["auto"]
<1> DEFINE m == [k \in Key |-> IF \E p \in Flusher : f[p][k] # NoVal
            THEN f[CHOOSE p \in Flusher : f[p][k] # NoVal][k] ELSE NoVal]
<1>1. \A k \in Key, p \in Flusher : f[p][k] # NoVal => p = "auto"
  BY DEF Flusher, Nothing
<1>2. ASSUME NEW k \in Key PROVE m[k] = f["auto"][k]
  <2>1. CASE \E p \in Flusher : f[p][k] # NoVal
    <3>1. (CHOOSE p \in Flusher : f[p][k] # NoVal) = "auto"
      BY <1>1, <2>1
    <3> QED BY <2>1, <3>1
  <2>2. CASE ~ \E p \in Flusher : f[p][k] # NoVal
    BY <2>2 DEF Flusher
  <2> QED BY <2>1, <2>2
<1>3. f["auto"] \in Content
  BY DEF Flusher
<1> HIDE DEF m
<1>4. m = f["auto"]
  BY <1>2, <1>3 DEF Content, m
<1> QED BY <1>4 DEF m

\* A key the tree has is a key the store has a value of, and no other is.
LEMMA StoredWhereIndexed ==
  ASSUME DataInv, NEW k \in Key
  PROVE  (Stored(k) # NoVal) <=> (btree[k] # NoPos)
<1>1. CASE btree[k] = NoPos
  BY <1>1 DEF Stored, ValueAt
<1>2. CASE btree[k] # NoPos
  <2>1. OwnRecord(k, btree[k]) /\ data \in Seq(Record)
    BY <1>2 DEF DataInv
  <2>2. data[btree[k]] \in Record /\ data[btree[k]].val # EmptyVal
    BY <2>1 DEF OwnRecord
  <2>3. data[btree[k]].val # NoVal
    BY <2>2, EngineAssumption DEF Record, Val, NoVal, EmptyVal
  <2> QED BY <1>2, <2>3 DEF Stored, ValueAt
<1> QED BY <1>1, <1>2

-----------------------------------------------------------------------------
\* An engine that was just created is an empty store.
LEMMA StoreInit == Init => Store!Init
<1> SUFFICES ASSUME Init PROVE Store!Init
  OBVIOUS
<1>1. \A k \in Key : btree[k] = NoPos
  BY SameIndex, Assumed, IndexP!FreshIsEmpty DEF Init, NoPos, Index!NoPos, IndexP!NoPos
<1>2. InStore = Store!Nothing
  BY <1>1 DEF InStore, Stored, ValueAt, Store!Nothing
<1>3. inflight = [p \in Flusher |-> Nothing] /\ Nothing \in Content
  BY DEF Init, Nothing, Content
<1>4. Moving = Store!Nothing
  BY <1>3 DEF Moving, Nothing, Store!Nothing, Flusher
<1>5. batch = Store!Nothing /\ rewrite = {}
  BY DEF Init, Nothing, Store!Nothing, Index!Init
<1> QED BY <1>2, <1>4, <1>5 DEF Store!Init, Moving, InStore

\* What KVStore's variables are, and are next, in terms of the ticker's copy.
LEMMA MapsTo ==
  ASSUME DataInv, DataInv', OrderInv, OrderInv'
  PROVE  /\ Moving = inflight["auto"] /\ Moving' = inflight'["auto"]
         /\ batch \in Content /\ inflight["auto"] \in Content
<1>1. /\ inflight \in [Flusher -> Content] /\ inflight["open"] = Nothing /\ inflight["close"] = Nothing
      /\ batch \in Content
  BY DEF DataInv, OrderInv
<1>2. inflight' \in [Flusher -> Content] /\ inflight'["open"] = Nothing /\ inflight'["close"] = Nothing
  BY DEF DataInv, OrderInv, Nothing
<1>3. Moving = inflight["auto"]
  BY <1>1, MovingIs DEF Moving
<1>4. Moving' = inflight'["auto"]
  BY <1>2, MovingIs DEF Moving
<1> QED BY <1>1, <1>3, <1>4 DEF Flusher

\* A step that leaves alone what KVStore speaks of.
LEMMA Stutters ==
  ASSUME DataInv, DataInv', OrderInv, OrderInv', UNCHANGED <<batch, inflight, rewrite>>,
         \A k \in Key : Stored(k)' = Stored(k)
  PROVE  UNCHANGED Store!vars
<1>1. Moving' = Moving
  BY MapsTo
<1>2. InStore' = InStore
  BY DEF InStore
<1> QED BY <1>1, <1>2 DEF Store!vars, Moving, InStore

\* Step by step: Put is Put, SwapBatch is MoveOut, AddToIndex is Apply,
\* DeleteStart is Delete, DeleteRewrites is Secure, Kill is Crash, and every
\* other step of FlushBatch, Delete, Get and OpenDB changes nothing KVStore
\* speaks of.
LEMMA StoreRefines ==
  ASSUME OnlyTicker, NoFaults, EngineInv, OrderInv, FlushInv, DataFits, [Next]_vars,
         EngineInv', OrderInv'
  PROVE  Store!Next \/ UNCHANGED Store!vars
<1>a. DataInv /\ DataInv' /\ LockInv /\ IndexP!IndexInv
  BY DEF EngineInv
<1>b. /\ data \in Seq(Record) /\ batch \in Content /\ inflight \in [Flusher -> Content]
      /\ count \in [Events -> Nat] /\ pc \in [Flusher \cup {"delete"} -> Label]
      /\ btree \in [Key -> Nat] /\ rewrite \subseteq Key /\ (pc["delete"] # "idle" => delKey \in Key)
  BY <1>a DEF DataInv, LockInv, IndexP!IndexInv, IndexP!IndexTypeOK
<1>c. /\ pc["open"] = "idle" /\ pc["close"] = "idle" /\ phase \in {"up", "down"}
      /\ (EnableWAL => phase = "up") /\ MaxCloses = 0 /\ MaxFaults = 0
  BY DEF OrderInv, OnlyTicker, NoFaults
<1>d. /\ Moving = inflight["auto"] /\ Moving' = inflight'["auto"] /\ inflight["auto"] \in Content
  BY <1>a, MapsTo
<1>e. UNCHANGED <<data, btree>> => \A k \in Key : Stored(k)' = Stored(k)
  BY DEF Stored, ValueAt, NoPos, Index!NoPos
<1>f. UNCHANGED <<data, btree, batch, inflight, rewrite>> => UNCHANGED Store!vars
  BY <1>a, <1>e, Stutters
<1> DEFINE Implemented == Store!Next \/ UNCHANGED Store!vars
<1>1. ASSUME NEW k \in Key, Put(k) PROVE Implemented
  <2>1. count["put"] + 1 \in Val
    BY <1>1, <1>b, CountedType, EngineAssumption DEF Put, Counted, Events, Val
  <2>2. Moving' = Moving /\ InStore' = InStore /\ rewrite' = rewrite
    BY <1>1, <1>d, <1>e DEF Put, files, InStore
  <2>3. batch' = [batch EXCEPT ![k] = count["put"] + 1]
    BY <1>1 DEF Put
  <2>4. Store!Put(k, count["put"] + 1)
    BY <2>2, <2>3 DEF Store!Put, Moving, InStore
  <2> QED BY <2>1, <2>4 DEF Store!Next
<1>2. ASSUME NEW k \in Key, DeleteStart(k) PROVE Implemented
  <2>1. /\ rewrite = {} /\ btree[k] # NoPos /\ btree' = [btree EXCEPT ![k] = NoPos]
        /\ rewrite' = {j \in Key : j # k /\ btree[j] # NoPos}
    BY <1>2 DEF DeleteStart, Index!RemoveStart, NoPos
  <2>2. UNCHANGED <<data, batch, inflight>>
    BY <1>2 DEF DeleteStart
  <2>3. \A j \in Key : Stored(j)' = IF j = k THEN NoVal ELSE Stored(j)
    BY <1>b, <2>1, <2>2 DEF Stored, ValueAt, NoPos, Index!NoPos
  <2>4. InStore' = [InStore EXCEPT ![k] = NoVal] /\ InStore[k] # NoVal
    BY <1>a, <2>1, <2>3, StoredWhereIndexed DEF InStore
  <2>5. rewrite' = {j \in Key \ {k} : InStore[j] # NoVal}
    BY <1>a, <2>1, StoredWhereIndexed DEF InStore
  <2>6. Moving' = Moving
    BY <1>d, <2>2
  <2>7. Store!Delete(k)
    BY <2>1, <2>2, <2>4, <2>5, <2>6 DEF Store!Delete, Moving, InStore
  <2> QED BY <2>7 DEF Store!Next
<1>3. ASSUME NEW r \in Reader, NEW k \in Key, GetMissesBatch(r, k) PROVE Implemented
  BY <1>3, <1>f DEF GetMissesBatch, files
<1>4. ASSUME NEW r \in Reader, GetReadsStore(r) PROVE Implemented
  BY <1>4, <1>f DEF GetReadsStore, files
<1>5. ASSUME DeleteRewrites PROVE Implemented
  <2>1. UNCHANGED <<data, batch, inflight>>
    BY <1>5 DEF DeleteRewrites
  <2>2. PICK k \in rewrite : rewrite' = rewrite \ {k} /\ btree' = btree
    BY <1>5 DEF DeleteRewrites, Index!RemoveAppend
  <2>3. Moving' = Moving /\ InStore' = InStore
    BY <1>d, <1>e, <2>1, <2>2 DEF InStore
  <2>4. k \in Key /\ Store!Secure(k)
    BY <1>b, <2>1, <2>2, <2>3 DEF Store!Secure, Moving, InStore
  <2> QED BY <2>4 DEF Store!Next
<1>6. ASSUME DeleteLogs \/ DeleteFails PROVE Implemented
  BY <1>6, <1>f DEF DeleteLogs, DeleteFails, files
<1>7. ASSUME DeleteAppends PROVE Implemented
  <2>1. [key |-> delKey, val |-> EmptyVal] \in Record
    BY <1>7, <1>b DEF DeleteAppends, Record
  <2>2. \A k \in Key : Stored(k)' = Stored(k)
    BY <1>7, <1>a, <2>1, AppendStoresNothing DEF DeleteAppends
  <2> QED BY <1>7, <1>a, <2>2, Stutters DEF DeleteAppends
<1>8. ASSUME NEW p \in Flusher, SwapBatch(p) PROVE Implemented
  <2>1. p = "auto" /\ pc["auto"] = "idle"
    BY <1>8, <1>c DEF SwapBatch, Flusher
  <2>2. batch # Nothing /\ batch' = Nothing /\ inflight'["auto"] = batch
    BY <1>8, <1>b, <2>1 DEF SwapBatch, Flusher
  <2>3. InStore' = InStore /\ rewrite' = rewrite
    BY <1>8, <1>e DEF SwapBatch, files, InStore
  <2>4. Moving = Nothing /\ Moving' = batch
    BY <1>d, <2>1, <2>2 DEF FlushInv
  <2>5. Store!MoveOut
    BY <2>2, <2>3, <2>4 DEF Store!MoveOut, Moving, InStore, Nothing, Store!Nothing
  <2> QED BY <2>5 DEF Store!Next
<1>9. ASSUME NEW p \in Flusher, LockForFlush(p) PROVE Implemented
  BY <1>9, <1>f DEF LockForFlush, files
<1>10. ASSUME NEW p \in Flusher, SyncAndCommit(p) \/ Checkpoint(p) PROVE Implemented
  BY <1>10, <1>f DEF SyncAndCommit, Checkpoint
<1>11. ASSUME NEW p \in Flusher, AddToIndex(p) PROVE Implemented
  <2>1. p = "auto" /\ pc["auto"] = "index"
    BY <1>11, <1>c DEF AddToIndex, Flusher
  <2>2. /\ Len(data) \in Nat \ {0} /\ data[Len(data)] \in Record /\ data[Len(data)].val # EmptyVal
        /\ data[Len(data)].val = inflight["auto"][data[Len(data)].key]
    BY <1>a, <1>b, <2>1 DEF DataInv, OrderInv, Flusher
  <2>3. PICK k \in Key, v \in Val :
          k = data[Len(data)].key /\ v = data[Len(data)].val /\ v = inflight["auto"][k]
    BY <2>2 DEF Record
  <2>4. btree' = [btree EXCEPT ![k] = Len(data)] /\ inflight' = [inflight EXCEPT !["auto"][k] = NoVal]
    BY <1>11, <2>1, <2>3 DEF AddToIndex, Index!Add
  <2>5. rewrite = {} /\ UNCHANGED <<data, batch, rewrite>>
    BY <1>11 DEF AddToIndex, Index!Add
  <2>6. \A j \in Key : Stored(j)' = IF j = k THEN v ELSE Stored(j)
    BY <1>b, <2>2, <2>3, <2>4, <2>5 DEF Stored, ValueAt, NoPos, Index!NoPos
  <2>7. InStore' = [InStore EXCEPT ![k] = v]
    BY <2>6 DEF InStore
  <2>8. inflight'["auto"] = [inflight["auto"] EXCEPT ![k] = NoVal]
    BY <1>b, <2>4 DEF Flusher
  <2>9. Moving' = [Moving EXCEPT ![k] = NoVal] /\ Moving[k] = v /\ v # NoVal
    BY <1>d, <2>3, <2>8, EngineAssumption DEF Val, NoVal
  <2>10. Store!Apply(k)
    BY <2>5, <2>7, <2>9 DEF Store!Apply, Moving, InStore
  <2> QED BY <2>10 DEF Store!Next
<1>12. ASSUME NEW p \in Flusher, FlushFails(p) PROVE FALSE
  <2>1. p = "auto" /\ open = {"wal", "data"}
    BY <1>12, <1>c DEF FlushFails, Flusher, FlushInv
  <2> QED BY <1>12, <1>b, <1>c, <2>1 DEF FlushFails, Counted, Events
<1>13. ASSUME NEW p \in Flusher, NEW k \in Key, WriteWAL(p, k) PROVE Implemented
  BY <1>13, <1>f DEF WriteWAL
<1>14. ASSUME NEW p \in Flusher, NEW k \in Key, AppendRecord(p, k) PROVE Implemented
  <2> DEFINE r == [key |-> k, val |-> inflight[p][k]]
  <2>1. r \in Record /\ data' = Append(data, r)
    BY <1>14, <1>b DEF AppendRecord, Record, Content
  <2>2. \A j \in Key : Stored(j)' = Stored(j)
    BY <1>14, <1>a, <2>1, AppendStoresNothing DEF AppendRecord
  <2> QED BY <1>14, <1>a, <2>2, Stutters DEF AppendRecord
<1>15. ASSUME CloseStart \/ CloseStep \/ StartDone PROVE FALSE
  BY <1>15, <1>b, <1>c DEF CloseStart, CloseStep, StartDone, Counted, Events
<1>16. ASSUME Kill PROVE Implemented
  <2>1. /\ batch' = Nothing /\ inflight'["auto"] = Nothing /\ rewrite' = {} /\ data' = data
        /\ btree' = Index!Loaded(slots)
    BY <1>16 DEF Kill, Index!Kill, Index!Open, Flusher
  <2>2. ASSUME NEW k \in Key PROVE Stored(k)' = IF k \in rewrite THEN NoVal ELSE Stored(k)
    <3>1. CASE k \in rewrite
      <4>1. Index!Loaded(slots)[k] = NoPos
        BY <1>a, <3>1, SameIndex DEF IndexP!IndexInv, NoPos, Index!NoPos, IndexP!NoPos
      <4> QED BY <2>1, <3>1, <4>1 DEF Stored, ValueAt, NoPos, Index!NoPos
    <3>2. CASE k \notin rewrite
      <4>1. Index!Loaded(slots)[k] = btree[k]
        BY <1>a, <3>2, ImageIsTree
      <4> QED BY <2>1, <3>2, <4>1 DEF Stored, ValueAt, NoPos, Index!NoPos
    <3> QED BY <3>1, <3>2
  <2>3. InStore' = [k \in Key |-> IF k \in rewrite THEN NoVal ELSE InStore[k]]
    BY <2>2 DEF InStore
  <2>4. Moving' = Nothing
    BY <1>d, <2>1
  <2>5. Store!Crash
    BY <2>1, <2>3, <2>4 DEF Store!Crash, Moving, InStore, Nothing, Store!Nothing
  <2> QED BY <2>5 DEF Store!Next
<1>17. ASSUME Start PROVE Implemented
  <2>1. UNCHANGED <<data, btree, batch, inflight, rewrite>>
    BY <1>17, <1>c DEF Start
  <2> QED BY <1>f, <2>1
<1>18. ASSUME UNCHANGED vars PROVE Implemented
  BY <1>18, <1>f DEF vars, files
<1> HIDE DEF Implemented
<1>20. Implemented
  BY <1>1, <1>2, <1>3, <1>4, <1>5, <1>6, <1>7, <1>8, <1>9, <1>10, <1>11, <1>12, <1>13,
     <1>14, <1>15, <1>16, <1>17, <1>18
  DEF Next, FlushStep, DeleteStep
<1> QED BY <1>20 DEF Implemented

\* The engine is a write-back store: where only the ticker flushes and no write
\* fails, every behaviour of KVEngine, kills included, is one of KVStore.
THEOREM EngineIsStore ==
  OnlyTicker /\ NoFaults => (Spec /\ []DataFits => ImplementsStoreSteps)
<1> SUFFICES ASSUME OnlyTicker, NoFaults PROVE Spec /\ []DataFits => ImplementsStoreSteps
  OBVIOUS
<1>1. Init => OrderInv /\ FlushInv /\ Store!Init
  BY OrderInit, FlushInit, StoreInit
<1>2. EngineInv /\ OrderInv /\ FlushInv /\ DataFits /\ [Next]_vars => OrderInv' /\ FlushInv'
  BY OrderStep, FlushStepKeeps
<1>3. EngineInv /\ OrderInv /\ FlushInv /\ DataFits /\ [Next]_vars /\ EngineInv' /\ OrderInv'
        => [Store!Next]_(Store!vars)
  BY StoreRefines
<1> QED BY <1>1, <1>2, <1>3, EngineInvariant, PTL DEF Spec, ImplementsStoreSteps, Store!SafeSpec

-----------------------------------------------------------------------------
\* Restarts without a log.

\* While no process lives nothing runs, and what the last one's store lacked is
\* not in the store either.
DownInv ==
  /\ phase # "opening"
  /\ phase = "down" => /\ \A p \in Flusher \cup {"delete"} : pc[p] = "idle"
                       /\ \A k \in Key : before[k] = NoVal => Stored(k) = NoVal

\* A step of a living process leaves it alive, unless it is a kill; while no
\* process lives there is no step but the next start.
LEMMA DownStep ==
  ~EnableWAL /\ EngineInv /\ DownInv /\ DataFits /\ [Next]_vars => DownInv'
<1> SUFFICES ASSUME ~EnableWAL, EngineInv, DownInv, DataFits, [Next]_vars PROVE DownInv'
  OBVIOUS
<1>a. pc \in [Flusher \cup {"delete"} -> Label] /\ count \in [Events -> Nat]
  BY DEF EngineInv, LockInv, DataInv
<1>b. phase # "opening"
  BY DEF DownInv
<1>c. phase = "down" => \A p \in Flusher \cup {"delete"} : pc[p] = "idle"
  BY DEF DownInv
<1> DEFINE Alive == phase' = phase /\ phase # "down"
<1>d. Alive => DownInv'
  BY <1>b DEF DownInv
<1>e. UNCHANGED <<phase, pc, data, btree, before>> => DownInv'
  BY DEF DownInv, Stored, ValueAt, NoPos, Index!NoPos
<1>1. ASSUME NEW k \in Key, Put(k) PROVE Alive
  BY <1>1 DEF Put, Serving
<1>2. ASSUME NEW k \in Key, DeleteStart(k) PROVE Alive
  BY <1>2 DEF DeleteStart, Serving
<1>3. ASSUME NEW r \in Reader, NEW k \in Key, GetMissesBatch(r, k) PROVE Alive
  BY <1>3 DEF GetMissesBatch, Serving
<1>4. ASSUME NEW r \in Reader, GetReadsStore(r) PROVE DownInv'
  BY <1>4, <1>e DEF GetReadsStore, files, history
<1>5. ASSUME DeleteRewrites PROVE Alive
  BY <1>5, <1>c DEF DeleteRewrites
<1>6. ASSUME DeleteLogs PROVE Alive
  BY <1>6, <1>c DEF DeleteLogs
<1>7. ASSUME DeleteAppends PROVE Alive
  BY <1>7, <1>c DEF DeleteAppends
<1>8. ASSUME DeleteFails PROVE Alive
  BY <1>8, <1>c DEF DeleteFails
<1>9. ASSUME NEW p \in Flusher, SwapBatch(p) PROVE Alive
  BY <1>9 DEF SwapBatch, MayFlush, Flusher
<1>10. ASSUME NEW p \in Flusher, LockForFlush(p) PROVE Alive
  BY <1>10, <1>c DEF LockForFlush
<1>11. ASSUME NEW p \in Flusher, AddToIndex(p) PROVE Alive
  BY <1>11, <1>c DEF AddToIndex
<1>12. ASSUME NEW p \in Flusher, SyncAndCommit(p) \/ Checkpoint(p) PROVE Alive
  BY <1>12, <1>c DEF SyncAndCommit, Checkpoint
<1>13. ASSUME NEW p \in Flusher, FlushFails(p) PROVE Alive
  BY <1>13, <1>c DEF FlushFails
<1>14. ASSUME NEW p \in Flusher, NEW k \in Key, WriteWAL(p, k) \/ AppendRecord(p, k) PROVE Alive
  BY <1>14, <1>c DEF WriteWAL, AppendRecord
<1>15. ASSUME CloseStart \/ CloseStep PROVE DownInv'
  BY <1>15, <1>b, <1>c DEF CloseStart, CloseStep, DownInv, Flusher
<1>16. ASSUME Kill PROVE DownInv'
  <2>1. /\ phase' = "down" /\ data' = data /\ before' = [k \in Key |-> Stored(k)]
        /\ \A p \in Flusher \cup {"delete"} : pc'[p] = "idle"
    BY <1>16, <1>a, <1>b DEF Kill
  <2>2. ASSUME NEW k \in Key, before'[k] = NoVal PROVE Stored(k)' = NoVal
    <3>1. btree'[k] \in {NoPos, btree[k]}
      BY <1>16, ImageHoldsTree DEF Kill, Index!Kill, Index!Open, EngineInv
    <3>2. Stored(k) = NoVal
      BY <2>1, <2>2
    <3> QED BY <2>1, <3>1, <3>2 DEF Stored, ValueAt, NoPos, Index!NoPos
  <2> QED BY <2>1, <2>2 DEF DownInv
<1>17. ASSUME Start PROVE DownInv'
  BY <1>17 DEF Start, DownInv
<1>18. ASSUME StartDone PROVE DownInv'
  BY <1>18, <1>b DEF StartDone
<1>19. ASSUME UNCHANGED vars PROVE DownInv'
  BY <1>19, <1>e DEF vars, files, history
<1> HIDE DEF Alive
<1> QED
  BY <1>d, <1>1, <1>2, <1>3, <1>4, <1>5, <1>6, <1>7, <1>8, <1>9, <1>10, <1>11, <1>12, <1>13,
     <1>14, <1>15, <1>16, <1>17, <1>18, <1>19
  DEF Next, FlushStep, DeleteStep

\* Only OpenDB brings a process up, and without a log it leaves the index as
\* the kill left it.
LEMMA RestartStep ==
  ASSUME ~EnableWAL, DownInv, [Next]_vars, Restarted, NEW k \in Key, before[k] = NoVal
  PROVE  Stored(k)' = NoVal
<1>1. phase = "down" /\ phase' = "up" /\ \A p \in Flusher \cup {"delete"} : pc[p] = "idle"
  BY DEF DownInv, Restarted
<1>2. Stored(k) = NoVal
  BY <1>1 DEF DownInv
<1>3. UNCHANGED <<data, btree>>
  <2>1. ASSUME NEW p \in Flusher, FlushStep(p) PROVE FALSE
    BY <1>1, <2>1 DEF FlushStep, SwapBatch, MayFlush, LockForFlush, AddToIndex, SyncAndCommit,
       Checkpoint, FlushFails, WriteWAL, AppendRecord, Flusher
  <2>2. ASSUME DeleteStep PROVE FALSE
    BY <1>1, <2>2 DEF DeleteStep, DeleteRewrites, DeleteLogs, DeleteAppends, DeleteFails
  <2>3. ASSUME NEW j \in Key, Put(j) \/ DeleteStart(j) PROVE FALSE
    BY <1>1, <2>3 DEF Put, DeleteStart, Serving
  <2>4. ASSUME NEW r \in Reader, NEW j \in Key, GetMissesBatch(r, j) PROVE FALSE
    BY <1>1, <2>4 DEF GetMissesBatch, Serving
  <2>5. ASSUME NEW r \in Reader, GetReadsStore(r) PROVE FALSE
    BY <1>1, <2>5 DEF GetReadsStore
  <2>6. ASSUME CloseStart \/ CloseStep \/ Kill \/ StartDone PROVE FALSE
    BY <1>1, <2>6 DEF CloseStart, CloseStep, Kill, StartDone, Flusher
  <2>7. ASSUME Start PROVE UNCHANGED <<data, btree>>
    BY <2>7 DEF Start
  <2>8. ASSUME UNCHANGED vars PROVE UNCHANGED <<data, btree>>
    BY <2>8 DEF vars, files
  <2> QED BY <2>1, <2>2, <2>3, <2>4, <2>5, <2>6, <2>7, <2>8 DEF Next
<1> QED BY <1>2, <1>3 DEF Stored, ValueAt, NoPos, Index!NoPos

\* A process that is started without a log (OpenDB after a kill at any step, a
\* persistIndex that was interrupted, or a Close) has no key the last one had
\* deleted or never stored.
THEOREM RestartIsClean == ~EnableWAL => (Spec /\ []DataFits => RestartRevivesNothing)
<1> SUFFICES ASSUME ~EnableWAL PROVE Spec /\ []DataFits => RestartRevivesNothing
  OBVIOUS
<1>1. Init => DownInv
  BY DEF Init, DownInv
<1>2. EngineInv /\ DownInv /\ DataFits /\ [Next]_vars => DownInv'
  BY DownStep
<1>3. DownInv /\ [Next]_vars =>
        [Restarted => \A k \in Key :
           before[k] = NoVal /\ maybe[k] = {} => Stored(k)' = NoVal]_vars
  BY RestartStep
<1> QED BY <1>1, <1>2, <1>3, EngineInvariant, PTL DEF Spec, RestartRevivesNothing

-----------------------------------------------------------------------------
\* Clients, as long as nothing is deleted and nothing fails: the store catches
\* up with what was acknowledged, and a read that does not meet a flush on its
\* way to db.lock is current.

\* No Delete, kill, I/O fault or Close.
NothingFails == MaxDeletes = 0 /\ MaxKills = 0 /\ MaxFaults = 0 /\ MaxCloses = 0

\* No client puts the text "__deleted__", which Get takes for a deleted value.
MarkUnused == DeletedMark \notin Val

\* The newest value of a key along its way: batch, batchCopy, store.
Newest(k) ==
  IF batch[k] # NoVal THEN batch[k]
  ELSE IF inflight["auto"][k] # NoVal THEN inflight["auto"][k] ELSE Stored(k)

\* The newest value is the acknowledged one.
AckedInv ==
  /\ phase = "up" /\ pc["delete"] = "idle"
  /\ \A k \in Key : acked[k] = Newest(k)

\* Whatever value of k a Get of r can still meet, it may return.
MayMeet(r, k) ==
  /\ batch[k] # NoVal => batch[k] \in legal[r]
  /\ IF inflight["auto"][k] # NoVal THEN inflight["auto"][k] \in legal[r]
                                    ELSE Stored(k) \in legal[r]
ReadInv == \A r \in Reader : reading[r] # 0 => MayMeet(r, reading[r])

ClientInv == TypeOK /\ EngineInv /\ OrderInv /\ FlushInv

\* Nothing fails: so only the ticker flushes, and no write fails.
LEMMA OnlyPuts == NothingFails => OnlyTicker /\ NoFaults
BY DEF NothingFails, OnlyTicker, NoFaults

\* In a new engine nothing was acknowledged and nobody reads.
LEMMA ClientInit == Init => AckedInv /\ ReadInv
<1> SUFFICES ASSUME Init PROVE AckedInv /\ ReadInv
  OBVIOUS
<1>1. \A k \in Key : btree[k] = NoPos
  BY SameIndex, Assumed, IndexP!FreshIsEmpty DEF Init, NoPos, Index!NoPos, IndexP!NoPos
<1>2. \A k \in Key : Stored(k) = NoVal /\ batch[k] = NoVal /\ inflight["auto"][k] = NoVal /\ acked[k] = NoVal
  BY <1>1 DEF Init, Stored, ValueAt, Nothing, Flusher
<1>3. phase = "up" /\ pc["delete"] = "idle" /\ \A r \in Reader : reading[r] = 0
  BY DEF Init
<1> QED BY <1>2, <1>3 DEF AckedInv, ReadInv, Newest

\* Of the steps that can be taken while nothing fails, Put, GetMissesBatch,
\* GetReadsStore, SwapBatch and AddToIndex are the ones that change what a
\* reader sees; the others leave it alone.
SeesNothing ==
  /\ UNCHANGED <<batch, inflight, acked, reading, legal, phase>>
  /\ pc'["delete"] = pc["delete"]
  /\ \A k \in Key : Stored(k)' = Stored(k)

LEMMA ClientCases ==
  ASSUME NothingFails, ClientInv, AckedInv, [Next]_vars
  PROVE  \/ \E k \in Key : Put(k)
         \/ \E r \in Reader, k \in Key : GetMissesBatch(r, k)
         \/ \E r \in Reader : GetReadsStore(r)
         \/ SwapBatch("auto") \/ AddToIndex("auto") \/ SeesNothing
<1>a. /\ count \in [Events -> Nat] /\ pc \in [Flusher \cup {"delete"} -> Label]
      /\ pc["open"] = "idle" /\ pc["close"] = "idle" /\ pc["delete"] = "idle" /\ phase = "up"
      /\ DataInv /\ open = {"wal", "data"} /\ inflight \in [Flusher -> Content]
  BY DEF ClientInv, EngineInv, LockInv, DataInv, OrderInv, FlushInv, AckedInv
<1>b. MaxDeletes = 0 /\ MaxKills = 0 /\ MaxFaults = 0 /\ MaxCloses = 0
  BY DEF NothingFails
<1>e. UNCHANGED <<data, btree>> => \A k \in Key : Stored(k)' = Stored(k)
  BY DEF Stored, ValueAt, NoPos, Index!NoPos
<1>1. ASSUME DeleteStep PROVE FALSE
  BY <1>1, <1>a DEF DeleteStep, DeleteRewrites, DeleteLogs, DeleteAppends, DeleteFails
<1>2. ASSUME NEW k \in Key, DeleteStart(k) PROVE FALSE
  BY <1>2, <1>a, <1>b DEF DeleteStart, Counted, Events
<1>3. ASSUME CloseStart \/ CloseStep \/ StartDone \/ Kill \/ Start PROVE FALSE
  BY <1>3, <1>a, <1>b DEF CloseStart, CloseStep, StartDone, Kill, Start, Counted, Events
<1>4. ASSUME NEW p \in Flusher, FlushStep(p) PROVE p = "auto"
  BY <1>4, <1>a DEF FlushStep, SwapBatch, MayFlush, LockForFlush, AddToIndex, SyncAndCommit,
     Checkpoint, FlushFails, WriteWAL, AppendRecord, Flusher
<1>5. ASSUME FlushFails("auto") PROVE FALSE
  BY <1>5, <1>a, <1>b DEF FlushFails, Counted, Events
<1>6. ASSUME LockForFlush("auto") PROVE SeesNothing
  BY <1>6, <1>a, <1>e DEF SeesNothing, LockForFlush, Goto, files, reads, Flusher
<1>7. ASSUME SyncAndCommit("auto") \/ Checkpoint("auto") PROVE SeesNothing
  BY <1>7, <1>a, <1>e DEF SeesNothing, SyncAndCommit, Checkpoint, Goto, reads, Flusher
<1>8. ASSUME NEW k \in Key, WriteWAL("auto", k) PROVE SeesNothing
  BY <1>8, <1>a, <1>e DEF SeesNothing, WriteWAL, Goto, reads, Flusher
<1>9. ASSUME NEW k \in Key, AppendRecord("auto", k) PROVE SeesNothing
  <2> DEFINE r == [key |-> k, val |-> inflight["auto"][k]]
  <2>1. r \in Record /\ data' = Append(data, r) /\ btree' = btree
    BY <1>9, <1>a DEF AppendRecord, Record, Content, Flusher
  <2>2. \A j \in Key : Stored(j)' = Stored(j)
    BY <1>a, <2>1, AppendStoresNothing
  <2> QED BY <1>9, <1>a, <2>2 DEF SeesNothing, AppendRecord, Goto, reads, Flusher
<1>10. ASSUME UNCHANGED vars PROVE SeesNothing
  BY <1>10, <1>e DEF SeesNothing, vars, files, reads
<1> QED
  BY <1>1, <1>2, <1>3, <1>4, <1>5, <1>6, <1>7, <1>8, <1>9, <1>10 DEF Next, FlushStep

\* What a swap and an index.Add do to the three places a value can be at.
LEMMA SwapMoves ==
  ASSUME ClientInv, SwapBatch("auto")
  PROVE  /\ \A k \in Key : inflight["auto"][k] = NoVal
         /\ batch' = Nothing /\ inflight'["auto"] = batch
         /\ UNCHANGED <<acked, reading, legal, phase>> /\ pc'["delete"] = pc["delete"]
         /\ \A k \in Key : Stored(k)' = Stored(k)
<1>1. /\ pc \in [Flusher \cup {"delete"} -> Label] /\ inflight \in [Flusher -> Content]
      /\ (pc["auto"] = "idle" => inflight["auto"] = Nothing)
  BY DEF ClientInv, EngineInv, LockInv, DataInv, FlushInv
<1> QED BY <1>1 DEF SwapBatch, Goto, files, reads, Flusher, Nothing, Stored, ValueAt, NoPos, Index!NoPos

LEMMA AddMoves ==
  ASSUME ClientInv, AddToIndex("auto")
  PROVE  /\ \E k \in Key : /\ inflight["auto"][k] # NoVal
                           /\ \A j \in Key : inflight'["auto"][j] = IF j = k THEN NoVal ELSE inflight["auto"][j]
                           /\ \A j \in Key : Stored(j)' = IF j = k THEN inflight["auto"][k] ELSE Stored(j)
         /\ UNCHANGED <<batch, acked, reading, legal, phase>> /\ pc'["delete"] = pc["delete"]
<1>a. DataInv /\ OrderInv /\ IndexP!IndexInv /\ LockInv
  BY DEF ClientInv, EngineInv
<1>b. /\ data \in Seq(Record) /\ inflight \in [Flusher -> Content] /\ btree \in [Key -> Nat]
      /\ pc \in [Flusher \cup {"delete"} -> Label] /\ pc["auto"] = "index"
  BY <1>a DEF DataInv, IndexP!IndexInv, IndexP!IndexTypeOK, LockInv, AddToIndex
<1>1. /\ Len(data) \in Nat \ {0} /\ data[Len(data)] \in Record /\ data[Len(data)].val # EmptyVal
      /\ data[Len(data)].val = inflight["auto"][data[Len(data)].key]
  BY <1>a, <1>b DEF DataInv, OrderInv, Flusher
<1>2. PICK k \in Key, v \in Val :
        k = data[Len(data)].key /\ v = data[Len(data)].val /\ v = inflight["auto"][k]
  BY <1>1 DEF Record
<1>3. /\ btree' = [btree EXCEPT ![k] = Len(data)] /\ data' = data
      /\ inflight' = [inflight EXCEPT !["auto"][k] = NoVal]
  BY <1>2 DEF AddToIndex, Index!Add
<1>4. \A j \in Key : Stored(j)' = IF j = k THEN v ELSE Stored(j)
  BY <1>b, <1>1, <1>2, <1>3 DEF Stored, ValueAt, NoPos, Index!NoPos
<1>5. \A j \in Key : inflight'["auto"][j] = IF j = k THEN NoVal ELSE inflight["auto"][j]
  BY <1>b, <1>3 DEF Content, Flusher
<1>6. v # NoVal
  BY <1>2, EngineAssumption DEF Val, NoVal
<1>7. UNCHANGED <<batch, acked, reading, legal, phase>> /\ pc'["delete"] = pc["delete"]
  BY <1>b DEF AddToIndex, Goto, reads, Flusher
<1> QED BY <1>2, <1>4, <1>5, <1>6, <1>7

\* A Put is acknowledged with the newest value; a swap and an index.Add take
\* the newest value one place further.
LEMMA AckedStep ==
  NothingFails /\ ClientInv /\ AckedInv /\ [Next]_vars => AckedInv'
<1> SUFFICES ASSUME NothingFails, ClientInv, AckedInv, [Next]_vars PROVE AckedInv'
  OBVIOUS
<1>a. batch \in Content /\ acked \in [Key -> Value] /\ count \in [Events -> Nat]
  BY DEF ClientInv, EngineInv, DataInv, TypeOK
<1>b. phase = "up" /\ pc["delete"] = "idle" /\ \A k \in Key : acked[k] = Newest(k)
  BY DEF AckedInv
<1>1. ASSUME NEW k \in Key, Put(k) PROVE AckedInv'
  <2>1. count["put"] + 1 # NoVal
    BY <1>a DEF Events, NoVal
  <2>2. \A j \in Key : /\ batch'[j] = IF j = k THEN count["put"] + 1 ELSE batch[j]
                       /\ acked'[j] = IF j = k THEN count["put"] + 1 ELSE acked[j]
    BY <1>1, <1>a DEF Put, SetAcked, Content
  <2>3. UNCHANGED <<inflight, pc, phase>> /\ \A j \in Key : Stored(j)' = Stored(j)
    BY <1>1 DEF Put, files, Stored, ValueAt, NoPos, Index!NoPos
  <2> QED BY <1>b, <2>1, <2>2, <2>3 DEF AckedInv, Newest
<1>2. ASSUME NEW r \in Reader, NEW k \in Key, GetMissesBatch(r, k) PROVE AckedInv'
  BY <1>2, <1>b DEF GetMissesBatch, files, AckedInv, Newest, Stored, ValueAt, NoPos, Index!NoPos
<1>3. ASSUME NEW r \in Reader, GetReadsStore(r) PROVE AckedInv'
  BY <1>3, <1>b DEF GetReadsStore, files, AckedInv, Newest, Stored, ValueAt, NoPos, Index!NoPos
<1>4. ASSUME SwapBatch("auto") PROVE AckedInv'
  BY <1>4, <1>b, SwapMoves DEF AckedInv, Newest, Nothing
<1>5. ASSUME AddToIndex("auto") PROVE AckedInv'
  BY <1>5, <1>b, AddMoves DEF AckedInv, Newest
<1>6. ASSUME SeesNothing PROVE AckedInv'
  BY <1>6, <1>b DEF SeesNothing, AckedInv, Newest
<1> QED BY <1>1, <1>2, <1>3, <1>4, <1>5, <1>6, ClientCases

\* What a reader may still meet stays among what it may return.
LEMMA ReadStep ==
  NothingFails /\ ClientInv /\ TypeOK' /\ AckedInv /\ ReadInv /\ [Next]_vars => ReadInv'
<1> SUFFICES ASSUME NothingFails, ClientInv, TypeOK', AckedInv, ReadInv, [Next]_vars
             PROVE  ReadInv'
  OBVIOUS
<1>t. reading' \in [Reader -> Key \cup {0}]
  BY DEF TypeOK
<1> SUFFICES ASSUME NEW r \in Reader, NEW k \in Key, reading'[r] = k
             PROVE  MayMeet(r, k)'
  BY <1>t DEF ReadInv, MayMeet
<1>a. /\ batch \in Content /\ reading \in [Reader -> Key \cup {0}] /\ 0 \notin Key
      /\ legal \in [Reader -> SUBSET Value]
  BY EngineAssumption DEF ClientInv, EngineInv, DataInv, TypeOK
<1>b. acked[k] = Newest(k)
  BY DEF AckedInv
<1>c. reading[r] = k => MayMeet(r, k)
  BY <1>a DEF ReadInv
<1>1. ASSUME NEW j \in Key, Put(j) PROVE MayMeet(r, k)'
  <2>1. MayMeet(r, k) /\ reading[r] = k
    BY <1>1, <1>c DEF Put
  <2>2. /\ batch'[k] = IF k = j THEN count["put"] + 1 ELSE batch[k]
        /\ legal'[r] = IF k = j THEN legal[r] \cup {count["put"] + 1} ELSE legal[r]
        /\ inflight' = inflight /\ Stored(k)' = Stored(k)
    BY <1>1, <1>a, <2>1 DEF Put, SetAcked, Content, files, Stored, ValueAt, NoPos, Index!NoPos
  <2> QED BY <2>1, <2>2 DEF MayMeet
<1>2. ASSUME NEW q \in Reader, NEW j \in Key, GetMissesBatch(q, j) PROVE MayMeet(r, k)'
  <2>1. UNCHANGED <<batch, inflight>> /\ Stored(k)' = Stored(k)
    BY <1>2 DEF GetMissesBatch, files, Stored, ValueAt, NoPos, Index!NoPos
  <2>2. CASE q = r
    <3>1. j = k /\ legal'[r] = {acked[k]} /\ batch[k] = NoVal
      BY <1>2, <1>a, <2>2 DEF GetMissesBatch
    <3> QED BY <1>b, <2>1, <3>1 DEF Newest, MayMeet
  <2>3. CASE q # r
    <3>1. reading[r] = k /\ legal'[r] = legal[r]
      BY <1>2, <1>a, <2>3 DEF GetMissesBatch
    <3> QED BY <1>c, <2>1, <3>1 DEF MayMeet
  <2> QED BY <2>2, <2>3
<1>3. ASSUME NEW q \in Reader, GetReadsStore(q) PROVE MayMeet(r, k)'
  <2>1. UNCHANGED <<batch, inflight>> /\ Stored(k)' = Stored(k)
    BY <1>3 DEF GetReadsStore, files, Stored, ValueAt, NoPos, Index!NoPos
  <2>2. q # r
    BY <1>3, <1>a DEF GetReadsStore
  <2>3. reading[r] = k /\ legal'[r] = legal[r]
    BY <1>3, <1>a, <2>2 DEF GetReadsStore
  <2> QED BY <1>c, <2>1, <2>3 DEF MayMeet
<1>4. ASSUME SwapBatch("auto") PROVE MayMeet(r, k)'
  <2>1. reading[r] = k /\ legal'[r] = legal[r]
    BY <1>4, SwapMoves
  <2> QED BY <1>4, <1>c, <2>1, SwapMoves DEF MayMeet, Nothing
<1>5. ASSUME AddToIndex("auto") PROVE MayMeet(r, k)'
  <2>1. reading[r] = k /\ legal'[r] = legal[r]
    BY <1>5, AddMoves
  <2> QED BY <1>5, <1>c, <2>1, AddMoves DEF MayMeet
<1>6. ASSUME SeesNothing PROVE MayMeet(r, k)'
  BY <1>6, <1>c DEF SeesNothing, MayMeet
<1> QED BY <1>1, <1>2, <1>3, <1>4, <1>5, <1>6, ClientCases

\* A Get behind db.lock returns what the index leads to (readAtPosition).
LEMMA ReadReturnsStored ==
  ASSUME MarkUnused, ClientInv, NEW k \in Key
  PROVE  ReadResult(k) = Stored(k)
<1>1. DataInv /\ "data" \in open
  BY DEF ClientInv, EngineInv, FlushInv
<1>2. CASE btree[k] = NoPos
  BY <1>2 DEF ReadResult, Stored, ValueAt
<1>3. CASE btree[k] # NoPos
  <2>1. OwnRecord(k, btree[k]) /\ data \in Seq(Record)
    BY <1>1, <1>3 DEF DataInv
  <2>2. data[btree[k]] \in Record /\ data[btree[k]].val # EmptyVal /\ data[btree[k]].key = k
    BY <2>1 DEF OwnRecord
  <2>3. data[btree[k]].val # DeletedMark
    BY <2>2 DEF Record, MarkUnused
  <2> QED BY <1>1, <1>3, <2>2, <2>3 DEF ReadResult, Stored, ValueAt
<1> QED BY <1>2, <1>3

\* ClientInv and AckedInv hold of every behaviour in which nothing fails.
LEMMA ClientInvariant ==
  NothingFails => (Spec /\ []DataFits => []ClientInv /\ []AckedInv)
<1> SUFFICES ASSUME NothingFails PROVE Spec /\ []DataFits => []ClientInv /\ []AckedInv
  OBVIOUS
<1>1. Init => OrderInv /\ FlushInv /\ AckedInv
  BY OrderInit, FlushInit, ClientInit
<1>2. EngineInv /\ OrderInv /\ FlushInv /\ DataFits /\ [Next]_vars => OrderInv' /\ FlushInv'
  BY OrderStep, FlushStepKeeps, OnlyPuts
<1>3. TypeOK /\ EngineInv /\ OrderInv /\ FlushInv => ClientInv
  BY DEF ClientInv
<1>4. ClientInv /\ AckedInv /\ [Next]_vars => AckedInv'
  BY AckedStep
<1> QED BY <1>1, <1>2, <1>3, <1>4, EngineInvariant, TypeCorrect, PTL DEF Spec

\* While nothing is deleted and nothing fails, no acknowledged Put is lost
\* between batch, batchCopy and store: a key of which nothing is on its way any
\* more has its last acknowledged value in the store.
THEOREM AckedReachStore == NothingFails => (Spec /\ []DataFits => []SettledIsAcked)
<1> SUFFICES ASSUME NothingFails PROVE Spec /\ []DataFits => []SettledIsAcked
  OBVIOUS
<1>1. AckedInv => SettledIsAcked
  BY DEF AckedInv, SettledIsAcked, Settled, Newest, Flusher
<1> QED BY <1>1, ClientInvariant, PTL

\* A Get that misses the batch returns a value its key had while it ran, unless
\* a flush has taken the key's value out of the batch and is on its way to
\* db.lock when the Get holds it.
THEOREM ReadsAreCurrent ==
  NothingFails /\ MarkUnused => (Spec /\ []DataFits => ReadsCurrentUnlessInFlight)
<1> SUFFICES ASSUME NothingFails, MarkUnused
             PROVE  Spec /\ []DataFits => ReadsCurrentUnlessInFlight
  OBVIOUS
<1>1. Init => ReadInv
  BY ClientInit
<1>2. ClientInv /\ TypeOK' /\ AckedInv /\ ReadInv /\ [Next]_vars => ReadInv'
  BY ReadStep
<1>3. ClientInv /\ ReadInv =>
        [\A r \in Reader :
           GetReadsStore(r) /\ (\A p \in Flusher : inflight[p][reading[r]] = NoVal)
             => ReadResult(reading[r]) \in legal[r]]_vars
  <2> SUFFICES ASSUME ClientInv, ReadInv, NEW r \in Reader, GetReadsStore(r),
                      \A p \in Flusher : inflight[p][reading[r]] = NoVal
               PROVE  ReadResult(reading[r]) \in legal[r]
    OBVIOUS
  <2>1. reading[r] \in Key /\ reading[r] # 0
    BY DEF ClientInv, TypeOK, GetReadsStore
  <2>2. Stored(reading[r]) \in legal[r]
    BY <2>1 DEF ReadInv, MayMeet, Flusher
  <2> QED BY <2>1, <2>2, ReadReturnsStored
<1> QED BY <1>1, <1>2, <1>3, ClientInvariant, TypeCorrect, PTL DEF Spec, ReadsCurrentUnlessInFlight

-----------------------------------------------------------------------------
\* The log of an engine that is not killed, with whatever deletes and faults.

\* What Replay makes of the log is what WALProofs is about.
LEMMA SameScan == Wal!ReplayResults = WalP!ReplayResults
<1> USE DEF Wal!EmptyVal, WalP!EmptyVal, Wal!Entry, WalP!Entry, Wal!NoEntry, WalP!NoEntry,
            Wal!Zero, WalP!Zero, Wal!Cell, WalP!Cell, Wal!Flag, WalP!Flag
<1>2. \A c : Wal!Scan(c) = WalP!Scan(c)
  BY Zenon DEF Wal!Scan, WalP!Scan, Wal!BodyLen, WalP!BodyLen
<1> QED BY <1>2, Zenon DEF Wal!ReplayResults, WalP!ReplayResults

\* The last value Replay hands over of a key, when a record is added.
LEMMA LastOfAppended ==
  ASSUME NEW es \in Seq(Record), NEW k \in Key, NEW v \in Val, NEW j \in Key
  PROVE  LastReplayed(Append(es, [key |-> k, val |-> v]), j) = IF j = k THEN v ELSE LastReplayed(es, j)
<1> DEFINE r == [key |-> k, val |-> v]
           now == Append(es, r)
           n == Len(es)
           mine == {i \in DOMAIN es : es[i].key = j /\ es[i].val # EmptyVal}
           all == {i \in DOMAIN now : now[i].key = j /\ now[i].val # EmptyVal}
<1>1. /\ n \in Nat /\ DOMAIN es = 1..n /\ DOMAIN now = 1..(n + 1) /\ now[n + 1] = r
      /\ \A i \in 1..n : now[i] = es[i]
  OBVIOUS
<1>2. r.key = k /\ r.val = v /\ v # EmptyVal
  BY DEF Val, EmptyVal
<1>3. \A i \in 1..(n + 1) : i \in 1..n \/ i = n + 1
  BY <1>1
<1>4. CASE j = k
  <2>1. n + 1 \in all /\ \A i \in all : i <= n + 1
    BY <1>1, <1>2, <1>4
  <2>2. all \subseteq Nat
    BY <1>1
  <2> HIDE DEF all
  <2>3. \A i \in all : (\A m \in all : m <= i) => i = n + 1
    BY <1>1, <2>1, <2>2
  <2>4. (CHOOSE i \in all : \A m \in all : m <= i) = n + 1
    BY <2>1, <2>3
  <2>5. all # {}
    BY <2>1
  <2>6. LastReplayed(now, j) = IF all = {} THEN NoVal ELSE now[CHOOSE i \in all : \A m \in all : m <= i].val
    BY Zenon DEF LastReplayed, all
  <2> HIDE DEF r, now
  <2> QED BY <1>1, <1>2, <1>4, <2>4, <2>5, <2>6 DEF now, r
<1>5. CASE j # k
  <2>1. all = mine
    BY <1>1, <1>2, <1>3, <1>5
  <2>2. LastReplayed(now, j) = IF all = {} THEN NoVal ELSE now[CHOOSE i \in all : \A m \in all : m <= i].val
    BY Zenon DEF LastReplayed
  <2>3. LastReplayed(es, j) = IF mine = {} THEN NoVal ELSE es[CHOOSE i \in mine : \A m \in mine : m <= i].val
    BY Zenon DEF LastReplayed
  <2>4. mine # {} => (CHOOSE i \in mine : \A m \in mine : m <= i) \in mine
    <3> SUFFICES ASSUME mine # {} PROVE \E i \in mine : \A m \in mine : m <= i
      BY Zenon
    <3> DEFINE behind == {d \in Nat : \A i \in mine : ~(i >= n + 1 - d)}
    <3>1. 0 \in behind
      BY <1>1
    <3> SUFFICES ASSUME ~ \E i \in mine : \A m \in mine : m <= i PROVE FALSE
      OBVIOUS
    <3>2. ASSUME NEW d \in Nat, d \in behind PROVE d + 1 \in behind
      <4> SUFFICES ASSUME NEW i \in mine, i >= n + 1 - (d + 1) PROVE FALSE
        OBVIOUS
      <4>1. i \in Nat /\ \A m \in mine : m \in Nat /\ ~(m >= n + 1 - d)
        BY <1>1, <3>2
      <4>2. \A m \in mine : m <= i
        BY <1>1, <4>1
      <4> QED BY <4>2
    <3> HIDE DEF behind
    <3>3. Nat \subseteq behind
      BY <3>1, <3>2, LogAssumed, WalP!NatInductionSet
    <3>4. n + 1 \in behind
      BY <1>1, <3>3
    <3>5. \A i \in mine : i \in Nat /\ i >= n + 1 - (n + 1)
      BY <1>1
    <3> QED BY <3>4, <3>5 DEF behind
  <2> HIDE DEF all, now
  <2>5. mine # {} => now[CHOOSE i \in mine : \A m \in mine : m <= i] = es[CHOOSE i \in mine : \A m \in mine : m <= i]
    <3>1. \A i \in mine : now[i] = es[i]
      BY <1>1
    <3> HIDE DEF mine
    <3> QED BY <2>4, <3>1
  <2> HIDE DEF mine
  <2> QED BY <1>5, <2>1, <2>2, <2>3, <2>5 DEF now
<1> QED BY <1>4, <1>5

\* What the log keeps of the flushes since the last MarkCommitted: their
\* records, the last one of a key being the value that is still to be indexed.
Keeps(es) ==
  /\ WalP!LogHolds(log.cells, log.pos, es)
  /\ ~WalP!Marked(log.cells) => WalP!AtEnd(log.cells, log.pos)
  /\ pc["auto"] = "checkpoint" => es = <<>>
  /\ pc["auto"] \in {"data", "index"} => todo = {}
  /\ pc["auto"] \in {"wal", "data", "index"} =>
       \A k \in Keys(inflight["auto"]) \ todo : LastReplayed(es, k) = inflight["auto"][k]

LoggedInv == open = {"wal", "data"} /\ \E es \in Seq(Record) : Keeps(es)
LoggedIfAny == EnableWAL => LoggedInv

\* The log of a new engine keeps nothing.
LEMMA LoggedInit == Init => LoggedInv
<1> SUFFICES ASSUME Init PROVE LoggedInv
  OBVIOUS
<1>1. WalP!InitLog /\ open = {"wal", "data"} /\ pc["auto"] = "idle"
  BY SameLog DEF Init, Flusher
<1>2. WalP!LogHolds(log.cells, log.pos, <<>>) /\ WalP!AtEnd(log.cells, log.pos)
  BY <1>1, LogAssumed, WalP!HeldAtFirst
<1>3. <<>> \in Seq(Record) /\ Keeps(<<>>)
  BY <1>1, <1>2 DEF Keeps
<1> QED BY <1>1, <1>3 DEF LoggedInv

\* What the operations of the log do to what it keeps, in the engine's terms.
LEMMA KeptByOperations ==
  ASSUME Wal!WALTypeOK, NEW es \in Seq(Record), WalP!LogHolds(log.cells, log.pos, es)
  PROVE  /\ \A k \in Key, v \in Val : Wal!WriteEntry(k, v) =>
              /\ WalP!LogHolds(log'.cells, log'.pos, Append(es, [key |-> k, val |-> v]))
              /\ WalP!AtEnd(log.cells, log.pos) => WalP!AtEnd(log'.cells, log'.pos)
              /\ WalP!Marked(log.cells) => WalP!Marked(log'.cells)
         /\ \A k \in Key : Wal!WriteDelete(k) =>
              /\ WalP!LogHolds(log'.cells, log'.pos, Append(es, [key |-> k, val |-> EmptyVal]))
              /\ WalP!AtEnd(log.cells, log.pos) => WalP!AtEnd(log'.cells, log'.pos)
              /\ WalP!Marked(log.cells) => WalP!Marked(log'.cells)
         /\ Wal!MarkCommitted => WalP!LogHolds(log'.cells, log'.pos, <<>>) /\ WalP!Marked(log'.cells)
         /\ Wal!Clear /\ es = <<>> =>
              WalP!LogHolds(log'.cells, log'.pos, <<>>) /\ WalP!AtEnd(log'.cells, log'.pos)
<1>1. WalP!WALTypeOK /\ es \in Seq(WalP!Entry)
  BY SameLog DEF Record, WalP!Entry, WalP!EmptyVal, EmptyVal
<1>2. /\ \A k \in Key, v \in Val \cup {WalP!EmptyVal} :
           (IF v = WalP!EmptyVal THEN WalP!WriteDelete(k) ELSE WalP!WriteEntry(k, v)) =>
             /\ WalP!LogHolds(log'.cells, log'.pos, Append(es, [key |-> k, val |-> v]))
             /\ WalP!AtEnd(log.cells, log.pos) => WalP!AtEnd(log'.cells, log'.pos)
             /\ WalP!Marked(log.cells) => WalP!Marked(log'.cells)
      /\ WalP!MarkCommitted => WalP!LogHolds(log'.cells, log'.pos, <<>>) /\ WalP!Marked(log'.cells)
      /\ WalP!Clear /\ es = <<>> =>
           WalP!LogHolds(log'.cells, log'.pos, <<>>) /\ WalP!AtEnd(log'.cells, log'.pos)
  BY <1>1, LogAssumed, WalP!HeldByOperations, Zenon
<1>3. EmptyVal = WalP!EmptyVal /\ \A v \in Val : v # WalP!EmptyVal
  BY DEF EmptyVal, WalP!EmptyVal, Val
<1> QED BY <1>2, <1>3, SameLog, Zenon

\* A step that touches neither log nor batchCopy, and takes the flush no
\* further than it is, keeps it all.
LEMMA KeepsStill ==
  ASSUME LoggedInv, UNCHANGED <<log, open, todo>>, inflight'["auto"] = inflight["auto"],
         \/ pc'["auto"] = pc["auto"]
         \/ pc["auto"] = "data" /\ pc'["auto"] = "index"
         \/ pc'["auto"] \in Label \ {"wal", "data", "index", "checkpoint"}
  PROVE  LoggedInv'
<1>1. PICK es \in Seq(Record) : Keeps(es)
  BY DEF LoggedInv
<1>2. Keeps(es)'
  BY <1>1 DEF Keeps
<1> QED BY <1>1, <1>2 DEF LoggedInv

\* Every step keeps the records of the flush behind what earlier ones left.
LEMMA LoggedStep ==
  ASSUME OnlyTicker, EnableWAL, EngineInv, RestInv, Wal!WALTypeOK, OrderInv, LoggedInv, [Next]_vars
  PROVE  LoggedInv'
<1>a. /\ inflight \in [Flusher -> Content] /\ count \in [Events -> Nat]
      /\ pc \in [Flusher \cup {"delete"} -> Label] /\ data \in Seq(Record) /\ todo \subseteq Key
      /\ \A p \in Flusher : pc[p] = "index" => Len(data) > 0
      /\ pc["delete"] # "idle" => delKey \in Key /\ lock = "delete"
      /\ pc["auto"] \in Locked => lock = "auto"
  BY DEF EngineInv, DataInv, LockInv, RestInv, Flusher
<1>b. /\ pc["open"] = "idle" /\ pc["close"] = "idle"
      /\ phase = "up" /\ MaxCloses = 0 /\ MaxKills = 0
  BY DEF OrderInv, OnlyTicker
<1>c. PICK es \in Seq(Record) : Keeps(es)
  BY DEF LoggedInv
<1>d. open = {"wal", "data"}
  BY DEF LoggedInv
<1>e. WalP!LogHolds(log.cells, log.pos, es)
  BY <1>c DEF Keeps
<1> DEFINE Same == UNCHANGED <<log, open, todo>> /\ inflight'["auto"] = inflight["auto"]
                     /\ \/ pc'["auto"] = pc["auto"]
                        \/ pc["auto"] = "data" /\ pc'["auto"] = "index"
                        \/ pc'["auto"] \in Label \ {"wal", "data", "index", "checkpoint"}
<1>f. Same => LoggedInv'
  BY KeepsStill
<1>1. ASSUME NEW k \in Key, Put(k) PROVE Same
  BY <1>1 DEF Put, files
<1>2. ASSUME NEW k \in Key, DeleteStart(k) PROVE Same
  BY <1>2, <1>a DEF DeleteStart, Goto, Flusher
<1>3. ASSUME NEW r \in Reader, NEW k \in Key, GetMissesBatch(r, k) PROVE Same
  BY <1>3 DEF GetMissesBatch, files
<1>4. ASSUME NEW r \in Reader, GetReadsStore(r) PROVE Same
  BY <1>4 DEF GetReadsStore, files
<1>5. ASSUME DeleteRewrites \/ DeleteAppends \/ DeleteFails PROVE Same
  BY <1>5, <1>a DEF DeleteRewrites, DeleteAppends, DeleteFails, DeleteUnlocks, Goto, Flusher, files
<1>6. CASE DeleteLogs
  <2>1. delKey \in Key /\ Wal!WriteDelete(delKey) /\ pc["auto"] \notin Locked
    BY <1>6, <1>a DEF DeleteLogs
  <2>2. pc'["auto"] = pc["auto"] /\ open' = open
    BY <1>6, <1>a DEF DeleteLogs, Goto, Flusher
  <2> DEFINE now == Append(es, [key |-> delKey, val |-> EmptyVal])
  <2>3. /\ WalP!LogHolds(log'.cells, log'.pos, now)
        /\ WalP!AtEnd(log.cells, log.pos) => WalP!AtEnd(log'.cells, log'.pos)
        /\ WalP!Marked(log.cells) => WalP!Marked(log'.cells)
    BY <1>e, <2>1, KeptByOperations
  <2>4. now \in Seq(Record)
    <3>1. [key |-> delKey, val |-> EmptyVal] \in Record
      BY <2>1 DEF Record
    <3> QED BY <3>1
  <2> HIDE DEF now
  <2>5. /\ WalP!LogHolds(log'.cells, log'.pos, now)
        /\ ~WalP!Marked(log'.cells) => WalP!AtEnd(log'.cells, log'.pos)
    BY <1>c, <2>3 DEF Keeps
  <2>6. pc'["auto"] \notin {"wal", "data", "index", "checkpoint"}
    BY <2>1, <2>2 DEF Locked
  <2>7. \E w \in Seq(Record) : Keeps(w)'
    BY <2>4, <2>5, <2>6 DEF Keeps
  <2> QED BY <1>d, <2>2, <2>7 DEF LoggedInv
<1>7. ASSUME NEW p \in Flusher, SwapBatch(p) PROVE LoggedInv'
  <2>1. p = "auto" /\ pc["auto"] = "idle"
    BY <1>7, <1>b DEF SwapBatch, Flusher
  <2>2. pc'["auto"] \notin {"wal", "data", "index", "checkpoint"} /\ UNCHANGED <<log, open>>
    BY <1>7, <1>a, <2>1 DEF SwapBatch, Goto, AfterFlush, Flusher, files
  <2>3. Keeps(es)'
    BY <1>c, <2>2 DEF Keeps
  <2> QED BY <1>c, <1>d, <2>2, <2>3 DEF LoggedInv
<1>8. ASSUME NEW p \in Flusher, LockForFlush(p) PROVE LoggedInv'
  <2>1. p = "auto"
    BY <1>8, <1>b DEF LockForFlush, Flusher
  <2>2. /\ pc'["auto"] = "wal" /\ UNCHANGED <<log, open, inflight>>
        /\ todo' = Keys(inflight["auto"])
    BY <1>8, <1>a, <2>1 DEF LockForFlush, Goto, Flusher, files
  <2>3. Keeps(es)'
    BY <1>c, <2>2 DEF Keeps, Keys
  <2> QED BY <1>c, <1>d, <2>2, <2>3 DEF LoggedInv
<1>9. ASSUME NEW p \in Flusher, NEW k \in Key, WriteWAL(p, k) PROVE LoggedInv'
  <2>1. p = "auto" /\ pc["auto"] = "wal" /\ k \in todo
    BY <1>9, <1>b DEF WriteWAL, Flusher
  <2> DEFINE v == inflight["auto"][k]
             now == Append(es, [key |-> k, val |-> v])
  <2>2. v \in Val
    BY <1>a, <2>1 DEF RestInv, Content, Flusher
  <2>3. /\ Wal!WriteEntry(k, v) /\ UNCHANGED <<open, inflight>> /\ todo' = todo \ {k}
        /\ pc'["auto"] = IF todo = {k} THEN "data" ELSE "wal"
    BY <1>9, <1>a, <2>1 DEF WriteWAL, Goto, Flusher
  <2>4. /\ WalP!LogHolds(log'.cells, log'.pos, now)
        /\ WalP!AtEnd(log.cells, log.pos) => WalP!AtEnd(log'.cells, log'.pos)
        /\ WalP!Marked(log.cells) => WalP!Marked(log'.cells)
    BY <1>e, <2>2, <2>3, KeptByOperations
  <2>5. now \in Seq(Record)
    <3>1. [key |-> k, val |-> v] \in Record
      BY <2>2 DEF Record
    <3> QED BY <3>1
  <2>6. \A j \in Key : LastReplayed(now, j) = IF j = k THEN v ELSE LastReplayed(es, j)
    BY <2>2, LastOfAppended
  <2>7. \A j \in Keys(inflight["auto"]) \ (todo \ {k}) : LastReplayed(now, j) = inflight["auto"][j]
    <3>1. \A j \in Keys(inflight["auto"]) \ todo : LastReplayed(es, j) = inflight["auto"][j]
      BY <1>c, <2>1 DEF Keeps
    <3> HIDE DEF now
    <3> QED BY <2>6, <3>1 DEF Keys
  <2> HIDE DEF now, v
  <2>8. ~WalP!Marked(log'.cells) => WalP!AtEnd(log'.cells, log'.pos)
    BY <1>c, <2>4 DEF Keeps
  <2>9. Keys(inflight["auto"])' = Keys(inflight["auto"])
    BY <2>3 DEF Keys
  <2>10. \E w \in Seq(Record) : Keeps(w)'
    BY <2>3, <2>4, <2>5, <2>7, <2>8, <2>9 DEF Keeps
  <2> QED BY <1>d, <2>3, <2>10 DEF LoggedInv
<1>10. ASSUME NEW p \in Flusher, NEW k \in Key, AppendRecord(p, k) PROVE Same
  BY <1>10, <1>a, <1>b DEF AppendRecord, Goto, Flusher
<1>11. ASSUME NEW p \in Flusher, AddToIndex(p) PROVE LoggedInv'
  <2>1. p = "auto" /\ pc["auto"] = "index"
    BY <1>11, <1>b DEF AddToIndex, Flusher
  <2> DEFINE k == data[Len(data)].key
  <2>2. data[Len(data)] \in Record
    BY <1>a, <2>1 DEF Flusher
  <2>3. k \in Key
    BY <2>2 DEF Record
  <2>4. /\ inflight' = [inflight EXCEPT !["auto"][k] = NoVal] /\ UNCHANGED <<open, log, todo>>
        /\ pc'["auto"] \in {"sync", "data"}
    BY <1>11, <1>a, <2>1 DEF AddToIndex, Goto, Flusher
  <2> HIDE DEF k
  <2>5. \A j \in Key : inflight'["auto"][j] = (IF j = k THEN NoVal ELSE inflight["auto"][j])
    BY <1>a, <2>3, <2>4 DEF Content, Flusher
  <2>6. /\ Keys(inflight'["auto"]) \subseteq Keys(inflight["auto"])
        /\ \A j \in Keys(inflight'["auto"]) : inflight'["auto"][j] = inflight["auto"][j]
    BY <2>5 DEF Keys
  <2>7. todo = {} /\ \A j \in Keys(inflight["auto"]) \ todo : LastReplayed(es, j) = inflight["auto"][j]
    BY <1>c, <2>1 DEF Keeps
  <2>8. \A j \in Keys(inflight'["auto"]) \ todo' : LastReplayed(es, j) = inflight'["auto"][j]
    BY <2>4, <2>6, <2>7
  <2>9. Keeps(es)'
    BY <1>c, <2>4, <2>7, <2>8 DEF Keeps, Keys
  <2> QED BY <1>c, <1>d, <2>4, <2>9 DEF LoggedInv
<1>12. ASSUME NEW p \in Flusher, SyncAndCommit(p) PROVE LoggedInv'
  <2>1. p = "auto"
    BY <1>12, <1>b DEF SyncAndCommit, Flusher
  <2>2. Wal!MarkCommitted /\ open' = open /\ pc'["auto"] = "checkpoint"
    BY <1>12, <1>a, <1>d, <2>1 DEF SyncAndCommit, Goto, Flusher
  <2>3. WalP!LogHolds(log'.cells, log'.pos, <<>>) /\ WalP!Marked(log'.cells)
    BY <1>e, <2>2, KeptByOperations
  <2>4. <<>> \in Seq(Record) /\ Keeps(<<>>)'
    BY <2>2, <2>3 DEF Keeps
  <2> QED BY <1>d, <2>2, <2>4 DEF LoggedInv
<1>13. ASSUME NEW p \in Flusher, Checkpoint(p) PROVE LoggedInv'
  <2>1. p = "auto" /\ pc["auto"] = "checkpoint"
    BY <1>13, <1>b DEF Checkpoint, Flusher
  <2>2. (Wal!Clear \/ log' = log) /\ open' = open /\ pc'["auto"] = "idle"
    BY <1>13, <1>a, <2>1 DEF Checkpoint, Goto, AfterFlush, Flusher
  <2>3. es = <<>>
    BY <1>c, <2>1 DEF Keeps
  <2>4. CASE Wal!Clear
    <3>1. WalP!LogHolds(log'.cells, log'.pos, <<>>) /\ WalP!AtEnd(log'.cells, log'.pos)
      BY <1>e, <2>3, <2>4, KeptByOperations
    <3>2. <<>> \in Seq(Record) /\ Keeps(<<>>)'
      BY <2>2, <3>1 DEF Keeps
    <3> QED BY <1>d, <2>2, <3>2 DEF LoggedInv
  <2>5. CASE log' = log
    <3>1. Keeps(es)'
      BY <1>c, <2>2, <2>5 DEF Keeps
    <3> QED BY <1>c, <1>d, <2>2, <3>1 DEF LoggedInv
  <2> QED BY <2>2, <2>4, <2>5
<1>14. ASSUME NEW p \in Flusher, FlushFails(p) PROVE LoggedInv'
  <2>1. p = "auto"
    BY <1>14, <1>b DEF FlushFails, Flusher
  <2>2. pc'["auto"] = "idle" /\ UNCHANGED <<log, open>>
    BY <1>14, <1>a, <2>1 DEF FlushFails, Goto, AfterFlush, Flusher, files
  <2>3. Keeps(es)'
    BY <1>c, <2>2 DEF Keeps
  <2> QED BY <1>c, <1>d, <2>2, <2>3 DEF LoggedInv
<1>15. ASSUME CloseStart \/ CloseStep \/ Kill \/ Start \/ StartDone PROVE FALSE
  BY <1>15, <1>a, <1>b DEF CloseStart, CloseStep, Kill, Start, StartDone, Counted, Events
<1>16. ASSUME UNCHANGED vars PROVE Same
  BY <1>16 DEF vars, files
<1> HIDE DEF Same
<1> QED
  BY <1>f, <1>1, <1>2, <1>3, <1>4, <1>5, <1>6, <1>7, <1>8, <1>9, <1>10, <1>11, <1>12, <1>13,
     <1>14, <1>15, <1>16
  DEF Next, FlushStep, DeleteStep

\* Up to the first MarkCommitted on a log, and after a checkpoint up to the
\* next, Replay returns of every key whose record is not indexed yet the value
\* that is being flushed: a process that died there would have its values back.
THEOREM FirstBatchIsRecovered ==
  OnlyTicker => (Spec /\ []DataFits => []FirstBatchRecoverable)
<1> SUFFICES ASSUME OnlyTicker PROVE Spec /\ []DataFits => []FirstBatchRecoverable
  OBVIOUS
<1>1. Init => OrderInv /\ LoggedIfAny /\ RestInv /\ Wal!WALTypeOK
  BY OrderInit, LoggedInit, RestInit DEF LoggedIfAny
<1>2. EngineInv /\ OrderInv /\ RestInv /\ Wal!WALTypeOK /\ DataFits /\ [Next]_vars =>
        OrderInv' /\ RestInv' /\ Wal!WALTypeOK'
  BY OrderStep, RestStep, LogStep DEF EngineInv
<1>3. EngineInv /\ OrderInv /\ RestInv /\ Wal!WALTypeOK /\ LoggedIfAny /\ [Next]_vars =>
        LoggedIfAny'
  BY LoggedStep DEF LoggedIfAny
<1>4. EngineInv /\ OrderInv /\ Wal!WALTypeOK /\ LoggedIfAny => FirstBatchRecoverable
  <2> SUFFICES ASSUME EngineInv, OrderInv, Wal!WALTypeOK, EnableWAL => LoggedInv,
                      ~WalP!Marked(log.cells), EnableWAL,
                      NEW p \in Flusher, pc[p] \in {"data", "index"},
                      NEW result \in Wal!ReplayResults, NEW k \in Keys(inflight[p])
               PROVE  LastReplayed(result.entries, k) = inflight[p][k]
    BY DEF LoggedIfAny, FirstBatchRecoverable, LoggedBatchRecoverable, WalP!Marked
  <2>1. p = "auto"
    BY DEF OrderInv, Flusher
  <2>2. PICK es \in Seq(Record) : Keeps(es)
    BY DEF LoggedInv
  <2>3. WalP!LogHolds(log.cells, log.pos, es) /\ WalP!AtEnd(log.cells, log.pos)
    BY <2>2 DEF Keeps
  <2>4. result.entries = es
    <3>1. WalP!WALTypeOK /\ es \in Seq(WalP!Entry) /\ result \in WalP!ReplayResults
      BY SameLog, SameScan DEF Record, WalP!Entry, WalP!EmptyVal, EmptyVal
    <3>2. WalP!AtEnd(log.cells, log.pos) => result.ok /\ result.entries = es
      BY <2>3, <3>1, LogAssumed, WalP!HeldReplayed, Zenon
    <3> QED BY <2>3, <3>2
  <2>5. LastReplayed(es, k) = inflight[p][k]
    BY <2>1, <2>2 DEF Keeps
  <2> QED BY <2>4, <2>5
<1> QED BY <1>1, <1>2, <1>3, <1>4, EngineInvariant, PTL DEF Spec
=============================================================================
