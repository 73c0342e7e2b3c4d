------------------------------ MODULE KVEngine ------------------------------
(***************************************************************************)
(* One key-value engine, ShibuDB (internal/storage/key_value_storage.go),  *)
(* with the index and the log it owns: client operations, the flush        *)
(* goroutine, Close, and the process being killed and started again.       *)
(*                                                                         *)
(* A Put is acknowledged once it is in the in-memory batch.  FlushBatch    *)
(* swaps the batch out under batchLock, then takes db.lock and writes log, *)
(* data file and index; Delete holds db.lock throughout.  Every step       *)
(* between two points where another goroutine or a kill can be seen is one *)
(* action.  Values are put in increasing order, so "newer" is ">".         *)
(***************************************************************************)
EXTENDS Integers, Sequences

CONSTANTS
  Key, Reader,                 \* keys (ranks, none is empty), reading clients
  EnableWAL,                   \* the space was created with its log
  DeletedMark,                 \* the value "__deleted__", or no value at all
  KeyLen, ValLen, CheckpointSize, PosMod, InitSlots,   \* see WAL, BTreeIndex
  MaxPuts, MaxDeletes, MaxKills, MaxFaults, MaxCloses  \* bounds

Val      == 1..MaxPuts
EmptyVal == 0                  \* the value of a tombstone
NoVal    == -1                 \* nothing there
Flusher  == {"open", "auto", "close"}
Nothing  == [k \in Key |-> NoVal]

ASSUME EngineAssumption ==
  /\ Key \subseteq Nat \ {0}
  /\ EnableWAL \in BOOLEAN
  /\ MaxPuts \in Nat /\ MaxDeletes \in Nat /\ MaxKills \in Nat
  /\ MaxFaults \in Nat /\ MaxCloses \in Nat
  /\ PosMod \in Nat \ {0} /\ InitSlots \in Nat \ {0} /\ CheckpointSize \in Nat
  /\ KeyLen \in [Key -> Nat \ {0}] /\ ValLen \in [Val -> Nat \ {0}]

VARIABLES
  data,       \* data file: sequence of [key, val]; a position is an ordinal
  btree, slots, off, rewrite,  \* the index (BTreeIndex)
  log,        \* the write-ahead log (WAL)
  batch,      \* [Key -> value or NoVal]
  inflight,   \* [Flusher -> batchCopy, less the entries already indexed]
  todo,       \* keys the flush that holds db.lock has still to log
  pc,         \* where each flusher is in FlushBatch, and "delete" in Delete
  lock,       \* holder of db.lock
  phase,      \* "down", "opening", "up", "closing", "closed"
  open,       \* open files: subset of {"wal", "data"}
  delKey,     \* the key Delete is working on
  reading,    \* [Reader -> key of a Get that missed the batch, or 0]
  \* History, for the properties only:
  acked,      \* [Key -> last acknowledged value; NoVal after a Delete]
  legal,      \* [Reader -> values its key had while the Get ran]
  before,     \* [Key -> value the store held at the last kill]
  maybe,      \* [Key -> values that were on their way at the last kill]
  count       \* how often each bounded event happened

files   == <<data, btree, slots, off, rewrite, log>>
history == <<before, maybe>>
reads   == <<reading, legal>>
vars == <<files, batch, inflight, todo, pc, lock, phase, open, delKey, reads,
          acked, history, count>>

Index == INSTANCE BTreeIndex
Wal   == INSTANCE WAL WITH LogKey <- Key

NoPos == Index!NoPos
Keys(f) == {k \in Key : f[k] # NoVal}

\* What Get finds in the data file behind the index.
ValueAt(tree, k) == IF tree[k] = NoPos THEN NoVal ELSE data[tree[k]].val
Stored(k) == ValueAt(btree, k)
\* What it would find after a restart without a log.
Durable(k) == ValueAt(Index!Loaded(slots), k)

Serving == phase \in {"up", "closing", "closed"}
Counted(event, max) ==
  count[event] < max /\ count' = [count EXCEPT ![event] = @ + 1]
Goto(p, label) == pc' = [pc EXCEPT ![p] = label]

-----------------------------------------------------------------------------
Init ==
  /\ data = <<>> /\ Index!Init /\ Wal!InitLog
  /\ batch = Nothing /\ inflight = [p \in Flusher |-> Nothing] /\ todo = {}
  /\ pc = [p \in Flusher \cup {"delete"} |-> "idle"]
  /\ lock = "free" /\ phase = "up" /\ open = {"wal", "data"} /\ delKey = 0
  /\ reading = [r \in Reader |-> 0]
  /\ legal = [r \in Reader |-> {}]
  /\ acked = Nothing /\ before = Nothing
  /\ maybe = [k \in Key |-> {}]
  /\ count = [e \in {"put", "delete", "kill", "fault", "close"} |-> 0]

-----------------------------------------------------------------------------
\* Clients.

SetAcked(k, v) ==
  /\ acked' = [acked EXCEPT ![k] = v]
  /\ legal' = [r \in Reader |-> IF reading[r] = k THEN legal[r] \cup {v} ELSE legal[r]]

\* The engine object outlives Close: a Put through an old handle is accepted.
Put(k) ==
  /\ Serving
  /\ Counted("put", MaxPuts)
  /\ batch' = [batch EXCEPT ![k] = count["put"] + 1]
  /\ SetAcked(k, count["put"] + 1)
  /\ UNCHANGED <<files, inflight, todo, pc, lock, phase, open, delKey, reading, history>>

\* Get, first half: a key in the batch is answered at once (nothing changes);
\* otherwise batchLock is released and the store is read later.
GetMissesBatch(r, k) ==
  /\ Serving /\ reading[r] = 0 /\ batch[k] = NoVal
  /\ reading' = [reading EXCEPT ![r] = k]
  /\ legal' = [legal EXCEPT ![r] = {acked[k]}]
  /\ UNCHANGED <<files, batch, inflight, todo, pc, lock, phase, open, delKey, acked, history, count>>

\* The answer of the second half: an error is NoVal.
ReadResult(k) ==
  IF \/ btree[k] = NoPos \/ "data" \notin open
     \/ data[btree[k]].key # k \/ data[btree[k]].val = DeletedMark
  THEN NoVal ELSE data[btree[k]].val

\* Get, second half: under db.lock.RLock, so never during a flush or Delete.
GetReadsStore(r) ==
  /\ reading[r] # 0 /\ lock = "free"
  /\ reading' = [reading EXCEPT ![r] = 0]
  /\ legal' = [legal EXCEPT ![r] = {}]
  /\ UNCHANGED <<files, batch, inflight, todo, pc, lock, phase, open, delKey, acked, history, count>>

\* Mutant of DeleteStart: db.lock is not waited for.
DeleteStartUnlocked(k) ==
  /\ Serving /\ Counted("delete", MaxDeletes)
  /\ Index!RemoveStart(k)
  /\ lock' = "delete" /\ delKey' = k /\ Goto("delete", "rewrite")
  /\ UNCHANGED <<data, log, batch, inflight, todo, phase, open, reads, acked, history>>

\* Delete of a key the index has (of another it replies "key not found" and
\* changes nothing, whatever the batch holds).
DeleteStart(k) ==
  /\ Serving /\ lock = "free"
  /\ Counted("delete", MaxDeletes)
  /\ Index!RemoveStart(k)
  /\ lock' = "delete" /\ delKey' = k /\ Goto("delete", "rewrite")
  /\ UNCHANGED <<data, log, batch, inflight, todo, phase, open, reads, acked, history>>

DeleteRewrites ==
  /\ pc["delete"] = "rewrite"
  /\ Index!RemoveAppend
  /\ UNCHANGED <<data, log, batch, inflight, todo, pc, lock, phase, open, delKey, reads, acked, history, count>>

DeleteLogs ==
  /\ pc["delete"] = "rewrite" /\ rewrite = {}
  /\ IF EnableWAL THEN "wal" \in open /\ Wal!WriteDelete(delKey) ELSE UNCHANGED log
  /\ Goto("delete", "append")
  /\ UNCHANGED <<data, btree, slots, off, rewrite, batch, inflight, todo, lock, phase, open, delKey, reads, acked, history, count>>

DeleteUnlocks == lock' = "free" /\ delKey' = 0 /\ Goto("delete", "idle")

DeleteAppends ==
  /\ pc["delete"] = "append" /\ "data" \in open
  /\ data' = Append(data, [key |-> delKey, val |-> EmptyVal])
  /\ SetAcked(delKey, NoVal)
  /\ DeleteUnlocks
  /\ UNCHANGED <<btree, slots, off, rewrite, log, batch, inflight, todo, phase, open, reading, history, count>>

\* A write that fails (file closed, or an I/O fault) ends Delete with an error,
\* after the key has left the index.
DeleteFails ==
  /\ \/ pc["delete"] = "rewrite" /\ rewrite = {} /\ EnableWAL
        /\ IF "wal" \in open THEN Counted("fault", MaxFaults) ELSE UNCHANGED count
     \/ pc["delete"] = "append"
        /\ IF "data" \in open THEN Counted("fault", MaxFaults) ELSE UNCHANGED count
  /\ DeleteUnlocks
  /\ UNCHANGED <<files, batch, inflight, todo, phase, open, reads, acked, history>>

-----------------------------------------------------------------------------
\* FlushBatch, run by the ticker ("auto"), by Close, and by replayWAL ("open").

MayFlush(p) ==
  CASE p = "auto"  -> phase \in {"up", "closing"}   \* until it sees quitChan
    [] p = "close" -> phase = "closing" /\ pc["close"] = "flush"
    [] p = "open"  -> phase = "opening" /\ pc["open"] = "flush"

AfterFlush(p) ==
  CASE p = "auto" -> "idle" [] p = "close" -> "clear" [] p = "open" -> "clear"

\* Mutant of SwapBatch: the batch is copied and not emptied.
SwapBatchKeeps(p) ==
  /\ MayFlush(p) /\ pc[p] = (IF p = "auto" THEN "idle" ELSE "flush")
  /\ batch # Nothing \/ p # "auto"
  /\ inflight' = [inflight EXCEPT ![p] = batch]
  /\ Goto(p, IF batch = Nothing THEN AfterFlush(p) ELSE "lock")
  /\ UNCHANGED <<files, batch, todo, lock, phase, open, delKey, reads, acked, history, count>>

SwapBatch(p) ==
  /\ MayFlush(p) /\ pc[p] = (IF p = "auto" THEN "idle" ELSE "flush")
  /\ batch # Nothing \/ p # "auto"
  /\ batch' = Nothing
  /\ inflight' = [inflight EXCEPT ![p] = batch]
  /\ Goto(p, IF batch = Nothing THEN AfterFlush(p) ELSE "lock")
  /\ UNCHANGED <<files, todo, lock, phase, open, delKey, reads, acked, history, count>>

LockForFlush(p) ==
  /\ pc[p] = "lock" /\ lock = "free"
  /\ lock' = p
  /\ todo' = IF EnableWAL THEN Keys(inflight[p]) ELSE {}
  /\ Goto(p, IF EnableWAL THEN "wal" ELSE "data")
  /\ UNCHANGED <<files, batch, inflight, phase, open, delKey, reads, acked, history, count>>

\* Mutant of WriteWAL: only the first entry of the batch is logged.
WriteWALOnce(p, k) ==
  /\ pc[p] = "wal" /\ k \in todo /\ "wal" \in open
  /\ Wal!WriteEntry(k, inflight[p][k])
  /\ todo' = {} /\ Goto(p, "data")
  /\ UNCHANGED <<data, btree, slots, off, rewrite, batch, inflight, lock, phase, open, delKey, reads, acked, history, count>>

\* Map iteration order is arbitrary, here and in the next loop.
WriteWAL(p, k) ==
  /\ pc[p] = "wal" /\ k \in todo /\ "wal" \in open
  /\ Wal!WriteEntry(k, inflight[p][k])
  /\ todo' = todo \ {k}
  /\ Goto(p, IF todo = {k} THEN "data" ELSE "wal")
  /\ UNCHANGED <<data, btree, slots, off, rewrite, batch, inflight, lock, phase, open, delKey, reads, acked, history, count>>

\* Mutant of AppendRecord: keys that are not in the batch are written too.
AppendRecordAnyKey(p, k) ==
  /\ pc[p] = "data" /\ "data" \in open
  /\ data' = Append(data, [key |-> k, val |-> inflight[p][k]])
  /\ Goto(p, "index")
  /\ UNCHANGED <<btree, slots, off, rewrite, log, batch, inflight, todo, lock, phase, open, delKey, reads, acked, history, count>>

AppendRecord(p, k) ==
  /\ pc[p] = "data" /\ inflight[p][k] # NoVal /\ "data" \in open
  /\ data' = Append(data, [key |-> k, val |-> inflight[p][k]])
  /\ Goto(p, "index")
  /\ UNCHANGED <<btree, slots, off, rewrite, log, batch, inflight, todo, lock, phase, open, delKey, reads, acked, history, count>>

\* Mutant of AddToIndex: the loop ends after its first entry.
AddToIndexOnce(p) ==
  /\ pc[p] = "index"
  /\ Index!Add(data[Len(data)].key, Len(data))
  /\ inflight' = [inflight EXCEPT ![p] = Nothing]
  /\ Goto(p, "sync")
  /\ UNCHANGED <<data, log, batch, todo, lock, phase, open, delKey, reads, acked, history, count>>

\* index.Add of the record just appended: the store has the value from here on.
AddToIndex(p) ==
  LET k == data[Len(data)].key IN
  /\ pc[p] = "index"
  /\ Index!Add(k, Len(data))
  /\ inflight' = [inflight EXCEPT ![p][k] = NoVal]
  /\ Goto(p, IF Keys(inflight[p]) = {k} THEN "sync" ELSE "data")
  /\ UNCHANGED <<data, log, batch, todo, lock, phase, open, delKey, reads, acked, history, count>>

\* file.Sync, then MarkCommitted (whose error is ignored: "wal" may be closed).
SyncAndCommit(p) ==
  /\ pc[p] = "sync" /\ "data" \in open
  /\ IF EnableWAL /\ "wal" \in open THEN Wal!MarkCommitted ELSE UNCHANGED log
  /\ Goto(p, "checkpoint")
  /\ UNCHANGED <<data, btree, slots, off, rewrite, batch, inflight, todo, lock, phase, open, delKey, reads, acked, history, count>>

\* Mutants of Checkpoint: the batch is emptied when the flush ends; db.lock is
\* not released.
CheckpointEmptiesBatch(p) ==
  /\ pc[p] = "checkpoint"
  /\ IF EnableWAL /\ Wal!ShouldCheckpoint THEN Wal!Clear ELSE UNCHANGED log
  /\ lock' = "free" /\ batch' = Nothing
  /\ Goto(p, AfterFlush(p))
  /\ UNCHANGED <<data, btree, slots, off, rewrite, inflight, todo, phase, open, delKey, reads, acked, history, count>>

CheckpointKeepsLock(p) ==
  /\ pc[p] = "checkpoint"
  /\ IF EnableWAL /\ Wal!ShouldCheckpoint THEN Wal!Clear ELSE UNCHANGED log
  /\ Goto(p, AfterFlush(p))
  /\ UNCHANGED <<data, btree, slots, off, rewrite, batch, inflight, todo, lock, phase, open, delKey, reads, acked, history, count>>

Checkpoint(p) ==
  /\ pc[p] = "checkpoint"
  /\ IF EnableWAL /\ Wal!ShouldCheckpoint THEN Wal!Clear ELSE UNCHANGED log
  /\ lock' = "free"
  /\ Goto(p, AfterFlush(p))
  /\ UNCHANGED <<data, btree, slots, off, rewrite, batch, inflight, todo, phase, open, delKey, reads, acked, history, count>>

\* Any write or sync of the flush may fail: the rest of batchCopy is dropped.
FlushFails(p) ==
  /\ pc[p] \in {"wal", "data", "sync"}
  /\ IF (IF pc[p] = "wal" THEN "wal" ELSE "data") \in open
     THEN Counted("fault", MaxFaults) ELSE UNCHANGED count
  /\ inflight' = [inflight EXCEPT ![p] = Nothing]
  /\ todo' = {} /\ lock' = "free"
  /\ Goto(p, AfterFlush(p))
  /\ UNCHANGED <<files, batch, phase, open, delKey, reads, acked, history>>

-----------------------------------------------------------------------------
\* Close (closeOnce), the death of the process, and the next one's OpenDB.

CloseStart ==
  /\ phase = "up" /\ Counted("close", MaxCloses)
  /\ phase' = "closing" /\ Goto("close", "flush")
  /\ UNCHANGED <<files, batch, inflight, todo, lock, open, delKey, reads, acked, history>>

\* Neither wal.Clear nor the Close calls take db.lock.
CloseStep ==
  /\ \/ /\ pc["close"] = "clear"
        /\ IF EnableWAL THEN Wal!Clear ELSE UNCHANGED log
        /\ Goto("close", "walClose") /\ UNCHANGED <<open, phase>>
     \/ /\ pc["close"] = "walClose"
        /\ open' = open \ {"wal"} /\ Goto("close", "fileClose") /\ UNCHANGED <<log, phase>>
     \/ /\ pc["close"] = "fileClose"
        /\ open' = open \ {"data"} /\ phase' = "closed"
        /\ Goto("close", "idle") /\ UNCHANGED log
  /\ UNCHANGED <<data, btree, slots, off, rewrite, batch, inflight, todo, lock, delKey, reads, acked, history, count>>

\* SIGKILL (or exit after Close): the files stay, everything else is gone.
Kill ==
  /\ phase # "down" /\ Counted("kill", MaxKills)
  /\ phase' = "down" /\ open' = {"wal", "data"}
  /\ batch' = Nothing /\ inflight' = [p \in Flusher |-> Nothing] /\ todo' = {}
  /\ pc' = [p \in DOMAIN pc |-> "idle"] /\ lock' = "free" /\ delKey' = 0
  /\ reading' = [r \in Reader |-> 0]
  /\ legal' = [r \in Reader |-> {}]
  /\ Index!Kill /\ Wal!OpenLog
  /\ IF phase = "opening" THEN UNCHANGED history ELSE
     /\ before' = [k \in Key |-> Stored(k)]
     /\ maybe' = [k \in Key |-> IF k = delKey THEN Val   \* the Delete may count or not
                               ELSE {inflight[p][k] : p \in Flusher} \ {NoVal}]
  /\ UNCHANGED <<data, acked>>

LastReplayed(entries, k) ==
  LET mine == {i \in DOMAIN entries : entries[i].key = k /\ entries[i].val # EmptyVal}
  IN  IF mine = {} THEN NoVal
      ELSE entries[CHOOSE i \in mine : \A j \in mine : j <= i].val

\* OpenDBWithPathsAndWAL: the index is loaded from its image (Kill did), and
\* the entries of the log that have a value are put into the batch in order.
\* When Replay fails the engine comes up with the log as it is.
Start ==
  /\ phase = "down"
  /\ IF ~EnableWAL THEN phase' = "up" /\ UNCHANGED <<log, batch, pc>> ELSE
     \E result \in Wal!ReplayResults :
       /\ Wal!Replay(result)
       /\ IF result.ok
          THEN /\ batch' = [k \in Key |->
                     IF \E v \in Val : LastReplayed(result.entries, k) = v
                     THEN CHOOSE v \in Val : LastReplayed(result.entries, k) = v ELSE NoVal]
               /\ phase' = "opening" /\ Goto("open", "flush")
          ELSE phase' = "up" /\ UNCHANGED <<batch, pc>>
  /\ UNCHANGED <<data, btree, slots, off, rewrite, inflight, todo, lock, open, delKey, reads, acked, history, count>>

\* replayWAL after its FlushBatch.
StartDone ==
  /\ phase = "opening" /\ pc["open"] = "clear"
  /\ Wal!Clear
  /\ phase' = "up" /\ Goto("open", "idle")
  /\ UNCHANGED <<data, btree, slots, off, rewrite, batch, inflight, todo, lock, open, delKey, reads, acked, history, count>>

-----------------------------------------------------------------------------
FlushStep(p) ==
  \/ SwapBatch(p) \/ LockForFlush(p) \/ AddToIndex(p) \/ SyncAndCommit(p)
  \/ Checkpoint(p) \/ FlushFails(p)
  \/ \E k \in Key : WriteWAL(p, k) \/ AppendRecord(p, k)

DeleteStep == DeleteRewrites \/ DeleteLogs \/ DeleteAppends \/ DeleteFails

Next ==
  \/ \E k \in Key : Put(k) \/ DeleteStart(k)
  \/ \E r \in Reader, k \in Key : GetMissesBatch(r, k)
  \/ \E r \in Reader : GetReadsStore(r)
  \/ DeleteStep
  \/ \E p \in Flusher : FlushStep(p)
  \/ CloseStart \/ CloseStep \/ Kill \/ Start \/ StartDone

\* The ticker fires and every started operation goes on: db.lock is held for
\* a bounded number of steps and Go's mutex hands it to a waiting writer.
\* Clients, kills, faults and Close owe nothing.
Fairness ==
  /\ \A p \in Flusher : WF_vars(FlushStep(p))
  /\ WF_vars(DeleteStep)
  /\ \A r \in Reader : WF_vars(GetReadsStore(r))
  /\ WF_vars(Start) /\ WF_vars(StartDone)

Spec == Init /\ [][Next]_vars /\ Fairness

-----------------------------------------------------------------------------
Value == Val \cup {EmptyVal, NoVal}

TypeOK ==
  /\ data \in Seq([key : Key, val : Val \cup {EmptyVal}])
  /\ Index!IndexTypeOK /\ Wal!WALTypeOK
  /\ batch \in [Key -> Val \cup {NoVal}]
  /\ inflight \in [Flusher -> [Key -> Val \cup {NoVal}]]
  /\ todo \subseteq Key
  /\ pc \in [Flusher \cup {"delete"} -> {"idle", "lock", "wal", "data", "index",
        "sync", "checkpoint", "flush", "clear", "walClose", "fileClose", "rewrite", "append"}]
  /\ lock \in Flusher \cup {"delete", "free"}
  /\ phase \in {"down", "opening", "up", "closing", "closed"}
  /\ open \subseteq {"wal", "data"}
  /\ delKey \in Key \cup {0}
  /\ reading \in [Reader -> Key \cup {0}] /\ legal \in [Reader -> SUBSET Value]
  /\ acked \in [Key -> Value] /\ before \in [Key -> Value] /\ maybe \in [Key -> SUBSET Value]
  /\ count \in [{"put", "delete", "kill", "fault", "close"} -> Nat]

OwnRecord(k, p) == p \in 1..Len(data) /\ data[p].key = k /\ data[p].val # EmptyVal

\* Get never reports "key mismatch at position" nor returns a tombstone: the
\* tree, and what a restart at any point would load from its image, lead from
\* a key to a value record of that key.
IndexPointsToOwnRecord ==
  \A k \in Key : /\ btree[k] # NoPos => OwnRecord(k, btree[k])
                 /\ Index!Loaded(slots)[k] # NoPos => OwnRecord(k, Index!Loaded(slots)[k])

\* Along the way of a value (batch, batchCopy, store) newer values are behind
\* older ones: no flush can put an older value over a newer one.
NewerBehindOlder ==
  \A k \in Key, p \in Flusher :
    /\ inflight[p][k] # NoVal => inflight[p][k] > Stored(k)
    /\ batch[k] # NoVal => batch[k] > inflight[p][k] /\ batch[k] > Stored(k)

Settled(k) ==
  batch[k] = NoVal /\ k # delKey /\ \A p \in Flusher : inflight[p][k] = NoVal

\* When nothing of a key is on its way any more, the store holds the last
\* acknowledged value of the key (or lacks it, after an acknowledged Delete).
SettledIsAcked ==
  phase # "down" => \A k \in Key : Settled(k) => Stored(k) = acked[k]

\* Once all records of a flush are in the log, Replay after a kill returns the
\* values of the flush that the index does not have yet.
LoggedBatchRecoverable ==
  EnableWAL => \A p \in Flusher : pc[p] \in {"data", "index"} =>
    \A result \in Wal!ReplayResults : \A k \in Keys(inflight[p]) :
      LastReplayed(result.entries, k) = inflight[p][k]

\* The same for the flushes before the first MarkCommitted on the log.
FirstBatchRecoverable ==
  (Len(log.cells) >= 2 => log.cells[2][1] # "C") => LoggedBatchRecoverable

\* No step puts an older value over a newer one: not the flush, not a kill,
\* not the replay of the log.
StoreMovesForward ==
  [][\A k \in Key : Stored(k)' # NoVal => Stored(k)' >= Stored(k)]_vars

\* A Get returns a value its key had while it ran (read-your-own-writes).
ReadsCurrent ==
  [][\A r \in Reader : GetReadsStore(r) => ReadResult(reading[r]) \in legal[r]]_vars

\* The same, unless a flush had swapped the key's value out of the batch and
\* not yet got db.lock when the Get read the store.
ReadsCurrentUnlessInFlight ==
  [][\A r \in Reader :
       GetReadsStore(r) /\ (\A p \in Flusher : inflight[p][reading[r]] = NoVal)
         => ReadResult(reading[r]) \in legal[r]]_vars

Restarted == phase \in {"down", "opening"} /\ phase' = "up"

\* A key that was not in the store when the process died, nor on its way
\* there, is not in the store of the next process.
RestartRevivesNothing ==
  [][Restarted => \A k \in Key :
       before[k] = NoVal /\ maybe[k] = {} => Stored(k)' = NoVal]_vars

\* What a dying process leaves in the index file is its store: a kill costs no
\* stored value but those of the keys a Remove has still to write back, and
\* brings none up.
KillCostsOnlyRewrite ==
  [][Kill => \A k \in Key : k \notin rewrite => Stored(k)' = Stored(k)]_vars

\* A put that was acknowledged reaches the store, if nothing fails.
AckedPutStored ==
  \A k \in Key, v \in Val : batch[k] = v ~> Stored(k) >= v

\* The engine implements the write-back store: every step of FlushBatch, Put,
\* Delete and a kill is one of its steps or changes nothing it speaks of.
Store == INSTANCE KVStore WITH
  buffered <- batch,
  moving   <- [k \in Key |-> IF \E p \in Flusher : inflight[p][k] # NoVal
                 THEN inflight[CHOOSE p \in Flusher : inflight[p][k] # NoVal][k] ELSE NoVal],
  stored   <- [k \in Key |-> Stored(k)],
  atRisk   <- rewrite

ImplementsStoreSteps == Store!SafeSpec

\* It implements it with the store's liveness: what a flush picked up is stored,
\* the batch is picked up, and a Delete writes every remaining key back.
ImplementsStore == Store!Spec
=============================================================================
