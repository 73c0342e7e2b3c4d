----------------------------- MODULE VectorEngine -----------------------------
(***************************************************************************)
(* One vector engine (internal/storage/vector_storage.go): inserts and     *)
(* removals by several clients, the data-file flusher, checkpoints of the  *)
(* FAISS index, and the process being killed and started again.            *)
(*                                                                         *)
(* A vector is found by Search through the FAISS index in memory, filtered *)
(* by fileOffsets, and by GetVectorByID through fileOffsets alone.  It     *)
(* enters the index at once (or waits in pendingAdd until the index has    *)
(* been trained) and the data file when the flusher gets to it.  The index *)
(* is saved every 30 seconds and never rebuilt from the data file.         *)
(*                                                                         *)
(* Vectors are numbered in the order of the calls.  ve.lock is held by a   *)
(* flush and by a checkpoint across several steps, and within one step by  *)
(* everything else.                                                        *)
(***************************************************************************)
EXTENDS Integers, SequencesExt

CONSTANTS
  Id, Client,
  Kinds,      \* spaces: [wal, train, removes], see "kind"
  Dim,        \* length of a vector in cells of the log
  MaxOps, MaxKills, MaxCheckpoints   \* bounds

Vec   == 1..MaxOps
NoVec == -1                    \* nothing there
Gone  == 0                     \* a removal, and its value in the log

ASSUME VectorAssumption ==
  /\ Id \subseteq Nat /\ Dim \in Nat \ {0}
  /\ Kinds \subseteq [wal : BOOLEAN, train : Nat, removes : BOOLEAN]
  /\ MaxOps \in Nat /\ MaxKills \in Nat /\ MaxCheckpoints \in Nat

VARIABLES
  kind,       \* how the space was created: with a log; vectors needed to train
              \* the index; whether FAISS can remove ids (not HNSW)
  data,       \* data file: sequence of [id, vec]; an offset is an ordinal
  indexFile,  \* saved FAISS index: [state, index, trained]
  log,        \* the write-ahead log (WAL)
  mem,        \* the engine: [index, trained, pending, pool, offsets, buf]
  moving,     \* records a flush took out of persistBuf and has not written yet
  lock,       \* who holds ve.lock: "free", "flush", "checkpoint"
  phase,      \* "down", "opening", "clearing", "up", "failed"
  client,     \* [Client -> [at, id, vec]]
  \* History, for the properties only:
  live,       \* [Id -> last vector taken in since the start, or Gone, or NoVec]
  touched,    \* ids taken in or removed since the index was last saved, or
              \* waiting for training when it was
  seen,       \* [Id -> [gets, finds]]: what clients found at the last kill
  count       \* how often each bounded event happened

history == <<live, touched, seen>>
vars == <<kind, data, indexFile, log, mem, moving, lock, phase, client, history, count>>

Wal == INSTANCE WAL WITH
  LogKey <- Id, Val <- Vec, CheckpointSize <- 0,
  KeyLen <- [i \in Id |-> 1], ValLen <- [v \in Vec |-> Dim]

NoFile == [state |-> "none", index |-> {}, trained |-> FALSE]
Torn   == [state |-> "torn", index |-> {}, trained |-> FALSE]
Saved  == [state |-> "saved", index |-> mem.index, trained |-> mem.trained]

NoPending == [i \in Id |-> NoVec]
Empty  == [index |-> {}, trained |-> kind.train = 0, pending |-> NoPending,
           pool |-> 0, offsets |-> [i \in Id |-> 0], buf |-> <<>>]
Idle == [at |-> "idle", id |-> 0, vec |-> NoVec]
Counted(event, max) ==
  count[event] < max /\ count' = [count EXCEPT ![event] = @ + 1]

\* Mutant of Rebuilt: the first record of an id counts.
RebuiltFirst ==
  [i \in Id |-> IF \E p \in DOMAIN data : data[p].id = i
     THEN CHOOSE p \in DOMAIN data : data[p].id = i /\ \A q \in 1..p-1 : data[q].id # i ELSE 0]

\* rebuildOffsetsFromDataFile: the last record of an id counts.
Rebuilt ==
  [i \in Id |-> IF \E p \in DOMAIN data : data[p].id = i
     THEN CHOOSE p \in DOMAIN data :
            data[p].id = i /\ \A q \in p+1..Len(data) : data[q].id # i ELSE 0]

\* The engine as NewVectorEngine has it before the replay.
Opened ==
  [Empty EXCEPT !.index = indexFile.index, !.trained = @ \/ indexFile.trained,
                !.offsets = Rebuilt]

-----------------------------------------------------------------------------
\* What a client finds.

\* GetVectorByID.
Gets(i) == IF mem.offsets[i] = 0 THEN NoVec ELSE data[mem.offsets[i]].vec

\* The vectors SearchTopK and RangeSearch know the id by.
Finds(i) == IF mem.offsets[i] = 0 THEN {} ELSE {v \in Vec : <<i, v>> \in mem.index}

-----------------------------------------------------------------------------
\* insertAfterWAL and removeAfterWAL, as functions of the engine.

WithoutId(index, i) == IF kind.removes THEN {e \in index : e[1] # i} ELSE index

\* The ids whose vector waits for training.
Waiting(m) == {i \in Id : m.pending[i] # NoVec}

\* Mutant of Train: the vectors that waited are not queued for the data file.
TrainOnly(m) ==
  [m EXCEPT !.index = @ \cup {<<i, m.pending[i]>> : i \in Waiting(m)},
            !.trained = TRUE, !.pending = NoPending, !.pool = 0]

\* Training, and the vectors that waited for it (in the order of a Go map,
\* which no one can tell: the ids are distinct).
Train(m) ==
  LET records == SetToSeq({[id |-> i, vec |-> m.pending[i]] : i \in Waiting(m)})
  IN  [m EXCEPT !.index = @ \cup {<<i, m.pending[i]>> : i \in Waiting(m)},
                !.buf = @ \o records,
                !.trained = TRUE, !.pending = NoPending, !.pool = 0]

Inserted(m, i, v) ==
  IF m.trained
  THEN [m EXCEPT !.index = WithoutId(@, i) \cup {<<i, v>>},
                 !.buf = Append(@, [id |-> i, vec |-> v])]
  ELSE LET staged == [m EXCEPT !.pending[i] = v, !.pool = @ + 1]
       IN  IF staged.pool >= kind.train THEN Train(staged) ELSE staged

\* Mutant of Removed: pendingAdd is left as it is.
RemovedNotPending(m, i) ==
  [m EXCEPT !.index = WithoutId(@, i), !.offsets[i] = 0]

\* trainPool and persistBuf are left as they are.
Removed(m, i) ==
  [m EXCEPT !.index = WithoutId(@, i), !.pending[i] = NoVec, !.offsets[i] = 0]

After(m, i, v) == IF v = Gone THEN Removed(m, i) ELSE Inserted(m, i, v)

-----------------------------------------------------------------------------
Init ==
  /\ kind \in Kinds
  /\ data = <<>> /\ indexFile = NoFile /\ Wal!InitLog
  /\ mem = Empty
  /\ moving = <<>> /\ lock = "free" /\ phase = "up"
  /\ client = [c \in Client |-> Idle]
  /\ live = NoPending /\ touched = {}
  /\ seen = [i \in Id |-> [gets |-> NoVec, finds |-> {}]]
  /\ count = [e \in {"op", "kill", "checkpoint"} |-> 0]

\* InsertVector and RemoveVector: log (a removal has the empty value), ...
Call(c, i, v) ==
  /\ phase = "up" /\ client[c] = Idle
  /\ v \in {count["op"] + 1, Gone} /\ Counted("op", MaxOps)
  /\ IF kind.wal THEN Wal!WriteEntry(i, v) ELSE UNCHANGED log
  /\ client' = [client EXCEPT ![c] = [at |-> "ingest", id |-> i, vec |-> v]]
  /\ UNCHANGED <<kind, data, indexFile, mem, moving, lock, phase, history>>

\* ... change the engine under ve.lock, ...
Ingest(c) ==
  /\ client[c].at = "ingest" /\ lock = "free"
  /\ mem' = After(mem, client[c].id, client[c].vec)
  /\ live' = [live EXCEPT ![client[c].id] = client[c].vec]
  /\ touched' = touched \cup {client[c].id}
  /\ client' = [client EXCEPT ![c] = IF kind.wal THEN [@ EXCEPT !.at = "commit"] ELSE Idle]
  /\ UNCHANGED <<kind, data, indexFile, log, moving, lock, phase, seen, count>>

\* ... and mark the log committed, although nothing is in the data file yet.
Commit(c) ==
  /\ client[c].at = "commit"
  /\ Wal!MarkCommitted
  /\ client' = [client EXCEPT ![c] = Idle]
  /\ UNCHANGED <<kind, data, indexFile, mem, moving, lock, phase, history, count>>

-----------------------------------------------------------------------------
\* flushData, run by autoFlushData.

FlushTake ==
  /\ phase = "up" /\ lock # "flush" /\ moving = <<>> /\ mem.buf # <<>>
  /\ moving' = mem.buf
  /\ mem' = [mem EXCEPT !.buf = <<>>]
  /\ UNCHANGED <<kind, data, indexFile, log, lock, phase, client, history, count>>

FlushLock ==
  /\ moving # <<>> /\ lock = "free"
  /\ lock' = "flush"
  /\ UNCHANGED <<kind, data, indexFile, log, mem, moving, phase, client, history, count>>

\* Mutants of FlushAppend: the records are written in reverse; the offset is
\* read after the write.
FlushAppendReversed ==
  /\ lock = "flush" /\ moving # <<>>
  /\ data' = Append(data, Last(moving))
  /\ mem' = [mem EXCEPT !.offsets[Last(moving).id] = Len(data) + 1]
  /\ moving' = Front(moving)
  /\ UNCHANGED <<kind, indexFile, log, lock, phase, client, history, count>>

FlushAppendOffsetAfter ==
  /\ lock = "flush" /\ moving # <<>>
  /\ data' = Append(data, Head(moving))
  /\ mem' = [mem EXCEPT !.offsets[Head(moving).id] = Len(data) + 2]
  /\ moving' = Tail(moving)
  /\ UNCHANGED <<kind, indexFile, log, lock, phase, client, history, count>>

\* appendToDataFile.
FlushAppend ==
  /\ lock = "flush" /\ moving # <<>>
  /\ data' = Append(data, Head(moving))
  /\ mem' = [mem EXCEPT !.offsets[Head(moving).id] = Len(data) + 1]
  /\ moving' = Tail(moving)
  /\ UNCHANGED <<kind, indexFile, log, lock, phase, client, history, count>>

FlushUnlock ==
  /\ lock = "flush" /\ moving = <<>>
  /\ lock' = "free"
  /\ UNCHANGED <<kind, data, indexFile, log, mem, moving, phase, client, history, count>>

\* checkpoint, run by autoCheckpoint.  FAISS writes the file in place.
CheckpointStart ==
  /\ phase = "up" /\ lock = "free" /\ Counted("checkpoint", MaxCheckpoints)
  /\ lock' = "checkpoint" /\ indexFile' = Torn
  /\ UNCHANGED <<kind, data, log, mem, moving, phase, client, history>>

CheckpointEnd ==
  /\ lock = "checkpoint"
  /\ lock' = "free" /\ indexFile' = Saved /\ touched' = Waiting(mem)
  /\ UNCHANGED <<kind, data, log, mem, moving, phase, client, live, seen, count>>

-----------------------------------------------------------------------------
\* SIGKILL: the three files stay.
Kill ==
  /\ phase # "down" /\ Counted("kill", MaxKills)
  /\ phase' = "down" /\ lock' = "free" /\ moving' = <<>>
  /\ mem' = Empty
  /\ client' = [c \in Client |-> Idle]
  /\ Wal!OpenLog
  /\ live' = NoPending
  /\ seen' = [i \in Id |-> [gets |-> Gets(i), finds |-> Finds(i)]]
  /\ UNCHANGED <<kind, data, indexFile, touched>>

\* NewVectorEngine.  A torn index file, an error of Replay and an entry whose
\* key has not the eight bytes of an id (two empty strings are read from a
\* hole) each make it fail; the space then is not served.
Start ==
  /\ phase = "down"
  /\ \/ /\ indexFile.state = "torn"
        /\ phase' = "failed" /\ UNCHANGED <<mem, log, indexFile, touched>>
     \/ /\ indexFile.state # "torn" /\ ~kind.wal
        /\ mem' = Opened /\ phase' = "up" /\ touched' = {} /\ UNCHANGED <<log, indexFile>>
     \/ /\ indexFile.state # "torn" /\ kind.wal
        /\ \E result \in Wal!ReplayResults :
             /\ Wal!Replay(result)
             /\ IF ~result.ok \/ result.blank
                THEN phase' = "failed" /\ UNCHANGED <<mem, indexFile>>
                ELSE /\ mem' = FoldLeft(LAMBDA m, e : After(m, e.key, e.val), Opened, result.entries)
                     /\ IF result.entries = <<>>
                        THEN phase' = "up" /\ UNCHANGED indexFile
                        ELSE phase' = "opening" /\ indexFile' = Torn
        /\ touched' = {}
  /\ UNCHANGED <<kind, data, moving, lock, client, live, seen, count>>

\* After a replay the index is saved and the log cleared.
StartSaves ==
  /\ phase = "opening"
  /\ indexFile' = Saved /\ phase' = "clearing"
  /\ UNCHANGED <<kind, data, log, mem, moving, lock, client, history, count>>

StartClears ==
  /\ phase = "clearing"
  /\ Wal!Clear /\ phase' = "up"
  /\ UNCHANGED <<kind, data, indexFile, mem, moving, lock, client, history, count>>

-----------------------------------------------------------------------------
FlushStep == FlushTake \/ FlushLock \/ FlushAppend \/ FlushUnlock
ClientStep(c) == Ingest(c) \/ Commit(c)
OpenStep == Start \/ StartSaves \/ StartClears

Next ==
  \/ \E c \in Client, i \in Id, v \in Vec \cup {Gone} : Call(c, i, v)
  \/ \E c \in Client : ClientStep(c)
  \/ FlushStep \/ CheckpointStart \/ CheckpointEnd \/ Kill \/ OpenStep

\* The ticker of autoFlushData, calls that have begun, and the start-up go on;
\* ve.lock is always released.
Fairness ==
  /\ WF_vars(FlushStep) /\ WF_vars(CheckpointEnd) /\ WF_vars(OpenStep)
  /\ \A c \in Client : WF_vars(ClientStep(c))

Spec == Init /\ [][Next]_vars /\ Fairness

-----------------------------------------------------------------------------
Record == [id : Id, vec : Vec]
Index  == SUBSET (Id \X Vec)

TypeOK ==
  /\ kind \in Kinds /\ data \in Seq(Record) /\ Wal!WALTypeOK
  /\ indexFile \in [state : {"none", "torn", "saved"}, index : Index, trained : BOOLEAN]
  /\ mem \in [index : Index, trained : BOOLEAN, pending : [Id -> Vec \cup {NoVec}],
              pool : Nat, offsets : [Id -> 0..Len(data)], buf : Seq(Record)]
  /\ moving \in Seq(Record) /\ lock \in {"free", "flush", "checkpoint"}
  /\ phase \in {"down", "opening", "clearing", "up", "failed"}
  /\ client \in [Client -> [at : {"idle", "ingest", "commit"}, id : Nat, vec : Vec \cup {Gone, NoVec}]]
  /\ live \in [Id -> Vec \cup {Gone, NoVec}] /\ touched \subseteq Id
  /\ seen \in [Id -> [gets : Vec \cup {NoVec}, finds : SUBSET Vec]]
  /\ count \in [{"op", "kill", "checkpoint"} -> Nat]

OnTheWay(i) == \E r \in ToSet(mem.buf) \cup ToSet(moving) : r.id = i

\* When nothing of an id is on its way to the data file any more, the id leads
\* to the vector inserted last, by search and by id, or that vector waits for
\* training: inserts of one id by several clients, training and flushes never
\* leave index and data file with different vectors.
StoredIsLatest ==
  phase = "up" => \A i \in Id : live[i] \in Vec /\ ~OnTheWay(i) =>
    \/ mem.pending[i] = live[i]
    \/ Gets(i) = live[i] /\ live[i] \in Finds(i)

\* A removed id is not found by search until it is inserted again, where FAISS
\* can remove ids: not by training, nor by a flush of an older insert.
SearchFindsNoneRemoved ==
  kind.removes => \A i \in Id : live[i] = Gone => Finds(i) = {}

\* An inserted vector can be found in the end, once the index is trained.
InsertedIsFound ==
  \A i \in Id, v \in Vec :
    live[i] = v ~> live[i] # v \/ ~mem.trained \/ (Gets(i) = v /\ v \in Finds(i))

\* Without a log, a restart keeps every vector that could be read by id, and
\* every result of a search that the last checkpoint has.
RestartKeepsSaved ==
  [][phase = "down" /\ phase' = "up" /\ ~kind.wal =>
       \A i \in Id :
         /\ seen[i].gets # NoVec => Gets(i)' = seen[i].gets
         /\ seen[i].finds # {} /\ i \notin touched => Finds(i)' = seen[i].finds]_vars

\* docs/VECTOR_ENGINE.md:201: "Complete recovery from crashes and unexpected
\* shutdowns".  The engine of a killed process can be opened again.
Reopens == phase # "failed"
=============================================================================
