# TLA+ models of ShibuDB

ShibuDB is a database server in Go (`src/main.go`, `src/cmd/server`,
`src/internal`): clients log in over TCP and read and write *spaces*, each served
by a key-value engine or a vector engine of its own. This directory holds TLA+
modules of its stateful core, TLC configurations that check them on small
instances, and theorems about them whose proofs TLAPS checks. Line numbers below
and in `PROJECT.json` ("map") are those of the repository beside this directory.

- [Inventory](#inventory)
- [Modules and the code](#modules-and-the-code)
- [Runs](#runs)
- [Fairness](#fairness)
- [Proofs](#proofs)
- [Disagreements between code and documents](#disagreements-between-code-and-documents)
- [What is not modelled](#what-is-not-modelled)
- [Plan](#plan)

## Inventory

### How the parts work together

    client --TCP--> accept loop --ConnectionManager--> session (login, roles)
                                                          |
    admin --HTTP, signals--> management handlers     QueryEngine
                 |                                        |
          ConnectionManager --> connection_limit.json   SpaceManager --> metadata.json
                                                    /             \
                                              ShibuDB (kv)     VectorEngineImpl
                                              /   |    \        /   |    \
                                           WAL  data  BTree   WAL  data  FAISS

The accept loop takes a slot from the connection manager and starts a goroutine
per connection. The session authenticates once, then hands each query to a
`QueryEngine`, which looks the space up in the one `SpaceManager` and calls its
engine. Every engine has background goroutines (flush, checkpoint) that share
its state with the sessions. Management requests and signals change the
connection limit through a channel read by one goroutine. `shibudb stop` is a
SIGKILL (`src/main.go:714`): every stop of the server is a crash, and nothing
calls `SpaceManager.CloseAll` or an engine's `Close` on the way out.

### Components

**Write-ahead log** (`internal/wal/wal.go`). State: a file and the position of
its descriptor. Operations: `WriteEntry`, `WriteDelete`, `MarkCommitted`,
`Replay`, `Clear`, `ShouldCheckpoint`. Callers: both engines, each under locks
of its own. Hard: the position is shared state that `MarkCommitted` (seeks to 8)
and `Clear` (truncates by name) leave in surprising places, so records are
written over older ones and behind holes, and `Replay` has to make sense of the
result. Correct when: the records written since the last commit are found, in
order, and nothing that was committed comes back.

**B-tree index** (`internal/index/BTreeIndex.go`). State: the tree, its
memory-mapped image, `writeOffset`. Operations: `Add`, `Get`, `Remove`
(rewrites the image entry by entry), loading at start. Hard: kills in the middle
of the rewrite, the padding of the mapped file, the offset after a restart, the
32-bit positions. Correct when: an image loaded at any time gives the tree, or
during a rewrite a part of it, and never a removed key or an older position.

**Key-value engine** (`internal/storage/key_value_storage.go`). State: data
file, index, log, the in-memory batch, `db.lock` and `batchLock`. Operations:
`Put`, `Get`, `Delete`, `FlushBatch` (from the ticker, from `Close`, from
`replayWAL`), `Close`, opening with replay. Hard: a value is at any time in the
batch, in a swapped-out copy of it, or in the store, and `Get`, `Delete`, the
flush and `Close` look at these places at different times and under different
locks; writes may fail in the middle; a kill may come between any two writes.
Correct when: the index leads from a key to a record of it; values reach the
store in the order of the puts and are all stored in the end; reads are
current; a restart neither loses what was stored nor revives what was deleted.

**Connection limiter** (`cmd/server/server.go`, `management.go`,
`persistence.go`). State: limit, counter, semaphore channel, update queue,
`connection_limit.json`. Operations: `TryAcquire`, `Release`, `UpdateLimit`,
`updateLimit` (in `dynamicLimitManager`), the `/limit` handlers, the signals,
loading and saving. Hard: the channel is replaced while others use a copy of
it; token and counter change in separate steps; limits are validated when they
are queued and applied later. Correct when: the counter is exact, tokens and
connections agree, connections are refused only when the limit is reached,
every ended connection gives its slot back, and the file has the limit in force.

**Vector engine** (`internal/storage/vector_storage.go`). State: FAISS index in
memory and in a file written every 30 s, append-only data file, offsets,
persist buffer, training pool, log. Operations: `InsertVector`, `RemoveVector`,
searches, `GetVectorByID`, training, `checkpoint`, `flushData`, replay, `Close`.
Hard: a vector is in up to six places that different goroutines fill; commit
marks come before the data file is written; replay reads a log whose commit
handling it shares with the key-value engine. Correct when: an inserted vector
is found until it is removed, and after a restart as well.

**Space manager** (`internal/spaces/space_manager.go`). State: catalog in memory
and in `metadata.json`, open engines, directories. Operations: load at start,
create, delete, use, list. Hard: creating and deleting touch directory, engine,
two maps and the file in turn, each step may fail or be the last one before a
kill, and errors of the last are ignored; requests go on with an engine
`DeleteSpace` has closed. Correct when: catalog, directories and engines agree,
after a restart too; no engine is left open that nobody can reach; a new space is
empty.

**Query engine** (`internal/queryengine/query_engine.go`). No state; looks up
engine and metadata in separate steps, the second without a lock, and calls the
engine in a third. Correct when: a request runs on an engine of the type it was
meant for, and meets a closed one only when it was overtaken by a delete.

**Users, roles and sessions** (`internal/auth`, `server.go:342`). State: users in
memory and in a file, the user copied into the session at login. Operations:
create, update, delete, authenticate, `HasRole`. Hard: saving may fail after the
memory changed; sessions go on with an old copy, and a command is checked some
time before it takes effect. Correct when: memory and file agree, `a.lock` is
given back on every path, and nobody commands after losing the role.

**Command line** (`src/main.go`). State: the pid file. `start` and `stop`. Hard:
two starts, or a start and a stop, at the same time. The rest of the file is an
interactive client and HTTP requests to the management server.

The remaining parts (client, development server, wire models, benchmarks,
end-to-end tests, the vendored FAISS headers) have no state of their own.

The hazards of each part, each at its line, are in `PROJECT.json` ("hazards").

## Modules and the code

    WAL ------------ KVEngine ------------ BTreeIndex      SpaceManager   AuthManager
     |  \               |     \ implements     |                  \         /
     |   VectorEngine   |      KVStore         |                    Server
     |        |         |                      |                      |
     |  MCVectorEngine  MCKVEngine             |                   MCServer
     +------------- MCIndexAndLog -------------+
                                                  ConnectionManager -- MCConnectionManager

    WALProofs, BTreeIndexProofs --> KVEngineProofs --> KVStoreProofs
    WALProofs, MCIndexAndLog -----> MCIndexAndLogProofs
    WALProofs --------------------> VectorEngineProofs
                                    ServerProofs    ConnectionManagerProofs

### `WAL`

The file is a sequence of *cells* and a position: one cell for the two sizes of
a record, one for its flag, `KeyLen + ValLen` for its body, each remembering the
record it was written for. What a scan finds where records overlap therefore
comes out of the model as it comes out of the bytes, without bytes in the model.
`WriteEntry`, `WriteDelete`, `MarkCommitted`, `Clear` are the methods of the same
name, `OpenLog` is `OpenWAL`; each is one write followed by fsync and so one step. `Scan` is
the loop of `Replay`: a committed header is skipped but its body is not, zeros
read as the entry `("", "")`, a body cell read as a header ends the scan. Whether
such an end is an error (`Replay` returns nothing) or the end of the file
depends on the bytes, so `ReplayResults` has both outcomes.

### `BTreeIndex`

A key is its rank in byte order (0 is the empty key); a position is an ordinal
for a byte offset. The image is a sequence of slots; padding decodes as an
entry of the empty key at offset 0, as it does in `BatchLoadFromMmap`. `Add`
writes at `writeOffset` and grows the file as `appendIndexEntry` does.
`RemoveStart` and `RemoveAppend` are `Remove` with its `persistIndex`: the file
is emptied and the remaining keys are appended one at a time, and a kill
(`Open`) may come between any two. Positions are stored modulo `PosMod`
(2^32 in the code). Slots all have one size; the fragment of fewer than eight
bytes at the end of a real file is not represented.

### `KVEngine`

Composes `WAL` and `BTreeIndex` with the data file (a sequence of records) and
the two locks. `batchLock` is never held across a step others could see, so it
has no variable. `lock` is `db.lock`. Actions and code:

| Action | Code |
|---|---|
| `Put` | `PutBatch`: insert into `db.batch`, acknowledge |
| `GetMissesBatch`, `GetReadsStore` | the two halves of `Get`: batch under `batchLock`, store under `db.lock.RLock` |
| `DeleteStart`, `DeleteRewrites`, `DeleteLogs`, `DeleteAppends`, `DeleteFails` | `Delete` under `db.lock`: index, image, log, tombstone; error returns |
| `SwapBatch` | `FlushBatch` up to the swap |
| `LockForFlush` .. `Checkpoint` | `FlushBatch` under `db.lock`: log every entry, then per key record and index, sync, commit mark, checkpoint |
| `FlushFails` | its error returns, which drop what is left of the batch |
| `CloseStart`, `CloseStep` | `Close`: its flush, `wal.Clear`, the two files |
| `Kill`, `Start`, `StartDone` | SIGKILL; `OpenDBWithPathsAndWAL` with `replayWAL` and its flush |

`FlushBatch` has three callers, the processes `"auto"` (ticker), `"close"` and
`"open"`. Map iteration order is a choice. Values are numbered in the order of
the puts, which makes "newer" an inequality. `acked`, `legal`, `before`, `maybe`
are history for the properties and guard nothing.

### `KVStore`

What the engine promises while its process lives, and when it dies without a
log: a map with a write-back buffer (`buffered`, `moving`, `stored`). A delete puts
every other stored key at risk (`atRisk`) and secures them one by one; a crash
costs what was buffered or moving and what is at risk. `KVEngine!Store` is the
refinement mapping: `batch`, the swapped-out copy, what a reader finds behind the
index, and `rewrite`. `ImplementsStore` includes the liveness of `KVStore`: what is
buffered is moved, what is moved is stored, and what is at risk is secured.
`ImplementsStoreSteps` is its safety part: initial states and steps.

### `VectorEngine`

FAISS is external, and modelled as what `vector_storage.go` uses of it: a set of
(id, vector) pairs that has been trained or not and may or may not be able to
remove ids. `kind` says how the space was created; the runs have a flat index without a
log, an index that is trained after two vectors with a log and one without, and HNSW
without a log.
`mem` is the engine in memory: index, `pendingAdd`, the size of `trainPool`,
`fileOffsets`, `persistBuf`. Actions and code:

| Action | Code |
|---|---|
| `Call`, `Ingest`, `Commit` | `InsertVector` and `RemoveVector`: log; `insertAfterWAL` or `removeAfterWAL` under `ve.lock`; commit mark |
| `FlushTake`, `FlushLock`, `FlushAppend`, `FlushUnlock` | `flushData`: take the buffer under `persistMu`, then write it record by record under `ve.lock` |
| `CheckpointStart`, `CheckpointEnd` | `checkpoint`: FAISS writes its file in place, so a kill between the two leaves a torn file |
| `Kill`, `Start`, `StartSaves`, `StartClears` | SIGKILL; `NewVectorEngine` with `replayWAL`, its checkpoint and `Clear` |

The log is the module `WAL` with vectors as values (`Gone`, the empty value, for a
removal). `Gets` is `GetVectorByID`, `Finds` what a search can return for an id.
Vectors are numbered in the order of the calls. `live`, `touched` and `seen` are
history; `touched` has the ids the saved index may differ in: those taken in or
removed since the last checkpoint, and those whose vector waited for training then
and enters the index later. Where `NewVectorEngine` returns an error the space is not served
(`"failed"`) until the process is started again.

### `ConnectionManager`

`channels` is every semaphore channel so far, the last one being
`cm.semaphore`; accept loop and connections keep the number of the channel they
copied. `AcquireCopy`/`AcquirePush`/`Refuse`/`AcquireCount` are `TryAcquire`,
`ReleaseCopy`/`ReleasePop`/`ReleaseCount` are `Release`. `SetLimit`, `Increase`,
`Decrease` and `DecreaseFloor` are the handlers (with int32 wrap-around),
`Validate` and `Enqueue` are `UpdateLimit`, `ApplyLimit` and `SaveLimit` are
`updateLimit`, which holds `mu` while it saves. Signals (`handleSignals`) take the
steps of a request for 100. `disturbed` is history: an update met an acquire or a
release half done, or a limit below the number of connections.

### `SpaceManager`

`metas` and `spaces` are the two maps of the manager, `catalog` is
`metadata.json`, `dirs` what a directory holds. An engine is a number per space,
since the object outlives its entry in the map: `engines[s]` is every engine this
process opened for `s`, with its type and whether it is open. `op` is the one
call that holds `sm.lock`, and how far it is:

| Action | Code |
|---|---|
| `LoadSpaces` | `loadSpaceMetas`; an engine that does not open is skipped, its entry stays |
| `CreateOpen`, `CreateEnter` | `CreateSpaceWithWAL`: directory and engine; the two maps |
| `CreateRejected` | its error returns behind `MkdirAll`, which leave the directory |
| `DeleteClose`, `DeleteUnmap`, `DeleteForget`, `DeleteFails` | `DeleteSpace`: close; out of the map, some files removed; directory gone, out of the catalog; `RemoveAll` fails |
| `SaveTruncate`, `SaveWrite`, `SaveFails` | `saveSpaceMetas`, which writes the file over in place and ignores errors |
| `LoseSpaces` | SIGKILL |

`unsaved`, `forgotten` and `spoiled` are history: the last save failed; a kill
hit a save or came after one that failed; spaces whose removal was cut short.

### `AuthManager`

`users` is the map, `userFile` is `users.json`, `saving` the change that holds
`a.lock` until it is saved. `Bootstrap` is what `start` does when there is no
file. A process does not start on a file it cannot read (`LoadUsers`).

### `Server`

Composes the two managers with the sessions. A session logs in and keeps a copy
of its account; then it sends commands (`Send`, `AdminCheck`, then one of the
`Run...` actions) or data requests (`Lookup`, `ReadMeta`, `Call`). Each is a step of
its own because no lock is held from one to the next: `Send` is the check of
`handleConnection`, `AdminCheck` that of `Execute` against the users of the moment,
`Lookup` is `GetSpace`, `ReadMeta` is `SpaceMeta` with the type assertion behind it,
`Call` the method of the engine. Of an engine's content only "some client's data"
is kept; what the call does inside is in `KVEngine` and `VectorEngine`.
`SpacesProgress`, `SpacesReturn`, `UsersProgress`, `UsersReturn` carry the call that
holds a lock to its end, where the session answers. `overtaken` and `wasAdmin` are
history.

### MC modules

`MCIndexAndLog` drives the index and the log, each by itself, with counters as
bounds (`which` says which of the two a behaviour is about); for the log it
follows the protocol of its caller (a flush ends with `MarkCommitted`, `Clear`
only follows it). The other MC modules only give constants to modules that are
closed systems already. Every component module also has operators marked
"Mutant": one plausible slip each in the operator below it, which the
specification never uses. With the slip in place of the operator, the property
named for it in `PROJECT.json` is violated: none of them holds by the shape of
the model.

## Runs

All runs are exhaustive within their bounds and use no symmetry (keys are
ordered, and some runs check liveness). `CHECK_DEADLOCK FALSE` everywhere:
clients owe nothing, and once the counters that bound a run are used up the
system may really stand still.

| Run | Instance | Checks |
|---|---|---|
| `index_and_log` | index: 3 keys, 4 adds, 2 kills; log: 2 keys, values of 2 lengths, 4 records | types; `ReloadFindsEveryKey`, `KillRevivesNothing`; `FreshLogReplaysExactly`, `PendingScannedFirst` |
| `kv_puts` | log on, 2 keys, 3 puts, 1 reader, checkpoints | `SettledIsAcked`, `NewerBehindOlder`, `FirstBatchRecoverable`, `ReadsCurrentUnlessInFlight`, `ImplementsStoreSteps`, `AckedPutStored` |
| `kv_everything` | log on, 2 puts, a delete, a fault, Close, 2 kills | type, `IndexPointsToOwnRecord` |
| `kv_nolog` | log off, 3 keys, 3 puts, 2 deletes, 2 kills | `ImplementsStore`, `StoreMovesForward`, `RestartRevivesNothing`, `KillCostsOnlyRewrite` |
| `vector` | 2 ids, 2 clients, 3 operations, a checkpoint, a kill, the four kinds of space | type, `StoredIsLatest`, `SearchFindsNoneRemoved`, `InsertedIsFound`, `RestartKeepsSaved` |
| `cm_safety` | 3 connections, 2 requests, queue of 1, limits 1 to 3, 1 restart | type, `ActiveCountsConnections`, `TokensMatchHolders`, `FileHoldsLimit`, `RefusedOnlyWhenFull`, `EndedIsReleased` |
| `server` | 1 space, 1 user, 2 sessions, both with commands and one with writes; 2 engines per process; any number of kills, failing saves and removals | type, `CatalogMatchesMemory`, `ListedIsUsable`, `OpenEngineIsKnown`, `NewSpaceIsEmpty`, `OnlyDeleteOvertakes`, `CallFitsEngine`, `UserFileMatches`, `DemotedCommandsNothing`, `BusyHoldsLock` |

Why the bounds suffice. *Index*: a wrong image needs an add, a removal with at
least two keys left, a restart that moves `writeOffset`, and another add behind
it; four adds and two kills over three keys leave room for each order, and one
slot of initial room makes every file grow. *Log*: overlaps need a longer record
under a shorter one and a commit between them. *Engine*: the races are between
one flush and one other operation, so they need two values of one key, one other
key to be first or last in the flush, and one kill or delete; a third put
allows a second flush over the remains of the first, and with three keys a
`Delete` has two to write back, with a kill between them. *Vectors*: three
operations are an insert, a second insert of the id and a removal, or two vectors
to train and one behind them; two clients overtake each other between log, index
and commit mark; a checkpoint and a kill may fall anywhere.
*Connections*: with three connections and limits from 1 to 3 an update may find
fewer, as many and more connections than the new limit, and 2 + 2 wraps around
at `MaxInt = 3`.
*Server*: every property is about one space or one user, whom the others reach
only through the locks and the files; two sessions are the one that acts and the
one that overtakes it, two engines the one that was looked up and the one that
replaced it. Only `MaxEngines` is a bound on behaviours; kills, failures, logins
and commands are unlimited. `ServerProofs` removes these bounds altogether.

Five more runs state what a document or a comment says of the program, and TLC
shows what the code does instead: `kv_read_your_writes`, `kv_delete_race`,
`kv_log_reverts`, `cm_permits`, `vector_reopen` (below, "Disagreements").

What the passing runs show, in one paragraph: apart from the reads and deletes
named below, the write-back path is sound. A flush never reorders or loses
values, however it interleaves with puts, reads, deletes; with the log off, a
kill at any instruction costs only what had not reached the store and what
a `Delete` had still to write back, and corrupts nothing; no combination of
kills, failing writes and `Close` makes the index lead to another key's record.
A vector space without a log, or whose process was not killed, keeps index and
data file in step however inserts, removals, training, flushes and checkpoints
interleave, and a restart without a log finds all that was saved.
For connections, the counter is exact in every schedule, and channel and
counter agree as long as no limit change falls into the few instructions of an
acquire or a release.
For the server as a whole: the catalog on disk follows the one in memory, what is
listed can be used, and no engine is left open unseen, through failing saves,
failing removals and kills at any instruction, with the exceptions the
properties name (a save that failed or was hit by a kill; a space whose own
removal was cut short). Separate look-ups of engine and metadata never
bring a request to an engine of another type. An open session gives a demoted
administrator no command.

## Fairness

`KVEngine`: weak fairness of every flusher (`autoFlushBatch` ticks for as long as
the engine lives), of the operations that hold `db.lock` (a Go mutex is handed
to a waiter after at most 1 ms of starvation, and every holder releases it after
a bounded number of steps), of a pending read, and of the process's own start.
Nothing is assumed of clients, kills, faults or `Close`. A weakly fair flusher
suffices for `AckedPutStored` because deletes are bounded in the runs; in the code
the mutex's starvation mode does it.

`VectorEngine`: weak fairness of the data-file flusher (`autoFlushData` ticks every
50 ms), of the end of a checkpoint (a call that returns), of the two further
steps of a client's operation, and of the start. A checkpoint need never begin, and
nothing is assumed of clients and kills. `ve.lock` is a Go mutex as above.

`ConnectionManager`: weak fairness of every goroutine that can run (scheduler),
and strong fairness of `ReleasePop`, because a Go channel serves its waiting
receivers in the order they came. Nothing is assumed of clients and admins.

`Server`: none. What could keep a command waiting for ever is a lock that nobody
gives back; `BusyHoldsLock` says so as an invariant, stronger than a liveness
property and provable: the holder is a session in the middle of a call, each
of whose steps can be taken.

## Proofs

TLAPS checks, for every value of the constants (any number of keys, puts,
kills, readers, lengths):

| Theorem | Statement |
|---|---|
| `BTreeIndexProofs!TypeCorrect` | `Spec => []IndexTypeOK` |
| `BTreeIndexProofs!ImageFollowsTree` | `NoEmptyKey => (Spec => []IndexInv)` |
| `BTreeIndexProofs!ReloadIsFaithful` | `NoEmptyKey => (Spec => [](PositionsFit => ReloadFindsEveryKey))` |
| `BTreeIndexProofs!KillIsHarmlessToAbsentKeys` | the same for `KillRevivesNothing` |
| `KVEngineProofs!OneWriter` | no two goroutines between Lock and Unlock of `db.lock` |
| `KVEngineProofs!IndexIsSound` | `Spec /\ []DataFits => []IndexPointsToOwnRecord` |
| `KVEngineProofs!TypeCorrect` | `Spec /\ []DataFits => []TypeOK` |
| `KVEngineProofs!OrderIsKept` | `OnlyTicker => (Spec /\ []DataFits => []NewerBehindOlder)` |
| `KVEngineProofs!KillIsExact` | `Spec /\ []DataFits => KillCostsOnlyRewrite` |
| `KVEngineProofs!StoreNeverGoesBack` | `OnlyTicker => (Spec /\ []DataFits => StoreMovesForward)` |
| `MCIndexAndLogProofs!LogTypeCorrect` | `MCSpec => []WALTypeOK` |
| `MCIndexAndLogProofs!FreshLogReplayed` | `MCSpec => []FreshLogReplaysExactly` |
| `MCIndexAndLogProofs!PendingFirst` | `MCSpec => []PendingScannedFirst` |
| `KVStoreProofs!EngineIsStore` | `OnlyTicker /\ NoFaults => (Spec /\ []DataFits => ImplementsStoreSteps)` |
| `KVStoreProofs!RestartIsClean` | `~EnableWAL => (Spec /\ []DataFits => RestartRevivesNothing)` |
| `KVStoreProofs!AckedReachStore` | `NothingFails => (Spec /\ []DataFits => []SettledIsAcked)` |
| `KVStoreProofs!ReadsAreCurrent` | `NothingFails /\ MarkUnused => (Spec /\ []DataFits => ReadsCurrentUnlessInFlight)` |
| `KVStoreProofs!FirstBatchIsRecovered` | `OnlyTicker => (Spec /\ []DataFits => []FirstBatchRecoverable)` |
| `VectorEngineProofs!TypeCorrect` | `Spec => []TypeOK` |
| `VectorEngineProofs!LatestStored` | `Spec => []StoredIsLatest` |
| `VectorEngineProofs!RemovedNotFound` | `Spec => []SearchFindsNoneRemoved` |
| `VectorEngineProofs!RestartIsFaithful` | `Spec => RestartKeepsSaved` |
| `ServerProofs!TypeCorrect` | `Spec => []TypeOK` |
| `ServerProofs!CatalogCorrect` | `Spec => []CatalogMatchesMemory` |
| `ServerProofs!ListedCorrect` | `Spec => []ListedIsUsable` |
| `ServerProofs!EnginesCorrect` | `Spec => []OpenEngineIsKnown` |
| `ServerProofs!NewSpaceCorrect` | `Spec => NewSpaceIsEmpty` |
| `ServerProofs!OvertakenCorrect` | `Spec => OnlyDeleteOvertakes` |
| `ServerProofs!CallCorrect` | `Spec => CallFitsEngine` |
| `ServerProofs!UserFileCorrect` | `Spec => []UserFileMatches` |
| `ServerProofs!RightsCorrect` | `Spec => []DemotedCommandsNothing` |
| `ServerProofs!LocksCorrect` | `Spec => []BusyHoldsLock` |
| `ConnectionManagerProofs!LimiterCorrect` | `Spec => []LimiterInv`, the inductive invariant |
| `ConnectionManagerProofs!TypeCorrect` | `Spec => []TypeOK` |
| `ConnectionManagerProofs!CountIsExact` | `Spec => []ActiveCountsConnections` |
| `ConnectionManagerProofs!FileIsCurrent` | `Spec => []FileHoldsLimit` |
| `ConnectionManagerProofs!TokensCorrect` | `Spec => []TokensMatchHolders` |
| `ConnectionManagerProofs!RefusalsCorrect` | `Spec => RefusedOnlyWhenFull` |

**Assumptions.** Those on the constants (`IndexAssumption`, `WALAssumption`,
`EngineAssumption`, `VectorAssumption`, `LimitAssumption`, `SpacesAssumption`,
`ServerAssumption`, evaluated by TLC in the runs), and conditions that delimit what is
true of the code:

- `NoEmptyKey`: the empty key has the encoding of padding.
- `PositionsFit`, `DataFits`: the file stays within the 32-bit positions.
- `OnlyTicker`: no `Close` runs, and no log is replayed: both `Close` and replay
  start a second flusher.
- `NoFaults`: no write fails; a flush that fails drops what is left of its batch,
  which a write-back store may not.
- `NothingFails`: no delete, kill, fault or `Close`, each of which takes away a value
  that was acknowledged. What is left is any number of puts, reads, flushes and
  checkpoints.
- `MarkUnused`: nobody stores the string `__deleted__`.
- `~EnableWAL`: a replay does revive deleted values.

Without each, TLC finds a counterexample or the code has one (below). The theorems
about `VectorEngine`, `Server` and `ConnectionManager` need none of them.

**The index.** `ReloadFindsEveryKey` is not inductive: it says nothing during a
rewrite and nothing about what lies behind `writeOffset`. `IndexInv` adds both:
in every state the image decodes to the tree less the keys still in `rewrite`,
and all slots from `writeOffset` on are padding. The lemma `LoadedAppended` then
does the work for `Add` and `RemoveAppend` alike: writing a slot behind all
used ones changes what is loaded for that key only. It rests on
`LastExists`: a non-empty set of slots of a key has a last one, which the
well-founded order of the naturals gives (`LeastElement`).

**The engine.** `IndexPointsToOwnRecord` is not inductive either: `AddToIndex`
indexes the *last* record of the data file, which is the flush's own only
because `db.lock` keeps other writers out since `AppendRecord`. `EngineInv`
is the conjunction of `LockInv` (who is between Lock and Unlock holds the lock,
only a `Delete` that holds it has keys to rewrite), `DataInv` (types, whose
record is last, the tree points to records of its keys) and the index's own
`IndexInv`, reused through `INSTANCE BTreeIndexProofs`. The image's part of the
property follows since the image decodes to positions of the tree.

**Order.** `OrderInv` says that batch, copy and store of a key are strictly
decreasing in age, that none is newer than the last put, that only the ticker
has a copy, and that the record just appended has the value of the copy. It
includes deletes, which can only take a stored value away, and faults. With it
`StoreNeverGoesBack` is a statement about single steps: only `AddToIndex` stores a
value, and `OrderInv` says that it is newer than the one it replaces.

**Kills.** `KillIsExact` needs no order: `IndexInv` says what the image decodes to, and
where positions fit they are decoded as they were (`ImageIsTree`), so the tree of the
next process agrees with this one on every key outside `rewrite`.

**The engine is a store.** `EngineIsStore` maps each step of `KVEngine` to a step of
`KVStore` or a stutter, and `Init` to `Init`. `OrderInv` makes the ticker's copy of the batch
the only one (`MovingIs`), `FlushInv` adds that the files stay open and that a flush leaves no copy
behind: where no write fails it ends only after its last `index.Add`. A kill is
`Store!Crash` by `ImageIsTree`, as in `KillIsExact`.

**Restarts.** `RestartRevivesNothing` compares a process with the one before it. Two things
have to survive between them: `DownInv` says that while no process lives nothing runs, and a
key the last one had no value of (`before`) has none in the files; `DownStep` that no step
but the next start is possible then.

**Clients.** `AckedInv` says that the newest value of a key, looked for in the batch, then in
the copy, then in the store, is the last acknowledged one; each step of a flush moves a
value one place on and leaves the newest alone (`SwapMoves`, `AddMoves`). `ReadInv`
follows a `Get` from the moment it missed the batch: what it may still meet is a value that
was current after it began, or the key is on its way.

**The log.** `Scan` is a recursive function over the file, so what it computes is proved
by induction along the file. The library's induction theorems take a predicate as a
parameter, which no installed prover can instantiate; `WALProofs` proves induction over *sets*
of numbers instead (`NatInductionSet`, `DownwardInduction`, from `LeastElement`), of which every use
gives the set. `ScanExists` shows with it that the recursion is well defined, and `LayoutScanned`
that a file with a list of records one behind the other (`Layout`) is scanned as these
records and then as whatever lies behind. `LogHolds` says that a log holds the records
written since the last commit, from its beginning or behind a header that is committed or blank, and
`HeldByOperations` that each operation keeps it so: `WriteEntry` writes behind them and
over what older flushes left, `MarkCommitted` and `Clear` start afresh. From it follow `FreshLogReplayed` and
`PendingFirst`, and in `KVStoreProofs` `FirstBatchIsRecovered`: there the list is that of the
flush (`Keeps`), whatever `Delete` wrote in between.

**The vector engine.** `VecInv` has eight conjuncts; the last four carry the properties.
A vector is in up to six places, and the two that matter to a reader, index and data
file, are filled at different times. `Sound` is what insert and remove rely on: only
an untrained index has vectors waiting (so that `Train` is the only way from there to index and
buffer, both at once). `LatestInv` says where the vector inserted last is: waiting, or in the index and on
a chain that leads its id (`Leads`): the last record of the id in `persistBuf`, or if there
is none the last one of the records a flush has taken, or if there is none the one its
offset points to. A flush moves a record along this chain from one end to the other, so an
older vector of the id is always in front of it: this is what keeps the order of the data
file that of the index, although the two are filled by different goroutines under
different locks. `SavedInv` and `SeenInv` are the two halves of a restart: of ids not touched the
saved index has what the index has, and while the process is down the two files have what
clients had found at the kill. The replay of the log is a fold over its entries
(`ReplayedSound`, by induction over positions as for the scan), and the scan it
starts from is that of `WALProofs`.

A first version of `touched` had only the ids taken in or removed since the last
checkpoint. The step of `SavedInv` could not be proved for `Train`: a vector that waited for training during
the checkpoint is not in the saved index, its id was not `touched`, and later it can be found.
TLC confirmed it with a space without a log that needs training, which the runs now have.
The code is as it was; what the property calls unchanged since the checkpoint now
excludes such an id.

**The server.** None of the properties of `Server` is inductive: each speaks of
memory or of the disk while nobody is at work, and a `DeleteSpace` passes through
states in which all of them are suspended. `ServerInv` says what holds in
between, relative to `op`: `LockInv` (who holds a lock is busy with it; a process
that is down holds none), `EngineInv` (an engine in the map is listed, of the
listed type, and open until `op` closes it; what `op` has done so far),
`CatalogInv` (file and map differ at most in the space being changed, until a
save fails), `DirInv`, `RequestInv` (an engine that was looked up is still there,
closed only by a delete the request remembers, and never the one a creation
has just opened), `RightsInv`. The interesting part is `DirInv`, which states what
the directories hold twice: against the maps while the process runs
(`DirsFitMemory`), and against `metadata.json` (`DirsFitCatalog`), from which the
next process starts. A save turns the first into the second, a restart the
second into the first; the exceptions (`spoiled`, `forgotten`) are just what makes
both survive a kill at any step. `SpacesStep` and `UsersStep` list what a step of the server does
to each manager, so each conjunct is proved against about a dozen cases.

**The limiter.** `ActiveCountsConnections` and `FileHoldsLimit` need little more
than themselves: who is being accepted has no goroutine yet, and nothing is left
of a process that is down (`CopiesInv`). `TokensMatchHolders` needs to know which
channel a copy refers to: `TokensInv` adds that until `disturbed` every copy is
of the channel in use. `ApplyLimit` makes every copy an old one, and leaves
`disturbed` alone only if there is none; then each connection that is counted
holds a token (`Holding = Counted`), and the exact count is the number of tokens
the new channel starts with. So the balance of the tokens rests on the balance of
the count, although the code keeps the two in separate steps. The conjunct on
limits (`LimitsInv`) carries the check of `UpdateLimit` through the queue to
the capacity of a channel. No assumption beyond `LimitAssumption` is needed.

Every invariant and every action property of the passing runs is stated by one of these
theorems, except the liveness properties: `AckedPutStored`, `EndedIsReleased`,
`InsertedIsFound` and the liveness part of `ImplementsStore` stay with TLC, since liveness under
fairness and ENABLED are beyond the prover's reach. So do the five expected violations, which
are counterexamples.

## Disagreements between code and documents

Shown by a run:

- `kv_read_your_writes`. `key_value_storage.go:230` says "Check batch first for
  read-your-own-writes"; between the swap of the batch and the flush a `Get` sees
  neither. `ReadsCurrentUnlessInFlight` shows that this is the only window.
- `kv_delete_race`. `docs/KEY_VALUE_ENGINE.md:24` says "Each PUT/GET/DELETE
  operation is atomic"; `Delete` leaves the batch and a swapped-out copy alone,
  and the flush stores the deleted key again.
- `kv_log_reverts`. `docs/KEY_VALUE_ENGINE.md:101` says "Complete recovery from
  crashes and unexpected shutdowns"; `MarkCommitted` (`wal.go:74`) marks the first
  record only and leaves the position behind it, so the replay of an older, longer
  flush puts an older value over a newer one that had been stored.
- `cm_permits`. `docs/DYNAMIC_CONNECTION_LIMITING.md:176` says "Preserves existing
  connection permits during updates"; an update between the token and the count of
  a connection leaves it without a token in the new channel.

- `vector_reopen`. `docs/VECTOR_ENGINE.md:201` says "Complete recovery from crashes and
  unexpected shutdowns" of spaces with a log; `Replay` skips the header of a
  committed record and not its body, so after one operation and its commit mark
  the body is read as a record and `NewVectorEngine` returns an error
  (`vector_storage.go:471`, or `:458`).

Further consequences of the same steps, each reproduced with TLC on these modules
while they were written, and not kept as runs of their own:

- Replay revives a deleted key (a stale record behind that of the `Delete`), and
  loses a completely logged batch (a fragment of an older record at the end of
  the file makes `Replay` return an error, `wal.go:103`).
- A committed record is returned by `Replay` after a second commit (`wal.go:112`
  says "Skip already committed transactions").
- A `Close` while the ticker's flush waits for `db.lock` closes the files under it.
- A kill while `Delete` rewrites the image loses keys that had nothing to do with
  it; nothing rebuilds the index from the data file. (`KillCostsOnlyRewrite` bounds
  the loss.)
- The empty key is read back at offset 0, and positions past 4 GiB modulo 2^32.
- A limit validated against `activeConnections` may be below it when applied
  (`docs/DYNAMIC_CONNECTION_LIMITING.md:11`); a connection whose token was lost in
  an update waits in `Release` for ever and stays counted; after an increase more
  connections than the limit may be served; of two concurrent increases one is
  lost (`docs/DYNAMIC_CONNECTION_LIMITING.md:13`, "Atomic updates").
- A removed id comes back by `GetVectorByID`, with a search result where FAISS
  could not remove it, after a restart (the data file still has it) and after the
  flush of an insert that was buffered when it was removed. Vectors that wait for
  training are in memory only. A kill inside `WriteIndex` leaves an index file that
  cannot be read, and `NewVectorEngine` fails.
- `docs/USER_MANAGEMENT.md:110` grants "List Spaces" to users;
  `server.go:390` asks for the role of an administrator. `docs/USER_MANAGEMENT.md:691`
  says a restart without `users.json` "creates default admin/admin";
  `bootstrapAdmin` asks for a name and a password (`manager.go:45`).
- `CreateSpaceWithWAL` and `DeleteSpace` report success when `metadata.json` could not
  be written (`space_manager.go:173` drops the error). A `metadata.json` torn by a
  kill is read as no spaces at all, without a message, and a later create takes
  the old directory with its data for its own.
- A space whose removal failed, or was cut short by a kill, stays listed: it
  "does not exist" for requests and "already exists" for a create, until it is
  deleted once more.
- A request that holds an engine when `DeleteSpace` closes it: a `PUT` is
  acknowledged and never flushed. (A search on a closed vector engine uses a freed
  FAISS index, which is outside of the model.)
- Rights to read and write data are those of the moment of login for as long as
  the connection lasts; only commands are checked against the users of the moment.
- A kill while `users.json` is written leaves a file on which no server starts.
- Without a limit file the argument of `start` is not used
  (`persistence.go:52` returns the default and no error, against `main.go:197`).
- A value that is the string `__deleted__` is stored and reads as "key not
  found". The constant `DeletedMark` is that value; the instances leave it unused.

## What is not modelled

- *Power failure.* A kill loses nothing written. `index.Add` syncs the image
  before the data file is synced; the unsynced suffix of the data file is a
  variable a later version needs (Plan).
- *Failures of mmap, ftruncate, open.* The code ignores most of them and goes
  on with an unmapped slice.
- *`CloseAllConnections` and the `connections` map*: no caller, no writer.
- *Log output, `monitorConnections`, response texts, JSON, bcrypt.*
- *Bytes.* Keys, values, sizes and offsets are ordinals; a body cell misread as a
  header is a choice among the outcomes (`WAL`).
- *`VectorEngineImpl.Close`*: its only caller, `DeleteSpace`, removes the directory
  next. *Failing writes and errors of FAISS* in the vector engine, `k` and radius of
  a search, and the 1024-record kick of the flusher (it may run at any time).
- *Inside `Server`*: the contents of engines (see `KVEngine`, `VectorEngine`), what a
  closed FAISS index does, `USE_SPACE` and `LIST_SPACES` (they only read), dimension,
  metric and log setting of a space, passwords (a value) and malformed requests
  (they change nothing).
- *The pid file* (`main.go:640`): two starts within the two seconds before it is
  written give two processes on one data directory, and every file of the other
  modules would need two writers. `Kill` and `FirstStart` are what remains of
  `main.go` in the models.
- *The FAISS headers* under `resources/lib/include` are vendored: declarations and
  inline code of a library, most of the lines of the repository and none of its
  logic. `VectorEngine` has an index as what `vector_storage.go` uses of it.
- *Clients, benchmarks, end-to-end tests, wire models*: no state.

## Plan

Done: every part that keeps state and is the repository's own, `WAL`, `BTreeIndex`,
`KVStore`, `KVEngine`, `VectorEngine`, `ConnectionManager`, `SpaceManager`,
`AuthManager` and `Server`. What would come next, in this order:

1. Power failure in `KVEngine`: the unsynced suffix of the data file as a variable.
2. An abstract `VectorStore` that `VectorEngine` implements, as `KVStore` for `KVEngine`.
3. Failing writes in `VectorEngine`, as in `KVEngine`.

Proofs: those of what these three add. Weaker conditions where the code allows it:
`EngineIsStore` with failing writes (against a store that may drop what it moves),
`RestartKeepsSaved` for spaces with a log (restarts that do open), and `FirstBatchIsRecovered`
composed with the replay it is about.
