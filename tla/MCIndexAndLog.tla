--------------------------- MODULE MCIndexAndLog ---------------------------
(***************************************************************************)
(* Bounded instances of the two files that an engine is built on, each     *)
(* apart from the engine: a behaviour drives one of them, and the other    *)
(* stays as it was made.                                                   *)
(*                                                                         *)
(* The index takes any calls; positions grow as the data file does.  The   *)
(* log is in the hands of one writer that follows the protocol of          *)
(* ShibuDB.FlushBatch and Delete: records are appended, a flush ends with  *)
(* MarkCommitted, and Clear only comes right after it (a checkpoint).  A   *)
(* kill is no action of the log: its properties say what Replay would      *)
(* return if the process died in the current state.                        *)
(***************************************************************************)
EXTENDS BTreeIndex, WAL, SequencesExt

CONSTANTS
  MaxAdds, MaxKills,   \* bounds: Add calls, kills
  MaxRecords           \* bound: records written

\* Values of two lengths: a write may end inside an older record.
MCKeyLen == [k \in LogKey |-> 1]
MCValLen == [v \in Val |-> v]

VARIABLES
  which,      \* "index" or "log": the file of this behaviour
  adds, kills,
  pending,    \* entries written since the last MarkCommitted
  written,    \* number of records written
  commits     \* number of MarkCommitted calls since the log was last empty

indexVars == <<vars, adds, kills>>
logVars   == <<log, pending, written, commits>>
mcvars    == <<which, indexVars, logVars>>

MCInit ==
  /\ Init /\ adds = 0 /\ kills = 0
  /\ InitLog /\ pending = <<>> /\ written = 0 /\ commits = 0
  /\ which \in {"index", "log"}

MCAdd    == /\ adds < MaxAdds /\ adds' = adds + 1 /\ UNCHANGED kills
            /\ \E k \in Key : Add(k, adds + FirstPos)
MCRemove == /\ \E k \in Key : RemoveStart(k)
            /\ UNCHANGED <<adds, kills>>
MCAppend == RemoveAppend /\ UNCHANGED <<adds, kills>>
MCKill   == kills < MaxKills /\ kills' = kills + 1 /\ UNCHANGED adds /\ Kill

MCWrite(k, v) ==
  /\ written < MaxRecords
  /\ written' = written + 1
  /\ IF v = EmptyVal THEN WriteDelete(k) ELSE WriteEntry(k, v)
  /\ pending' = Append(pending, [key |-> k, val |-> v])
  /\ UNCHANGED commits

MCCommit ==
  /\ pending # <<>> /\ Last(pending).val # EmptyVal   \* after WriteEntry calls
  /\ MarkCommitted
  /\ pending' = <<>>
  /\ commits' = commits + 1
  /\ UNCHANGED written

MCCheckpoint ==
  /\ pending = <<>> /\ ShouldCheckpoint
  /\ Clear
  /\ commits' = 0
  /\ UNCHANGED <<pending, written>>

IndexNext == MCAdd \/ MCRemove \/ MCAppend \/ MCKill
LogNext ==
  \/ \E k \in LogKey, v \in Val \cup {EmptyVal} : MCWrite(k, v)
  \/ MCCommit
  \/ MCCheckpoint

MCNext ==
  /\ UNCHANGED which
  /\ \/ which = "index" /\ IndexNext /\ UNCHANGED logVars
     \/ which = "log" /\ LogNext /\ UNCHANGED indexVars

MCSpec == MCInit /\ [][MCNext]_mcvars

-----------------------------------------------------------------------------
\* Until the first MarkCommitted on a new log, and from a checkpoint to the
\* next MarkCommitted, Replay returns exactly the records written, in order
\* (Replay, wal.go:88; the hole Clear leaves behind reads as nothing).
FreshLogReplaysExactly ==
  commits = 0 => \A result \in ReplayResults : result.ok /\ result.entries = pending

\* Whatever earlier flushes left behind them in the file, the records written
\* since the last MarkCommitted come first in the scan and in order: the bytes
\* Write puts over older records never hide a newer one.
PendingScannedFirst == IsPrefix(pending, Scan(log.cells).entries)
=============================================================================
