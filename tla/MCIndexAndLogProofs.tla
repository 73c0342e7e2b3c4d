-------------------------- MODULE MCIndexAndLogProofs --------------------------
(***************************************************************************)
(* Proofs about MCIndexAndLog: the log in the hands of a writer that keeps  *)
(* the protocol of ShibuDB.FlushBatch and Delete, for any number of records *)
(* of any length.                                                          *)
(***************************************************************************)
EXTENDS MCIndexAndLog, WALProofs

\* What the log keeps is what the writer has pending; until the first
\* MarkCommitted nothing else is in the file.
LogInv ==
  /\ WALTypeOK
  /\ pending \in Seq(Entry) /\ commits \in Nat
  /\ LogHolds(log.cells, log.pos, pending)
  /\ commits = 0 => AtEnd(log.cells, log.pos)

LEMMA LogInvInit == MCInit => LogInv
<1> SUFFICES ASSUME MCInit PROVE LogInv
  OBVIOUS
<1>1. InitLog /\ pending = <<>> /\ commits = 0
  BY DEF MCInit
<1>2. WALTypeOK
  BY <1>1, InitType
<1>3. LogHolds(log.cells, log.pos, <<>>) /\ AtEnd(log.cells, log.pos)
  BY <1>1, HeldAtFirst
<1> QED BY <1>1, <1>2, <1>3 DEF LogInv

LEMMA LogInvStep == LogInv /\ [MCNext]_mcvars => LogInv'
<1> SUFFICES ASSUME LogInv, [MCNext]_mcvars PROVE LogInv'
  OBVIOUS
<1>1. /\ WALTypeOK /\ pending \in Seq(Entry) /\ commits \in Nat
      /\ LogHolds(log.cells, log.pos, pending)
      /\ commits = 0 => AtEnd(log.cells, log.pos)
  BY DEF LogInv
<1>2. CASE UNCHANGED logVars
  BY <1>1, <1>2 DEF logVars, LogInv, WALTypeOK
<1>3. ASSUME NEW k \in LogKey, NEW v \in Val \cup {EmptyVal}, MCWrite(k, v)
      PROVE  LogInv'
  <2>1. /\ IF v = EmptyVal THEN WriteDelete(k) ELSE WriteEntry(k, v)
        /\ pending' = Append(pending, [key |-> k, val |-> v])
        /\ commits' = commits
    BY <1>3 DEF MCWrite
  <2>2. WALTypeOK'
    <3>1. v # EmptyVal => v \in Val
      OBVIOUS
    <3> QED BY <1>1, <2>1, <3>1, LogType
  <2>3. /\ LogHolds(log'.cells, log'.pos, Append(pending, [key |-> k, val |-> v]))
        /\ AtEnd(log.cells, log.pos) => AtEnd(log'.cells, log'.pos)
    BY <1>1, <2>1, HeldByOperations
  <2>4. pending' \in Seq(Entry)
    <3>1. [key |-> k, val |-> v] \in Entry
      BY DEF Entry
    <3> QED BY <1>1, <2>1, <3>1
  <2>5. LogHolds(log'.cells, log'.pos, pending')
    BY <2>1, <2>3
  <2> QED BY <1>1, <2>1, <2>2, <2>3, <2>4, <2>5 DEF LogInv
<1>4. CASE MCCommit
  <2>1. MarkCommitted /\ pending' = <<>> /\ commits' = commits + 1
    BY <1>4 DEF MCCommit
  <2>2. WALTypeOK'
    BY <1>1, <2>1, LogType
  <2>3. LogHolds(log'.cells, log'.pos, <<>>)
    BY <1>1, <2>1, HeldByOperations
  <2>4. pending' \in Seq(Entry) /\ commits' \in Nat /\ commits' # 0
    BY <1>1, <2>1
  <2>5. LogHolds(log'.cells, log'.pos, pending')
    BY <2>1, <2>3
  <2> QED BY <2>2, <2>4, <2>5 DEF LogInv
<1>5. CASE MCCheckpoint
  <2>1. Clear /\ pending = <<>> /\ pending' = pending /\ commits' = 0
    BY <1>5 DEF MCCheckpoint
  <2>2. WALTypeOK'
    BY <1>1, <2>1, LogType
  <2>3. LogHolds(log'.cells, log'.pos, <<>>) /\ AtEnd(log'.cells, log'.pos)
    BY <1>1, <2>1, HeldByOperations
  <2>4. LogHolds(log'.cells, log'.pos, pending')
    BY <2>1, <2>3
  <2> QED BY <1>1, <2>1, <2>2, <2>3, <2>4 DEF LogInv
<1>6. [MCNext]_mcvars =>
        \/ UNCHANGED logVars \/ MCCommit \/ MCCheckpoint
        \/ \E k \in LogKey, v \in Val \cup {EmptyVal} : MCWrite(k, v)
  BY Zenon DEF MCNext, LogNext, mcvars
<1> QED BY <1>2, <1>3, <1>4, <1>5, <1>6

\* The invariant, for every behaviour of the two files.
LEMMA LogInvAlways == MCSpec => []LogInv
BY LogInvInit, LogInvStep, PTL DEF MCSpec

\* The log file always is a sequence of cells that writes put there, with a
\* descriptor somewhere in or behind it (wal.go).
THEOREM LogTypeCorrect == MCSpec => []WALTypeOK
<1>1. LogInv => WALTypeOK
  BY DEF LogInv
<1> QED BY <1>1, LogInvAlways, PTL

\* Replay (wal.go:88) of a log no MarkCommitted has touched since it was last
\* empty returns exactly the records written, in order, and never an error.
THEOREM FreshLogReplayed == MCSpec => []FreshLogReplaysExactly
<1>1. LogInv => FreshLogReplaysExactly
  <2> SUFFICES ASSUME LogInv, commits = 0, NEW result \in ReplayResults
               PROVE  result.ok /\ result.entries = pending
    BY DEF FreshLogReplaysExactly
  <2>1. /\ WALTypeOK /\ pending \in Seq(Entry)
        /\ LogHolds(log.cells, log.pos, pending)
        /\ AtEnd(log.cells, log.pos)
    BY DEF LogInv
  <2> QED BY <2>1, HeldReplayed
<1> QED BY <1>1, LogInvAlways, PTL

\* Records written since the last MarkCommitted come first in a scan and in
\* order, whatever earlier flushes left in the file (Write, wal.go:52).
THEOREM PendingFirst == MCSpec => []PendingScannedFirst
<1>1. LogInv => PendingScannedFirst
  <2> SUFFICES ASSUME LogInv PROVE IsPrefix(pending, Scan(log.cells).entries)
    BY DEF PendingScannedFirst
  <2>1. /\ log.cells \in Seq(Cell) /\ log.pos \in Nat /\ pending \in Seq(Entry)
        /\ LogHolds(log.cells, log.pos, pending)
    BY DEF LogInv, WALTypeOK
  <2>2. PICK tail \in Seq(Entry) : Scan(log.cells).entries = pending \o tail
    BY <2>1, HeldScanned
  <2>3. IsPrefix(pending, pending \o tail)
    BY <2>1 DEF IsPrefix
  <2> QED BY <2>2, <2>3
<1> QED BY <1>1, LogInvAlways, PTL
================================================================================
