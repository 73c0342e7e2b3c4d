-------------------------------- MODULE WAL --------------------------------
(***************************************************************************)
(* The write-ahead log file (internal/wal/wal.go).                         *)
(*                                                                         *)
(* The file is a sequence of cells and a current position (the offset the  *)
(* next write(2) goes to).  A record takes one cell for its two sizes      *)
(* (bytes 0-7), one for its flag (byte 8) and KeyLen + ValLen cells for    *)
(* its body.  A cell remembers the record it was written for, so a scan    *)
(* that meets cells in another arrangement than they were written in does  *)
(* not see a record where the code would not see one.  Writes over older   *)
(* cells, holes and stale tails are therefore modelled as they happen; the *)
(* bytes of keys, values and sizes are not.                                *)
(*                                                                         *)
(* A process that dies (SIGKILL) loses nothing it has written: every write *)
(* is one write(2) followed by fsync.                                      *)
(***************************************************************************)
EXTENDS Integers, Sequences

CONSTANTS
  LogKey, Val,     \* keys of records, and values that are not the empty string
  KeyLen, ValLen,  \* their lengths in cells
  CheckpointSize   \* the 1 MB threshold of ShouldCheckpoint, in cells

EmptyVal == 0      \* the empty string, which is also what a delete is replayed as

ASSUME WALAssumption ==
  /\ LogKey \subseteq Nat
  /\ Val \subseteq Nat \ {EmptyVal}
  /\ KeyLen \in [LogKey -> Nat \ {0}]
  /\ ValLen \in [Val -> Nat \ {0}]
  /\ CheckpointSize \in Nat

VARIABLE log       \* [cells, pos]

Entry  == [key : LogKey, val : Val \cup {EmptyVal}]
NoEntry == [key |-> -1, val |-> EmptyVal]
Flag   == {"P", "D"}       \* pending and delete; a committed record has "C"
Zero   == <<"zero", NoEntry>>
Cell   == ({"size", "P", "D", "body"} \X Entry) \cup {Zero, <<"C", NoEntry>>}

WALTypeOK == log \in [cells : Seq(Cell), pos : Nat]

-----------------------------------------------------------------------------
BodyLen(e) == KeyLen[e.key] + (IF e.val = EmptyVal THEN 0 ELSE ValLen[e.val])

Encoded(e, flag) ==
  <<<<"size", e>>, <<flag, e>>>> \o [i \in 1..BodyLen(e) |-> <<"body", e>>]

\* write(2) at offset p: a gap before p reads as zeros, cells after the
\* written ones stay.
WrittenAt(cells, p, new) ==
  LET end == p + Len(new)
  IN  [i \in 1..(IF end > Len(cells) THEN end ELSE Len(cells)) |->
        IF i > p /\ i <= end THEN new[i - p]
        ELSE IF i <= Len(cells) THEN cells[i] ELSE Zero]

\* Mutant of Written: the position stays on the last cell written.
WrittenShort(new) ==
  [cells |-> WrittenAt(log.cells, log.pos, new), pos |-> log.pos + Len(new) - 1]

Written(new) ==
  [cells |-> WrittenAt(log.cells, log.pos, new), pos |-> log.pos + Len(new)]

-----------------------------------------------------------------------------
InitLog == log = [cells |-> <<>>, pos |-> 0]

\* OpenWAL by a new process: the file as it is, positioned at its start.
OpenLog == log' = [log EXCEPT !.pos = 0]

WriteEntry(k, v) == log' = Written(Encoded([key |-> k, val |-> v], "P"))

WriteDelete(k) == log' = Written(Encoded([key |-> k, val |-> EmptyVal], "D"))

\* Mutant of MarkCommitted: the position is put back before the flag.
MarkCommittedBefore ==
  log' = [cells |-> WrittenAt(log.cells, 1, <<<<"C", NoEntry>>>>), pos |-> 1]

\* Seek(8) and one byte: it marks the first record of the file, whatever was
\* written last, and the next write starts right behind that byte.
MarkCommitted ==
  log' = [cells |-> WrittenAt(log.cells, 1, <<<<"C", NoEntry>>>>), pos |-> 2]

\* Mutant of Clear: the descriptor is moved back by the length of the file.
ClearSeeksBack == log' = [cells |-> <<>>, pos |-> log.pos - Len(log.cells)]

\* Truncate by name: the descriptor keeps its position.
Clear == log' = [log EXCEPT !.cells = <<>>]

ShouldCheckpoint == Len(log.cells) > CheckpointSize

-----------------------------------------------------------------------------
\* Replay reads headers from the start.  A committed header is skipped but its
\* body is not, so the scan goes on inside it; a zero header is an entry of two
\* empty strings ("blank").  Body cells read as a header are sizes that do not
\* fit the record: the scan goes astray and ends, with the entries so far
\* ("garbage": if some bytes were left) or with an error (if none were),
\* depending on the bytes.
Scan(cells) ==
  LET n == Len(cells)
      Stop(how) == [entries |-> <<>>, end |-> how, blank |-> FALSE]
      From[o \in 0..n] ==
        IF o = n THEN Stop("eof")
        ELSE IF o + 1 = n THEN Stop("error")
        ELSE LET size == cells[o + 1]
                 flag == cells[o + 2]
                 next == o + 2 + BodyLen(size[2])
             IN  CASE flag[1] = "C" -> From[o + 2]
                   [] size = Zero /\ flag = Zero -> [From[o + 2] EXCEPT !.blank = TRUE]
                   [] size[1] = "size" /\ flag[1] \in Flag /\ next <= n ->
                        [From[next] EXCEPT !.entries = <<size[2]>> \o @]
                   [] OTHER -> Stop("garbage")
  IN  From[0]

\* What Replay may return: entries, or an error (which drops the entries).
ReplayResults ==
  LET scan == Scan(log.cells)
  IN  (IF scan.end = "error" THEN {}
       ELSE {[ok |-> TRUE, entries |-> scan.entries, blank |-> scan.blank]})
      \cup
      (IF scan.end = "eof" THEN {} ELSE {[ok |-> FALSE, entries |-> <<>>, blank |-> FALSE]})

\* Replay leaves the position at the end of the file on every path.
Replay(result) ==
  /\ result \in ReplayResults
  /\ log' = [log EXCEPT !.pos = Len(log.cells)]
=============================================================================
