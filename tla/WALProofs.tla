------------------------------ MODULE WALProofs ------------------------------
(***************************************************************************)
(* Proofs about WAL, for records of every length: what each operation      *)
(* leaves in the file is a sequence of cells that writes put there, and a  *)
(* scan finds the records written since the last commit mark first, in the *)
(* order they were written, although older cells and holes lie around.     *)
(*                                                                         *)
(* The library's induction theorems take an operator; here induction is    *)
(* over a set of naturals, given as such (NatInductionSet).                *)
(***************************************************************************)
EXTENDS WAL, SequenceTheorems, WellFoundedInduction, TLAPS

\* The body of a record (WriteEntry's key and value) is a number of cells.
LEMMA BodyLenType ==
  ASSUME NEW e \in Entry
  PROVE  BodyLen(e) \in Nat
<1>1. e.key \in LogKey /\ (e.val # EmptyVal => e.val \in Val)
  BY DEF Entry
<1>2. KeyLen[e.key] \in Nat /\ (e.val # EmptyVal => ValLen[e.val] \in Nat)
  BY <1>1, WALAssumption
<1>3. CASE e.val = EmptyVal
  BY <1>2, <1>3 DEF BodyLen
<1>4. CASE e.val # EmptyVal
  BY <1>2, <1>4 DEF BodyLen
<1> QED BY <1>3, <1>4

\* What WriteEntry and WriteDelete hand to write(2) is a sequence of cells.
LEMMA EncodedType ==
  ASSUME NEW e \in Entry, NEW flag \in {"P", "D"}
  PROVE  Encoded(e, flag) \in Seq(Cell)
<1>1. <<"size", e>> \in Cell /\ <<flag, e>> \in Cell /\ <<"body", e>> \in Cell
  BY DEF Cell
<1>2. BodyLen(e) \in Nat
  BY BodyLenType
<1> HIDE DEF Cell
<1>3. <<<<"size", e>>, <<flag, e>>>> \in Seq(Cell)
  BY <1>1
<1>4. [i \in 1..BodyLen(e) |-> <<"body", e>>] \in Seq(Cell)
  <2> DEFINE n == BodyLen(e)
             c == <<"body", e>>
  <2>1. n \in Nat /\ c \in Cell
    BY <1>1, <1>2
  <2> HIDE DEF n, c
  <2>2. [i \in 1..n |-> c] \in Seq(Cell)
    BY <2>1
  <2> QED BY <2>2 DEF n, c
<1> QED BY <1>3, <1>4 DEF Encoded

\* write(2) at any offset, with the hole it may leave and the tail it keeps.
LEMMA WrittenType ==
  ASSUME WALTypeOK, NEW new \in Seq(Cell)
  PROVE  /\ Written(new) \in [cells : Seq(Cell), pos : Nat]
         /\ WrittenAt(log.cells, 1, new) \in Seq(Cell)
<1>1. log.cells \in Seq(Cell) /\ log.pos \in Nat
  BY DEF WALTypeOK
<1>2. Zero \in Cell
  BY DEF Cell
<1>3. ASSUME NEW c \in Seq(Cell), NEW o \in Nat
      PROVE  WrittenAt(c, o, new) \in Seq(Cell)
  <2> DEFINE n == IF o + Len(new) > Len(c) THEN o + Len(new) ELSE Len(c)
  <2>1. n \in Nat /\ Len(new) \in Nat /\ Len(c) \in Nat
    OBVIOUS
  <2>2. ASSUME NEW i \in 1..n
        PROVE  (IF i > o /\ i <= o + Len(new) THEN new[i - o]
                ELSE IF i <= Len(c) THEN c[i] ELSE Zero) \in Cell
    <3>1. CASE i > o /\ i <= o + Len(new)
      <4>1. i - o \in 1..Len(new)
        BY <2>1, <3>1
      <4> QED BY <3>1, <4>1
    <3>2. CASE ~(i > o /\ i <= o + Len(new))
      BY <1>2, <2>1, <3>2
    <3> QED BY <3>1, <3>2
  <2> DEFINE Cells(i) == IF i > o /\ i <= o + Len(new) THEN new[i - o]
                         ELSE IF i <= Len(c) THEN c[i] ELSE Zero
  <2>3. WrittenAt(c, o, new) = [i \in 1..n |-> Cells(i)]
    BY DEF WrittenAt
  <2>4. \A i \in 1..n : Cells(i) \in Cell
    BY <2>2
  <2> HIDE DEF Cells, n
  <2>5. [i \in 1..n |-> Cells(i)] \in Seq(Cell)
    BY <2>1, <2>4
  <2> QED BY <2>3, <2>5
<1>4. Len(new) \in Nat /\ log.pos + Len(new) \in Nat
  BY <1>1
<1>5. WrittenAt(log.cells, log.pos, new) \in Seq(Cell) /\ WrittenAt(log.cells, 1, new) \in Seq(Cell)
  BY <1>1, <1>3
<1> QED BY <1>4, <1>5 DEF Written

\* A new log (OpenWAL on no file) has its type.
LEMMA InitType == InitLog => WALTypeOK
BY DEF InitLog, WALTypeOK

\* Every operation of the log, with every argument its callers pass.
LEMMA LogType ==
  ASSUME WALTypeOK,
         \/ OpenLog \/ Clear \/ MarkCommitted \/ UNCHANGED log
         \/ \E k \in LogKey, v \in Val \cup {EmptyVal} : WriteEntry(k, v)
         \/ \E k \in LogKey : WriteDelete(k)
         \/ \E result : Replay(result)
  PROVE  WALTypeOK'
<1>1. log = [cells |-> log.cells, pos |-> log.pos] /\ log.cells \in Seq(Cell) /\ log.pos \in Nat
  BY DEF WALTypeOK
<1>2. CASE OpenLog \/ Clear \/ UNCHANGED log
  <2>1. CASE OpenLog
    BY <1>1, <2>1 DEF OpenLog, WALTypeOK
  <2>2. CASE Clear
    <3>1. <<>> \in Seq(Cell)
      OBVIOUS
    <3>2. log' = [log EXCEPT !.cells = <<>>]
      BY <2>2 DEF Clear
    <3>3. log \in [cells : Seq(Cell), pos : Nat]
      BY DEF WALTypeOK
    <3> HIDE DEF Cell
    <3>4. log' \in [cells : Seq(Cell), pos : Nat]
      BY <3>1, <3>2, <3>3
    <3> QED BY <3>4 DEF WALTypeOK
  <2>3. CASE UNCHANGED log
    BY <2>3 DEF WALTypeOK
  <2> QED BY <1>2, <2>1, <2>2, <2>3
<1>3. CASE MarkCommitted
  <2>1. <<"C", NoEntry>> \in Cell
    BY DEF Cell
  <2>2. <<<<"C", NoEntry>>>> \in Seq(Cell)
    BY <2>1
  <2>3. WrittenAt(log.cells, 1, <<<<"C", NoEntry>>>>) \in Seq(Cell)
    BY <2>2, WrittenType
  <2> QED BY <1>3, <2>3 DEF MarkCommitted, WALTypeOK
<1>4. ASSUME NEW k \in LogKey, NEW v \in Val \cup {EmptyVal}, WriteEntry(k, v)
      PROVE  WALTypeOK'
  <2>1. [key |-> k, val |-> v] \in Entry
    BY DEF Entry
  <2>2. Encoded([key |-> k, val |-> v], "P") \in Seq(Cell)
    BY <2>1, EncodedType
  <2> QED BY <1>4, <2>2, WrittenType DEF WriteEntry, WALTypeOK
<1>5. ASSUME NEW k \in LogKey, WriteDelete(k) PROVE WALTypeOK'
  <2>1. [key |-> k, val |-> EmptyVal] \in Entry
    BY DEF Entry
  <2>2. Encoded([key |-> k, val |-> EmptyVal], "D") \in Seq(Cell)
    BY <2>1, EncodedType
  <2> QED BY <1>5, <2>2, WrittenType DEF WriteDelete, WALTypeOK
<1>6. ASSUME NEW result, Replay(result) PROVE WALTypeOK'
  BY <1>1, <1>6 DEF Replay, WALTypeOK
<1> QED BY <1>2, <1>3, <1>4, <1>5, <1>6

-----------------------------------------------------------------------------
(* Induction over a set of numbers.  The library states it for a predicate  *)
(* operator; these two take the set of the numbers that satisfy it.         *)

\* Induction over Nat, from the well-foundedness of < on Nat.
LEMMA NatInductionSet ==
  ASSUME NEW S, 0 \in S, \A n \in Nat : n \in S => n + 1 \in S
  PROVE  Nat \subseteq S
<1> DEFINE T == Nat \ S
           R == OpToRel(<, Nat)
<1> SUFFICES ASSUME T # {} PROVE FALSE
  OBVIOUS
<1>1. IsWellFoundedOn(R, Nat)
  BY NatLessThanWellFounded
<1>2. \A x, y \in Nat : x < y => <<x, y>> \in R
  BY DEF OpToRel
<1> HIDE DEF R
<1>3. T \subseteq Nat /\ T # {}
  OBVIOUS
<1> HIDE DEF T
<1>4. PICK n \in T : \A m \in T : ~ (<<m, n>> \in R)
  BY <1>1, <1>3, WFMin, Zenon
<1>5. n \in Nat /\ n # 0
  BY <1>3, <1>4 DEF T
<1>6. n - 1 \in Nat /\ n - 1 \notin T
  <2>1. n - 1 \in Nat /\ n - 1 < n
    BY <1>5
  <2>2. <<n - 1, n>> \in R
    BY <1>2, <1>5, <2>1
  <2> QED BY <1>4, <2>1, <2>2
<1>7. (n - 1) + 1 \in S
  BY <1>6 DEF T
<1>8. n \in S
  BY <1>5, <1>7
<1> QED BY <1>4, <1>8 DEF T

\* Induction from n down to 0: what Scan's recursion, which calls itself on
\* larger offsets only, needs.
LEMMA DownwardInduction ==
  ASSUME NEW n \in Nat, NEW S, \A o \in 0..n : (o + 1)..n \subseteq S => o \in S
  PROVE  0..n \subseteq S
<1> DEFINE T == {d \in Nat : d <= n => (n - d)..n \subseteq S}
<1>1. 0 \in T
  <2>1. \A o \in (n - 0)..n : o = n
    OBVIOUS
  <2>2. n \in 0..n /\ (n + 1)..n \subseteq S
    OBVIOUS
  <2> QED BY <2>1, <2>2
<1>2. ASSUME NEW d \in Nat, d \in T PROVE d + 1 \in T
  <2> SUFFICES ASSUME d + 1 <= n PROVE (n - (d + 1))..n \subseteq S
    OBVIOUS
  <2>1. (n - d)..n \subseteq S
    BY <1>2
  <2>2. n - (d + 1) \in 0..n /\ (n - (d + 1)) + 1 = n - d
    OBVIOUS
  <2>3. n - (d + 1) \in S
    BY <2>1, <2>2
  <2>4. \A o \in (n - (d + 1))..n : o = n - (d + 1) \/ o \in (n - d)..n
    OBVIOUS
  <2> QED BY <2>1, <2>3, <2>4
<1> HIDE DEF T
<1>3. n \in T
  BY <1>1, <1>2, NatInductionSet
<1>4. n - n = 0
  OBVIOUS
<1> QED BY <1>3, <1>4 DEF T

-----------------------------------------------------------------------------
(* What write(2) and the encoding of a record leave in the file.            *)

\* A concatenation, spelled out as a function.
LEMMA ConcatIs ==
  ASSUME NEW S, NEW s \in Seq(S), NEW t \in Seq(S)
  PROVE  s \o t = [j \in 1..(Len(s) + Len(t)) |-> IF j <= Len(s) THEN s[j] ELSE t[j - Len(s)]]
<1>1. /\ s \o t \in Seq(S)
      /\ Len(s \o t) = Len(s) + Len(t)
      /\ \A i \in 1..(Len(s) + Len(t)) : (s \o t)[i] = IF i <= Len(s) THEN s[i] ELSE t[i - Len(s)]
  BY ConcatProperties, Zenon
<1> DEFINE c == s \o t
<1>2. c \in [1..Len(c) -> S]
  BY <1>1, LenProperties, Zenon
<1> HIDE DEF c
<1>3. c = [j \in 1..Len(c) |-> c[j]]
  BY <1>2
<1> QED BY <1>1, <1>3 DEF c

\* write(2) never shortens the file, and grows it to the end of the write.
LEMMA WrittenLen ==
  ASSUME NEW cells \in Seq(Cell), NEW p \in Nat, NEW new \in Seq(Cell)
  PROVE  /\ p + Len(new) >= Len(cells) => Len(WrittenAt(cells, p, new)) = p + Len(new)
         /\ p + Len(new) <= Len(cells) => Len(WrittenAt(cells, p, new)) = Len(cells)
<1> DEFINE n == IF p + Len(new) > Len(cells) THEN p + Len(new) ELSE Len(cells)
           c(i) == IF i > p /\ i <= p + Len(new) THEN new[i - p]
                   ELSE IF i <= Len(cells) THEN cells[i] ELSE Zero
<1>1. n \in Nat /\ Len(new) \in Nat /\ Len(cells) \in Nat
  OBVIOUS
<1>2. WrittenAt(cells, p, new) = [i \in 1..n |-> c(i)]
  BY DEF WrittenAt
<1>3. Len(WrittenAt(cells, p, new)) = n
  <2> HIDE DEF n, c
  <2> QED BY <1>1, <1>2
<1> QED BY <1>1, <1>3

\* In front of the write the file is as it was, or zero behind its old end.
LEMMA WrittenOld ==
  ASSUME NEW cells \in Seq(Cell), NEW p \in Nat, NEW new \in Seq(Cell), Len(new) > 0,
         NEW i \in 1..p
  PROVE  WrittenAt(cells, p, new)[i] = IF i <= Len(cells) THEN cells[i] ELSE Zero
<1> DEFINE n == IF p + Len(new) > Len(cells) THEN p + Len(new) ELSE Len(cells)
<1>1. Len(new) \in Nat /\ Len(cells) \in Nat
  OBVIOUS
<1>2. i \in 1..n /\ ~(i > p)
  BY <1>1
<1> QED BY <1>2 DEF WrittenAt

\* What was written is in the file.
LEMMA WrittenNew ==
  ASSUME NEW cells \in Seq(Cell), NEW p \in Nat, NEW new \in Seq(Cell), NEW j \in 1..Len(new)
  PROVE  WrittenAt(cells, p, new)[p + j] = new[j]
<1> DEFINE n == IF p + Len(new) > Len(cells) THEN p + Len(new) ELSE Len(cells)
<1>1. Len(new) \in Nat /\ Len(cells) \in Nat
  OBVIOUS
<1>2. p + j \in 1..n /\ p + j > p /\ p + j <= p + Len(new) /\ (p + j) - p = j
  BY <1>1
<1> QED BY <1>2 DEF WrittenAt

\* A record as WriteEntry and WriteDelete lay it out: sizes, flag, body.
LEMMA EncodedIs ==
  ASSUME NEW e \in Entry, NEW flag \in Flag
  PROVE  /\ Encoded(e, flag) \in Seq(Cell)
         /\ Len(Encoded(e, flag)) = 2 + BodyLen(e)
         /\ Encoded(e, flag)[1] = <<"size", e>>
         /\ Encoded(e, flag)[2] = <<flag, e>>
<1>1. <<"size", e>> \in Cell /\ <<flag, e>> \in Cell /\ <<"body", e>> \in Cell
  BY DEF Cell, Flag
<1>2. BodyLen(e) \in Nat
  BY BodyLenType
<1>3. Encoded(e, flag) \in Seq(Cell)
  BY EncodedType DEF Flag
<1> DEFINE n == BodyLen(e)
           c == <<"body", e>>
           head == <<<<"size", e>>, <<flag, e>>>>
           body == [i \in 1..n |-> c]
<1> HIDE DEF n, c
<1>4. body \in Seq(Cell) /\ Len(body) = n
  BY <1>1, <1>2 DEF n, c
<1>5. head \in Seq(Cell) /\ Len(head) = 2 /\ head[1] = <<"size", e>> /\ head[2] = <<flag, e>>
  BY <1>1
<1>6. Encoded(e, flag) = head \o body
  BY DEF Encoded, n, c
<1> HIDE DEF head, body
<1>7. /\ Len(head \o body) = Len(head) + Len(body)
      /\ \A i \in 1..(Len(head) + Len(body)) :
           (head \o body)[i] = IF i <= Len(head) THEN head[i] ELSE body[i - Len(head)]
  BY <1>4, <1>5, ConcatProperties, Zenon
<1>8. 1 \in 1..(2 + n) /\ 2 \in 1..(2 + n) /\ 1 <= 2 /\ 2 <= 2
  BY <1>2 DEF n
<1>9. Len(head \o body) = 2 + n /\ (head \o body)[1] = head[1] /\ (head \o body)[2] = head[2]
  BY <1>4, <1>5, <1>7, <1>8
<1> QED BY <1>3, <1>5, <1>6, <1>9 DEF n

-----------------------------------------------------------------------------
(* Scan is a recursive function over the offsets of the file.  ScanStep is   *)
(* one turn of Replay's loop, with f for the turns behind it.               *)

Stop(how) == [entries |-> <<>>, end |-> how, blank |-> FALSE]

ScanStep(cells, o, f) ==
  LET n == Len(cells) IN
        IF o = n THEN Stop("eof")
        ELSE IF o + 1 = n THEN Stop("error")
        ELSE LET size == cells[o + 1]
                 flag == cells[o + 2]
                 next == o + 2 + BodyLen(size[2])
             IN  CASE flag[1] = "C" -> f[o + 2]
                   [] size = Zero /\ flag = Zero -> [f[o + 2] EXCEPT !.blank = TRUE]
                   [] size[1] = "size" /\ flag[1] \in Flag /\ next <= n ->
                        [f[next] EXCEPT !.entries = <<size[2]>> \o @]
                   [] OTHER -> Stop("garbage")

ScanFunction(cells) == CHOOSE f : f = [o \in 0..Len(cells) |-> ScanStep(cells, o, f)]

\* Scan is that function at offset 0, by its definition.
LEMMA ScanIsFunction == \A cells : Scan(cells) = ScanFunction(cells)[0]
BY Zenon DEF Scan, ScanFunction, ScanStep, Stop

\* The cells of a log, by their kind.
LEMMA CellKinds ==
  ASSUME NEW c \in Cell
  PROVE  /\ c = Zero \/ c = <<"C", NoEntry>> \/ (c[1] \in {"size", "P", "D", "body"} /\ c[2] \in Entry)
         /\ Zero[1] = "zero" /\ <<"C", NoEntry>>[1] = "C"
BY DEF Cell, Zero

\* Where the record at offset o ends, and the headers Replay tells apart.
Behind(cells, o) == o + 2 + BodyLen(cells[o + 1][2])
IsCommitted(cells, o) == cells[o + 2][1] = "C"
IsBlank(cells, o) == cells[o + 1] = Zero /\ cells[o + 2] = Zero
IsRecord(cells, o) ==
  cells[o + 1][1] = "size" /\ cells[o + 2][1] \in Flag /\ Behind(cells, o) <= Len(cells)

\* One turn of Replay's loop where a header is left to read.
LEMMA ScanStepIs ==
  ASSUME NEW cells \in Seq(Cell), NEW o \in Nat, o + 2 <= Len(cells), NEW h
  PROVE  /\ IsCommitted(cells, o) => ScanStep(cells, o, h) = h[o + 2]
         /\ IsBlank(cells, o) => ScanStep(cells, o, h) = [h[o + 2] EXCEPT !.blank = TRUE]
         /\ IsRecord(cells, o) => ScanStep(cells, o, h) =
              [h[Behind(cells, o)] EXCEPT !.entries = <<cells[o + 1][2]>> \o @]
         /\ ~IsCommitted(cells, o) /\ ~IsBlank(cells, o) /\ ~IsRecord(cells, o) =>
              ScanStep(cells, o, h) = Stop("garbage")
<1>1. Len(cells) \in Nat /\ o # Len(cells) /\ o + 1 # Len(cells)
  OBVIOUS
<1>2. Zero[1] = "zero"
  BY DEF Zero
<1> DEFINE size == cells[o + 1]
           flag == cells[o + 2]
           next == o + 2 + BodyLen(size[2])
           committed == flag[1] = "C"
           blank == size = Zero /\ flag = Zero
           record == size[1] = "size" /\ flag[1] \in Flag /\ next <= Len(cells)
           onward == h[o + 2]
           blanked == [h[o + 2] EXCEPT !.blank = TRUE]
           added == [h[next] EXCEPT !.entries = <<size[2]>> \o @]
           stop == Stop("garbage")
<1>3. ScanStep(cells, o, h) = CASE committed -> onward [] blank -> blanked [] record -> added [] OTHER -> stop
  BY <1>1, Zenon DEF ScanStep
<1>4. ~(committed /\ blank) /\ ~(committed /\ record) /\ ~(blank /\ record)
  BY <1>2 DEF Flag
<1>5. /\ IsCommitted(cells, o) <=> committed
      /\ IsBlank(cells, o) <=> blank
      /\ IsRecord(cells, o) <=> record
      /\ next = Behind(cells, o)
  BY Zenon DEF IsCommitted, IsBlank, IsRecord, Behind
<1>6. added = [h[Behind(cells, o)] EXCEPT !.entries = <<cells[o + 1][2]>> \o @]
  BY Zenon DEF Behind
<1> HIDE DEF committed, blank, record, onward, blanked, added, stop
<1>7. /\ committed => ScanStep(cells, o, h) = onward
      /\ blank => ScanStep(cells, o, h) = blanked
      /\ record => ScanStep(cells, o, h) = added
      /\ ~committed /\ ~blank /\ ~record => ScanStep(cells, o, h) = stop
  BY <1>3, <1>4
<1> QED BY <1>5, <1>6, <1>7 DEF onward, blanked, stop

\* A record is an entry, and the scan goes on behind its header.
LEMMA EntryBehind ==
  ASSUME NEW cells \in Seq(Cell), NEW o \in Nat, o + 2 <= Len(cells), IsRecord(cells, o)
  PROVE  /\ cells[o + 1][2] \in Entry
         /\ Behind(cells, o) \in (o + 2)..Len(cells)
<1>1. cells[o + 1] \in Cell /\ cells[o + 1][1] = "size" /\ Behind(cells, o) <= Len(cells)
  BY DEF IsRecord
<1>2. cells[o + 1][2] \in Entry
  BY <1>1, CellKinds
<1>3. BodyLen(cells[o + 1][2]) \in Nat
  BY <1>2, BodyLenType
<1> QED BY <1>1, <1>2, <1>3 DEF Behind

\* A turn at offset o asks only about larger offsets ...
LEMMA ScanStepLocal ==
  ASSUME NEW cells \in Seq(Cell), NEW o \in 0..Len(cells), NEW f, NEW g,
         \A i \in (o + 1)..Len(cells) : f[i] = g[i]
  PROVE  ScanStep(cells, o, f) = ScanStep(cells, o, g)
<1>1. Len(cells) \in Nat /\ o \in Nat /\ o <= Len(cells)
  OBVIOUS
<1>2. CASE o = Len(cells) \/ o + 1 = Len(cells)
  BY <1>1, <1>2 DEF ScanStep
<1>3. CASE o # Len(cells) /\ o + 1 # Len(cells)
  <2>1. o + 2 <= Len(cells) /\ o + 2 \in (o + 1)..Len(cells) /\ o + 1 \in 1..Len(cells)
    BY <1>1, <1>3
  <2>2. f[o + 2] = g[o + 2]
    BY <2>1
  <2>3. IsRecord(cells, o) => f[Behind(cells, o)] = g[Behind(cells, o)]
    <3> SUFFICES ASSUME IsRecord(cells, o) PROVE f[Behind(cells, o)] = g[Behind(cells, o)]
      OBVIOUS
    <3>1. cells[o + 1] \in Cell /\ cells[o + 1][1] = "size" /\ Behind(cells, o) <= Len(cells)
      BY <2>1 DEF IsRecord
    <3>2. cells[o + 1][2] \in Entry
      BY <3>1, CellKinds
    <3>3. BodyLen(cells[o + 1][2]) \in Nat
      BY <3>2, BodyLenType
    <3>4. Behind(cells, o) \in (o + 1)..Len(cells)
      BY <1>1, <3>1, <3>3 DEF Behind
    <3> QED BY <3>4
  <2> DEFINE Same(h) ==
        /\ IsCommitted(cells, o) => ScanStep(cells, o, h) = h[o + 2]
        /\ IsBlank(cells, o) => ScanStep(cells, o, h) = [h[o + 2] EXCEPT !.blank = TRUE]
        /\ IsRecord(cells, o) => ScanStep(cells, o, h) =
             [h[Behind(cells, o)] EXCEPT !.entries = <<cells[o + 1][2]>> \o @]
        /\ ~IsCommitted(cells, o) /\ ~IsBlank(cells, o) /\ ~IsRecord(cells, o) =>
             ScanStep(cells, o, h) = Stop("garbage")
  <2>4. ASSUME NEW h PROVE Same(h)
    <3>1. o \in Nat /\ o + 2 <= Len(cells) /\ cells \in Seq(Cell)
      BY <1>1, <2>1
    <3> QED BY <3>1, ScanStepIs, Zenon
  <2> QED BY <2>2, <2>3, <2>4, Zenon
<1> QED BY <1>2, <1>3

\* ... so a function that solves the equation from x + 1 on extends to x ...
LEMMA ScanExtends ==
  ASSUME NEW cells \in Seq(Cell), NEW x \in Nat, x + 1 <= Len(cells),
         NEW f, f = [o \in (x + 1)..Len(cells) |-> ScanStep(cells, o, f)]
  PROVE  \E g : g = [o \in x..Len(cells) |-> ScanStep(cells, o, g)]
<1> DEFINE n == Len(cells)
           g == [o \in x..n |-> IF o = x THEN ScanStep(cells, x, f) ELSE f[o]]
<1>1. n \in Nat /\ x \in 0..n
  OBVIOUS
<1>2. \A i \in (x + 1)..n : i \in x..n /\ i # x
  BY <1>1
<1>3. \A i \in (x + 1)..n : f[i] = ScanStep(cells, i, f) /\ g[i] = f[i]
  BY <1>2
<1>4. g[x] = ScanStep(cells, x, f)
  BY <1>1
<1>5. g = [o \in x..n |-> g[o]]
  OBVIOUS
<1> HIDE DEF g
<1>6. ASSUME NEW o \in x..n PROVE g[o] = ScanStep(cells, o, g)
  <2>1. o \in 0..Len(cells) /\ \A i \in (o + 1)..Len(cells) : i \in (x + 1)..n
    BY <1>1
  <2>2. ScanStep(cells, o, f) = ScanStep(cells, o, g)
    <3>1. \A i \in (o + 1)..Len(cells) : f[i] = g[i]
      BY <1>3, <2>1
    <3> QED BY <2>1, <3>1, ScanStepLocal
  <2>3. CASE o = x
    BY <1>4, <2>2, <2>3
  <2>4. CASE o # x
    <3>1. o \in (x + 1)..n
      BY <1>1, <2>4
    <3> QED BY <1>3, <2>2, <3>1
  <2> QED BY <2>3, <2>4
<1>7. g = [o \in x..n |-> ScanStep(cells, o, g)]
  BY <1>5, <1>6
<1> QED BY <1>7

\* ... and by induction one solves it everywhere: Scan computes what its
\* definition says, on every file.
LEMMA ScanExists ==
  ASSUME NEW cells \in Seq(Cell)
  PROVE  ScanFunction(cells) = [o \in 0..Len(cells) |-> ScanStep(cells, o, ScanFunction(cells))]
<1> DEFINE n == Len(cells)
           Solved(x) == \E f : f = [o \in x..n |-> ScanStep(cells, o, f)]
           S == {d \in Nat : d <= n => Solved(n - d)}
<1>1. n \in Nat /\ n - n = 0 /\ n - 0 = n
  OBVIOUS
<1>2. Solved(n)
  <2> DEFINE f == [o \in n..n |-> Stop("eof")]
  <2>1. \A h : ScanStep(cells, Len(cells), h) = Stop("eof")
    BY Zenon DEF ScanStep
  <2>a. \A m \in Nat : \A o \in m..m : o = m
    OBVIOUS
  <2>2. \A o \in n..n : o = n
    BY <1>1, <2>a, Zenon
  <2>3. f = [o \in n..n |-> ScanStep(cells, o, f)]
    BY <2>1, <2>2
  <2> QED BY <2>3
<1>3. ASSUME NEW d \in Nat, d + 1 <= n, Solved(n - d) PROVE Solved(n - (d + 1))
  <2> DEFINE x == n - (d + 1)
  <2>1. x \in Nat /\ x + 1 = n - d /\ x + 1 <= Len(cells)
    BY <1>1, <1>3
  <2> HIDE DEF x
  <2>2. PICK f : f = [o \in (x + 1)..Len(cells) |-> ScanStep(cells, o, f)]
    BY <1>3, <2>1
  <2>3. Solved(x)
    BY <2>1, <2>2, ScanExtends
  <2> QED BY <2>3 DEF x
<1> HIDE DEF n, Solved
<1>4. n \in S
  <2>1. 0 \in S
    BY <1>1, <1>2
  <2>2. \A d \in Nat : d \in S => d + 1 \in S
    BY <1>1, <1>3
  <2> HIDE DEF S
  <2> QED BY <1>1, <2>1, <2>2, NatInductionSet
<1>5. Solved(0)
  BY <1>1, <1>4
<1>6. \E h : h = [o \in 0..Len(cells) |-> ScanStep(cells, o, h)]
  BY <1>5 DEF Solved, n
<1> QED BY <1>6, Zenon DEF ScanFunction

\* The recursion equation of Scan.
LEMMA ScanIs ==
  ASSUME NEW cells \in Seq(Cell), NEW o \in 0..Len(cells)
  PROVE  ScanFunction(cells)[o] = ScanStep(cells, o, ScanFunction(cells))
BY ScanExists

\* What a scan yields.
ScanResult == [entries : Seq(Entry), end : {"eof", "error", "garbage"}, blank : BOOLEAN]

\* Every scan ends, in one of the three ways, with entries that were written.
LEMMA ScanType ==
  ASSUME NEW cells \in Seq(Cell)
  PROVE  \A o \in 0..Len(cells) : ScanFunction(cells)[o] \in ScanResult
<1> DEFINE n == Len(cells)
           F == ScanFunction(cells)
           S == {o \in 0..n : F[o] \in ScanResult}
<1>1. n \in Nat
  OBVIOUS
<1>2. \A how \in {"eof", "error", "garbage"} : Stop(how) \in ScanResult
  BY DEF Stop, ScanResult
<1>3. ASSUME NEW o \in 0..n, (o + 1)..n \subseteq S PROVE F[o] \in ScanResult
  <2>1. F[o] = ScanStep(cells, o, F)
    BY ScanIs
  <2>2. CASE o = n
    BY <1>2, <2>1, <2>2, Zenon DEF ScanStep
  <2>3. CASE o + 1 = n
    <3>1. o # n
      BY <1>1, <2>3
    <3> QED BY <1>2, <2>1, <2>3, <3>1, Zenon DEF ScanStep
  <2>4. CASE o # n /\ o + 1 # n
    <3>1. o \in Nat /\ o + 2 <= Len(cells) /\ o + 2 \in (o + 1)..n
      BY <1>1, <2>4
    <3>2. F[o + 2] \in ScanResult
      BY <1>3, <3>1
    <3> HIDE DEF F
    <3>3. CASE IsCommitted(cells, o)
      BY <2>1, <3>1, <3>2, <3>3, ScanStepIs
    <3>4. CASE IsBlank(cells, o)
      <4>1. F[o] = [F[o + 2] EXCEPT !.blank = TRUE]
        BY <2>1, <3>1, <3>4, ScanStepIs, Zenon
      <4> QED BY <3>2, <4>1 DEF ScanResult
    <3>5. CASE IsRecord(cells, o)
      <4>1. F[o] = [F[Behind(cells, o)] EXCEPT !.entries = <<cells[o + 1][2]>> \o @]
        BY <2>1, <3>1, <3>5, ScanStepIs, Zenon
      <4>2. cells[o + 1][2] \in Entry /\ Behind(cells, o) \in (o + 2)..n
        BY <3>1, <3>5, EntryBehind
      <4>3. F[Behind(cells, o)] \in ScanResult
        BY <1>1, <1>3, <3>1, <4>2
      <4>4. <<cells[o + 1][2]>> \o F[Behind(cells, o)].entries \in Seq(Entry)
        BY <4>2, <4>3 DEF ScanResult
      <4> QED BY <4>1, <4>3, <4>4 DEF ScanResult
    <3>6. CASE ~IsCommitted(cells, o) /\ ~IsBlank(cells, o) /\ ~IsRecord(cells, o)
      <4>1. F[o] = Stop("garbage")
        BY <2>1, <3>1, <3>6, ScanStepIs, Zenon
      <4> QED BY <1>2, <4>1
    <3> QED BY <3>3, <3>4, <3>5, <3>6
  <2> QED BY <2>2, <2>3, <2>4
<1> HIDE DEF F
<1>4. \A o \in 0..n : (o + 1)..n \subseteq S => o \in S
  BY <1>3
<1> HIDE DEF S
<1>5. 0..n \subseteq S
  BY <1>1, <1>4, DownwardInduction
<1> QED BY <1>5 DEF S, F

-----------------------------------------------------------------------------
(* The records a writer has put into the file since it last started at       *)
(* offset 0 or 2: where they lie and what a scan makes of them.             *)

\* es lies in the cells up to pos, record i at offset at[i].
Layout(cells, pos, at, es) ==
  /\ at \in [1..(Len(es) + 1) -> Nat]
  /\ at[Len(es) + 1] = pos
  /\ \A i \in 1..Len(es) :
       /\ at[i + 1] = at[i] + 2 + BodyLen(es[i])
       /\ at[i + 1] <= pos
       /\ cells[at[i] + 1] = <<"size", es[i]>>
       /\ cells[at[i] + 2] \in {<<"P", es[i]>>, <<"D", es[i]>>}

\* The records from the i-th on, and then the tail.
Rest(es, i, tail) ==
  [j \in 1..((Len(es) + 1 - i) + Len(tail)) |->
     IF j <= Len(es) + 1 - i THEN es[i + j - 1] ELSE tail[j - (Len(es) + 1 - i)]]

\* Rest from the front, from the back and one record at a time.
LEMMA RestIs ==
  ASSUME NEW es \in Seq(Entry), NEW tail \in Seq(Entry)
  PROVE  /\ Rest(es, Len(es) + 1, tail) = tail
         /\ Rest(es, 1, tail) = es \o tail
         /\ \A i \in 1..Len(es) : Rest(es, i, tail) = <<es[i]>> \o Rest(es, i + 1, tail)
<1> DEFINE m == Len(es)
           t == Len(tail)
<1>0. m \in Nat /\ t \in Nat
  OBVIOUS
<1>1. Rest(es, m + 1, tail) = tail
  <2>1. m + 1 - (m + 1) = 0 /\ 0 + t = t /\ \A j \in 1..t : ~(j <= 0) /\ j - 0 = j
    BY <1>0
  <2>2. Rest(es, m + 1, tail) = [j \in 1..t |-> tail[j]]
    BY <2>1 DEF Rest
  <2> QED BY <2>2
<1>2. Rest(es, 1, tail) = es \o tail
  <2>1. m + 1 - 1 = m /\ \A j \in 1..(m + t) : 1 + j - 1 = j
    BY <1>0
  <2>2. Rest(es, 1, tail) = [j \in 1..(m + t) |-> IF j <= m THEN es[j] ELSE tail[j - m]]
    BY <2>1 DEF Rest
  <2>3. es \o tail = [j \in 1..(m + t) |-> IF j <= m THEN es[j] ELSE tail[j - m]]
    BY ConcatIs, Zenon
  <2> QED BY <2>2, <2>3
<1>3. ASSUME NEW i \in 1..m PROVE Rest(es, i, tail) = <<es[i]>> \o Rest(es, i + 1, tail)
  <2> DEFINE r == Rest(es, i + 1, tail)
             k == m - i
  <2>1. k \in Nat /\ m + 1 - (i + 1) = k /\ m + 1 - i = k + 1
    BY <1>0, <1>3
  <2>2. r = [j \in 1..(k + t) |-> IF j <= k THEN es[i + 1 + j - 1] ELSE tail[j - k]]
    BY <2>1 DEF Rest
  <2>3. Rest(es, i, tail) =
          [j \in 1..(k + 1 + t) |-> IF j <= k + 1 THEN es[i + j - 1] ELSE tail[j - (k + 1)]]
    BY <2>1 DEF Rest
  <2>4. \A j \in 1..(k + t) :
          (IF j <= k THEN es[i + 1 + j - 1] ELSE tail[j - k]) \in Entry
    <3>1. \A j \in 1..(k + t) : j <= k => i + 1 + j - 1 \in 1..m
      BY <1>0, <1>3, <2>1
    <3>2. \A j \in 1..(k + t) : ~(j <= k) => j - k \in 1..t
      BY <1>0, <2>1
    <3> QED BY <3>1, <3>2
  <2>5. r \in Seq(Entry) /\ Len(r) = k + t
    <3> DEFINE n == k + t
               At(j) == IF j <= k THEN es[i + 1 + j - 1] ELSE tail[j - k]
    <3>1. n \in Nat /\ r = [j \in 1..n |-> At(j)] /\ \A j \in 1..n : At(j) \in Entry
      BY <1>0, <2>1, <2>2, <2>4
    <3> HIDE DEF n, At, r
    <3>2. r \in Seq(Entry) /\ Len(r) = n
      BY <3>1
    <3> QED BY <3>2 DEF n
  <2> HIDE DEF r
  <2>6. <<es[i]>> \o r = [j \in 1..(1 + (k + t)) |-> IF j <= 1 THEN es[i] ELSE r[j - 1]]
    <3>1. <<es[i]>> \in Seq(Entry) /\ Len(<<es[i]>>) = 1 /\ \A j \in Nat : j >= 1 /\ j <= 1 => <<es[i]>>[j] = es[i]
      BY <1>3
    <3> DEFINE u == <<es[i]>>
    <3>2. u \o r = [j \in 1..(Len(u) + Len(r)) |-> IF j <= Len(u) THEN u[j] ELSE r[j - Len(u)]]
      BY <2>5, <3>1, ConcatIs, Zenon
    <3> HIDE DEF u
    <3>3. u \o r = [j \in 1..(1 + (k + t)) |-> IF j <= 1 THEN es[i] ELSE r[j - 1]]
      <4>1. \A j \in 1..(1 + (k + t)) : j <= 1 => u[j] = es[i]
        BY <1>0, <2>1, <3>1 DEF u
      <4>2. Len(u) = 1 /\ Len(r) = k + t
        BY <2>5, <3>1 DEF u
      <4> HIDE DEF k, t
      <4> QED BY <3>2, <4>1, <4>2
    <3> QED BY <3>3 DEF u
  <2> HIDE DEF k, t, m
  <2>7. 1 + (k + t) = k + 1 + t
    BY <1>0, <2>1
  <2>8. ASSUME NEW j \in 1..(k + 1 + t)
        PROVE  (IF j <= 1 THEN es[i] ELSE r[j - 1])
                 = (IF j <= k + 1 THEN es[i + j - 1] ELSE tail[j - (k + 1)])
    <3>0. j \in Nat /\ i \in Nat /\ k \in Nat /\ t \in Nat
      BY <1>0, <1>3, <2>1 DEF m
    <3>1. CASE j <= 1
      <4>1. j = 1 /\ i + j - 1 = i /\ j <= k + 1
        BY <3>0, <3>1
      <4> QED BY <3>1, <4>1
    <3>2. CASE ~(j <= 1)
      <4>1. j - 1 \in 1..(k + t) /\ i + 1 + (j - 1) - 1 = i + j - 1 /\ (j - 1) - k = j - (k + 1)
            /\ (j - 1 <= k <=> j <= k + 1)
        BY <3>0, <3>2
      <4>2. r[j - 1] = IF j - 1 <= k THEN es[i + 1 + (j - 1) - 1] ELSE tail[(j - 1) - k]
        BY <2>2, <4>1, Zenon
      <4> QED BY <3>2, <4>1, <4>2
    <3> QED BY <3>1, <3>2
  <2> QED BY <2>3, <2>6, <2>7, <2>8 DEF r
<1> QED BY <1>1, <1>2, <1>3

\* A scan that reaches the first of them reads them all, in order, and then
\* what is behind them.
LEMMA LayoutScanned ==
  ASSUME NEW cells \in Seq(Cell), NEW es \in Seq(Entry), NEW pos \in 0..Len(cells),
         NEW at, Layout(cells, pos, at, es)
  PROVE  /\ ScanFunction(cells)[at[1]].entries = es \o ScanFunction(cells)[pos].entries
         /\ ScanFunction(cells)[at[1]].end = ScanFunction(cells)[pos].end
<1> DEFINE F == ScanFunction(cells)
           m == Len(es)
           tail == F[pos].entries
           Good(i) == F[at[i]] = [F[pos] EXCEPT !.entries = Rest(es, i, tail)]
           S == {o \in 0..m : Good(o + 1)}
<1>1. m \in Nat /\ Len(cells) \in Nat /\ pos \in Nat
  OBVIOUS
<1>2. F[pos] \in ScanResult
  BY ScanType
<1>3. tail \in Seq(Entry)
  BY <1>2 DEF ScanResult
<1> HIDE DEF F
<1>4. at[m + 1] = pos /\ \A i \in 1..m : at[i] \in Nat /\ at[i + 1] \in Nat
  BY <1>1 DEF Layout
<1>5. Good(m + 1)
  <2>1. Rest(es, m + 1, tail) = tail
    BY <1>3, RestIs
  <2>2. F[pos] = [F[pos] EXCEPT !.entries = tail]
    BY <1>2 DEF ScanResult
  <2> QED BY <1>4, <2>1, <2>2
<1>6. ASSUME NEW i \in 1..m, Good(i + 1) PROVE Good(i)
  <2> DEFINE o == at[i]
  <2>1. /\ o \in Nat /\ at[i + 1] = o + 2 + BodyLen(es[i]) /\ at[i + 1] <= pos
        /\ cells[o + 1] = <<"size", es[i]>>
        /\ cells[o + 2] \in {<<"P", es[i]>>, <<"D", es[i]>>}
    BY <1>4 DEF Layout
  <2>2. es[i] \in Entry
    BY <1>6
  <2>3. BodyLen(es[i]) \in Nat
    BY <2>2, BodyLenType
  <2> HIDE DEF o
  <2>4. o + 2 <= Len(cells) /\ o \in 0..Len(cells)
    BY <1>1, <2>1, <2>3
  <2>5. Behind(cells, o) = at[i + 1]
    BY <2>1 DEF Behind
  <2>6. IsRecord(cells, o)
    <3>1. at[i + 1] <= Len(cells)
      BY <1>1, <1>4, <2>1
    <3>2. cells[o + 2][1] \in Flag
      BY <2>1 DEF Flag
    <3>3. cells[o + 1][1] = "size"
      BY <2>1
    <3> QED BY <2>5, <3>1, <3>2, <3>3, Zenon DEF IsRecord
  <2>7. F[o] = ScanStep(cells, o, F)
    BY <2>4, ScanIs DEF F
  <2>8. F[o] = [F[at[i + 1]] EXCEPT !.entries = <<es[i]>> \o @]
    <3>1. cells[o + 1][2] = es[i]
      BY <2>1
    <3>2. ScanStep(cells, o, F) = [F[Behind(cells, o)] EXCEPT !.entries = <<cells[o + 1][2]>> \o @]
      BY <2>1, <2>4, <2>6, ScanStepIs, Zenon
    <3> QED BY <2>5, <2>7, <3>1, <3>2, Zenon
  <2>9. Rest(es, i, tail) = <<es[i]>> \o Rest(es, i + 1, tail)
    BY <1>3, RestIs
  <2> HIDE DEF tail
  <2>10. F[o] = [F[pos] EXCEPT !.entries = <<es[i]>> \o Rest(es, i + 1, tail)]
    BY <1>2, <1>6, <2>8 DEF ScanResult
  <2> QED BY <2>9, <2>10 DEF o
<1> HIDE DEF Good
<1>7. \A o \in 0..m : (o + 1)..m \subseteq S => o \in S
  <2> SUFFICES ASSUME NEW o \in 0..m, (o + 1)..m \subseteq S PROVE Good(o + 1)
    OBVIOUS
  <2>1. CASE o = m
    BY <1>5, <2>1
  <2>2. CASE o # m
    <3>1. o + 1 \in (o + 1)..m /\ o + 1 \in 1..m
      BY <1>1, <2>2
    <3>2. Good((o + 1) + 1)
      BY <3>1
    <3> QED BY <1>6, <3>1, <3>2
  <2> QED BY <2>1, <2>2
<1> HIDE DEF S
<1>8. 0..m \subseteq S
  BY <1>1, <1>7, DownwardInduction
<1>9. Good(1)
  <2>1. 0 \in 0..m /\ 0 + 1 = 1
    BY <1>1
  <2> QED BY <1>8, <2>1 DEF S
<1>10. Rest(es, 1, tail) = es \o tail
  BY <1>3, RestIs
<1>11. F[at[1]] = [F[pos] EXCEPT !.entries = es \o tail]
  BY <1>9, <1>10 DEF Good
<1> HIDE DEF tail
<1>12. F[at[1]].entries = es \o tail /\ F[at[1]].end = F[pos].end
  BY <1>2, <1>11 DEF ScanResult
<1> QED BY <1>12 DEF F, tail

\* A scan reaches the first of them: they start at offset 0, or behind a
\* first header that was marked committed or never written.
Held(cells, pos, es) ==
  /\ pos <= Len(cells)
  /\ \E at : /\ Layout(cells, pos, at, es)
             /\ \/ at[1] = 0 /\ es # <<>>
                \/ at[1] = 2 /\ Len(cells) >= 2 /\ (IsCommitted(cells, 0) \/ IsBlank(cells, 0))

\* What the log keeps for its writer: the records es, or an empty file with
\* the descriptor at one of the two offsets a writer starts from.
LogHolds(cells, pos, es) ==
  \/ cells = <<>> /\ es = <<>> /\ pos \in {0, 2}
  \/ Held(cells, pos, es)

\* Nothing is left over behind the descriptor.
AtEnd(cells, pos) == cells = <<>> \/ pos = Len(cells)

\* A MarkCommitted has been here since the file was last empty.
Marked(cells) == Len(cells) >= 2 /\ cells[2][1] = "C"

\* The descriptor never goes back into the first header.
LEMMA HeldBehindHeader ==
  ASSUME NEW cells \in Seq(Cell), NEW pos \in Nat, NEW es \in Seq(Entry), Held(cells, pos, es)
  PROVE  pos >= 2
<1>1. PICK at : /\ pos <= Len(cells) /\ Layout(cells, pos, at, es)
                /\ at[1] \in {0, 2} /\ (es = <<>> => at[1] = 2)
  BY DEF Held
<1>2. CASE es = <<>>
  BY <1>1, <1>2 DEF Layout
<1>3. CASE es # <<>>
  <2>1. 1 \in 1..Len(es) /\ es[1] \in Entry
    BY <1>3
  <2>2. at[1 + 1] = at[1] + 2 + BodyLen(es[1]) /\ at[1 + 1] <= pos
    BY <1>1, <2>1 DEF Layout
  <2>3. BodyLen(es[1]) \in Nat
    BY <2>1, BodyLenType
  <2> QED BY <1>1, <2>2, <2>3
<1> QED BY <1>2, <1>3

\* One more record.
LEMMA LayoutGrows ==
  ASSUME NEW cells \in Seq(Cell), NEW pos \in Nat, NEW es \in Seq(Entry), NEW at,
         Layout(cells, pos, at, es), es = <<>> \/ pos <= Len(cells),
         NEW e \in Entry, NEW flag \in Flag
  PROVE  \E now : /\ Layout(WrittenAt(cells, pos, Encoded(e, flag)),
                            pos + 2 + BodyLen(e), now, Append(es, e))
                  /\ now[1] = at[1]
<1> DEFINE m == Len(es)
           new == Encoded(e, flag)
           w == WrittenAt(cells, pos, new)
           end == pos + 2 + BodyLen(e)
           now == [i \in 1..(m + 2) |-> IF i = m + 2 THEN end ELSE at[i]]
           all == Append(es, e)
<1>1. m \in Nat /\ BodyLen(e) \in Nat /\ end \in Nat /\ pos <= end
  BY BodyLenType
<1>2. new \in Seq(Cell) /\ Len(new) = 2 + BodyLen(e) /\ new[1] = <<"size", e>> /\ new[2] = <<flag, e>>
  BY EncodedIs
<1>3. /\ at \in [1..(m + 1) -> Nat] /\ at[m + 1] = pos
      /\ \A i \in 1..m :
            /\ at[i + 1] = at[i] + 2 + BodyLen(es[i])
            /\ at[i + 1] <= pos
            /\ cells[at[i] + 1] = <<"size", es[i]>>
            /\ cells[at[i] + 2] \in {<<"P", es[i]>>, <<"D", es[i]>>}
  BY DEF Layout
<1>4. Len(all) = m + 1 /\ all[m + 1] = e /\ \A i \in 1..m : all[i] = es[i]
  OBVIOUS
<1>5. /\ \A i \in Nat : 1 <= i /\ i <= pos /\ i <= Len(cells) => w[i] = cells[i]
      /\ w[pos + 1] = new[1] /\ w[pos + 2] = new[2]
  <2>1. 1 \in 1..Len(new) /\ 2 \in 1..Len(new)
    BY <1>1, <1>2
  <2>2. w = WrittenAt(cells, pos, new) /\ Len(new) > 0
    BY <1>1, <1>2
  <2> HIDE DEF new, w
  <2>3. \A i \in 1..pos : w[i] = IF i <= Len(cells) THEN cells[i] ELSE Zero
    BY <1>2, <2>2, WrittenOld
  <2>4. \A j \in 1..Len(new) : w[pos + j] = new[j]
    BY <1>2, <2>2, WrittenNew
  <2> QED BY <2>1, <2>3, <2>4
<1> HIDE DEF w, new, all, end
<1>6. now \in [1..(Len(all) + 1) -> Nat] /\ now[Len(all) + 1] = end /\ now[1] = at[1]
  <2>1. (m + 1) + 1 = m + 2 /\ 1 # m + 2 /\ 1 \in 1..(m + 2)
    BY <1>1
  <2>2. \A i \in 1..(m + 2) : i # m + 2 => at[i] \in Nat
    BY <1>1, <1>3
  <2> QED BY <1>1, <1>4, <2>1, <2>2
<1>7. ASSUME NEW i \in 1..m
      PROVE  /\ now[i + 1] = now[i] + 2 + BodyLen(all[i])
             /\ now[i + 1] <= end
             /\ w[now[i] + 1] = <<"size", all[i]>>
             /\ w[now[i] + 2] \in {<<"P", all[i]>>, <<"D", all[i]>>}
  <2>1. now[i] = at[i] /\ now[i + 1] = at[i + 1]
    BY <1>1
  <2>2. at[i] \in Nat /\ at[i + 1] \in Nat /\ BodyLen(es[i]) \in Nat
    BY <1>1, <1>3, BodyLenType
  <2>3. pos <= Len(cells) /\ at[i] + 2 <= pos
    BY <1>1, <1>3, <2>2
  <2>4. w[at[i] + 1] = cells[at[i] + 1] /\ w[at[i] + 2] = cells[at[i] + 2]
    <3>1. \A d \in {1, 2} : at[i] + d \in Nat /\ 1 <= at[i] + d /\ at[i] + d <= pos /\ at[i] + d <= Len(cells)
      BY <1>1, <2>2, <2>3
    <3> HIDE DEF now
    <3> QED BY <1>5, <3>1
  <2>5. at[i + 1] <= end
    BY <1>1, <1>3, <2>2
  <2> HIDE DEF now
  <2> QED BY <1>3, <1>4, <2>1, <2>4, <2>5
<1>8. /\ now[(m + 1) + 1] = now[m + 1] + 2 + BodyLen(all[m + 1])
      /\ now[(m + 1) + 1] <= end
      /\ w[now[m + 1] + 1] = <<"size", all[m + 1]>>
      /\ w[now[m + 1] + 2] \in {<<"P", all[m + 1]>>, <<"D", all[m + 1]>>}
  <2>1. now[m + 1] = pos /\ now[(m + 1) + 1] = end
    BY <1>1, <1>3
  <2>2. all[m + 1] = e
    BY <1>4
  <2> HIDE DEF now
  <2>3. w[pos + 1] = <<"size", e>> /\ w[pos + 2] \in {<<"P", e>>, <<"D", e>>}
    BY <1>2, <1>5 DEF Flag
  <2>4. end = pos + 2 + BodyLen(e) /\ end <= end
    BY <1>1 DEF end
  <2> HIDE DEF m
  <2> QED BY <2>1, <2>2, <2>3, <2>4
<1>9. \A i \in 1..Len(all) : i \in 1..m \/ i = m + 1
  BY <1>1, <1>4
<1> HIDE DEF now, m
<1>10. Layout(w, end, now, all)
  BY <1>6, <1>7, <1>8, <1>9, Zenon DEF Layout
<1> QED BY <1>6, <1>10 DEF w, new, all, end

\* WriteEntry and WriteDelete add their record to what the log holds, whatever
\* older cells they write over.
LEMMA RecordHeld ==
  ASSUME NEW cells \in Seq(Cell), NEW pos \in Nat, NEW es \in Seq(Entry),
         LogHolds(cells, pos, es), NEW e \in Entry, NEW flag \in Flag
  PROVE  LET w   == WrittenAt(cells, pos, Encoded(e, flag))
             end == pos + 2 + BodyLen(e)
         IN  /\ LogHolds(w, end, Append(es, e)) /\ (AtEnd(cells, pos) => AtEnd(w, end))
             /\ Marked(cells) => Marked(w)
<1> DEFINE new == Encoded(e, flag)
           w == WrittenAt(cells, pos, new)
           end == pos + 2 + BodyLen(e)
<1>1. cells \in Seq(Cell) /\ pos \in Nat /\ Len(cells) \in Nat
  OBVIOUS
<1>2. BodyLen(e) \in Nat /\ new \in Seq(Cell) /\ Len(new) = 2 + BodyLen(e)
  BY BodyLenType, EncodedIs
<1> HIDE DEF new
<1>3. pos + Len(new) = end
  BY <1>1, <1>2
<1>4. /\ end >= Len(cells) => Len(w) = end
      /\ end <= Len(cells) => Len(w) = Len(cells)
      /\ \A i \in Nat : 1 <= i /\ i <= pos /\ i <= Len(cells) => w[i] = cells[i]
      /\ \A i \in Nat : 1 <= i /\ i <= pos /\ i > Len(cells) => w[i] = Zero
  <2>1. Len(new) > 0
    BY <1>2
  <2>2. w = WrittenAt(cells, pos, new)
    OBVIOUS
  <2> HIDE DEF w, end
  <2>3. \A i \in 1..pos : w[i] = IF i <= Len(cells) THEN cells[i] ELSE Zero
    BY <1>2, <2>1, <2>2, WrittenOld
  <2>4. /\ pos + Len(new) >= Len(cells) => Len(w) = pos + Len(new)
        /\ pos + Len(new) <= Len(cells) => Len(w) = Len(cells)
    BY <1>2, <2>2, WrittenLen
  <2> QED BY <1>3, <2>3, <2>4
<1>5. \E at : /\ Layout(cells, pos, at, es) /\ (es = <<>> \/ pos <= Len(cells))
              /\ \/ at[1] = 0
                 \/ at[1] = 2 /\ Len(w) >= 2 /\ (IsCommitted(w, 0) \/ IsBlank(w, 0))
  <2>1. CASE cells = <<>> /\ es = <<>> /\ pos \in {0, 2}
    <3> DEFINE at == [i \in 1..1 |-> pos]
    <3>1. Layout(cells, pos, at, es) /\ at[1] = pos
      BY <1>1, <2>1 DEF Layout
    <3>2. CASE pos = 2
      <4>1. w[1] = Zero /\ w[2] = Zero
        BY <1>4, <2>1, <3>2
      <4>2. Len(w) >= 2
        BY <1>1, <1>2, <1>4, <3>2
      <4>3. 0 + 1 = 1 /\ 0 + 2 = 2
        OBVIOUS
      <4> HIDE DEF w, at
      <4>4. IsBlank(w, 0)
        BY <4>1, <4>3 DEF IsBlank
      <4> QED BY <2>1, <3>1, <3>2, <4>2, <4>4
    <3> QED BY <2>1, <3>1, <3>2
  <2>2. CASE Held(cells, pos, es)
    <3>1. PICK at : /\ pos <= Len(cells) /\ Layout(cells, pos, at, es)
                    /\ \/ at[1] = 0 /\ es # <<>>
                       \/ at[1] = 2 /\ Len(cells) >= 2 /\ (IsCommitted(cells, 0) \/ IsBlank(cells, 0))
      BY <2>2 DEF Held
    <3>2. CASE at[1] = 2 /\ Len(cells) >= 2 /\ (IsCommitted(cells, 0) \/ IsBlank(cells, 0))
      <4>1. pos >= 2
        BY <2>2, HeldBehindHeader
      <4>2. w[1] = cells[1] /\ w[2] = cells[2]
        BY <1>1, <1>4, <3>2, <4>1
      <4>3. Len(w) >= 2
        BY <1>1, <1>2, <1>4, <3>2
      <4>4. 0 + 1 = 1 /\ 0 + 2 = 2
        OBVIOUS
      <4> HIDE DEF w
      <4>5. IsCommitted(w, 0) \/ IsBlank(w, 0)
        BY <3>2, <4>2, <4>4 DEF IsCommitted, IsBlank
      <4> QED BY <3>1, <3>2, <4>3, <4>5
    <3> QED BY <3>1, <3>2
  <2> QED BY <2>1, <2>2 DEF LogHolds
<1> HIDE DEF w
<1>6. PICK at : /\ Layout(cells, pos, at, es) /\ (es = <<>> \/ pos <= Len(cells))
                /\ \/ at[1] = 0
                   \/ at[1] = 2 /\ Len(w) >= 2 /\ (IsCommitted(w, 0) \/ IsBlank(w, 0))
  BY <1>5
<1>7. PICK now : Layout(w, end, now, Append(es, e)) /\ now[1] = at[1]
  BY <1>1, <1>6, LayoutGrows DEF w, new
<1>8. end <= Len(w) /\ (AtEnd(cells, pos) => end = Len(w))
  <2>1. cells = <<>> => Len(cells) = 0
    OBVIOUS
  <2>2. pos + Len(new) = end /\ Len(new) > 0
    BY <1>1, <1>2, <1>3
  <2>3. AtEnd(cells, pos) => cells = <<>> \/ pos = Len(cells)
    BY DEF AtEnd
  <2> HIDE DEF end
  <2> QED BY <1>1, <1>2, <1>4, <2>1, <2>2, <2>3
<1>9. Append(es, e) # <<>>
  <2>1. Len(Append(es, e)) = Len(es) + 1 /\ Len(es) \in Nat /\ Len(<<>>) = 0
    OBVIOUS
  <2> QED BY <2>1
<1>10. Held(w, end, Append(es, e))
  <2> HIDE DEF end
  <2> QED BY <1>6, <1>7, <1>8, <1>9 DEF Held
<1>11. Marked(cells) => Marked(w)
  <2> SUFFICES ASSUME Marked(cells) PROVE Marked(w)
    OBVIOUS
  <2>1. Len(cells) >= 2 /\ cells[2][1] = "C" /\ Held(cells, pos, es)
    BY DEF Marked, LogHolds
  <2>2. pos >= 2
    BY <2>1, HeldBehindHeader
  <2>3. w[2] = cells[2] /\ Len(w) >= 2
    <3>1. end >= Len(cells) \/ end <= Len(cells)
      BY <1>1, <1>2, <1>3
    <3>2. Len(w) >= 2
      BY <1>1, <1>4, <2>1, <3>1
    <3> QED BY <1>1, <1>4, <2>1, <2>2, <3>2
  <2> QED BY <2>1, <2>3 DEF Marked
<1> QED BY <1>8, <1>10, <1>11 DEF LogHolds, AtEnd, w, new

\* After MarkCommitted the log holds no record of the next batch, whatever it
\* held of the last.
LEMMA MarkHeld ==
  ASSUME NEW cells \in Seq(Cell)
  PROVE  LET w == WrittenAt(cells, 1, <<<<"C", NoEntry>>>>)
         IN  LogHolds(w, 2, <<>>) /\ Marked(w)
<1> DEFINE w == WrittenAt(cells, 1, <<<<"C", NoEntry>>>>)
           at == [i \in 1..1 |-> 2]
<1>2. cells \in Seq(Cell) /\ Len(cells) \in Nat
  OBVIOUS
<1>3. <<"C", NoEntry>> \in Cell
  BY DEF Cell
<1> DEFINE new == <<<<"C", NoEntry>>>>
<1>4. new \in Seq(Cell) /\ Len(new) = 1 /\ new[1] = <<"C", NoEntry>> /\ 1 \in 1..Len(new)
  BY <1>3
<1> HIDE DEF new
<1>5. /\ 2 >= Len(cells) => Len(w) = 2
      /\ 2 <= Len(cells) => Len(w) = Len(cells)
      /\ w[1 + 1] = new[1]
  <2>1. w = WrittenAt(cells, 1, new) /\ Len(new) > 0 /\ 1 + Len(new) = 2
    BY <1>4 DEF new
  <2> HIDE DEF w
  <2>2. 1 \in Nat /\ new \in Seq(Cell)
    BY <1>4
  <2>3. \A j \in 1..Len(new) : w[1 + j] = new[j]
    BY <2>1, <2>2, WrittenNew
  <2>4. /\ 1 + Len(new) >= Len(cells) => Len(w) = 1 + Len(new)
        /\ 1 + Len(new) <= Len(cells) => Len(w) = Len(cells)
    BY <2>1, <2>2, WrittenLen
  <2> QED BY <1>4, <2>1, <2>3, <2>4
<1> HIDE DEF w
<1>6. Len(w) >= 2 /\ 2 <= Len(w)
  BY <1>2, <1>4, <1>5
<1>7. IsCommitted(w, 0)
  <2>1. 0 + 2 = 2 /\ 1 + 1 = 2
    OBVIOUS
  <2> QED BY <1>4, <1>5, <2>1 DEF IsCommitted
<1>8. Layout(w, 2, at, <<>>) /\ at[1] = 2
  BY DEF Layout
<1> HIDE DEF at
<1>9. Held(w, 2, <<>>)
  BY <1>6, <1>7, <1>8 DEF Held
<1>10. Marked(w)
  <2>1. 0 + 2 = 2
    OBVIOUS
  <2> QED BY <1>6, <1>7, <2>1 DEF Marked, IsCommitted
<1> QED BY <1>9, <1>10 DEF LogHolds, w

\* Clear between two batches: an empty file, with the descriptor where it was.
LEMMA ClearHeld ==
  ASSUME NEW cells, NEW pos, LogHolds(cells, pos, <<>>)
  PROVE  LogHolds(<<>>, pos, <<>>) /\ AtEnd(<<>>, pos)
BY DEF LogHolds, Held, Layout, AtEnd

\* What the log holds comes first in a scan; on a log with nothing left over
\* the scan yields it exactly and ends at the end of the file.
LEMMA HeldScanned ==
  ASSUME NEW cells \in Seq(Cell), NEW pos \in Nat, NEW es \in Seq(Entry),
         LogHolds(cells, pos, es)
  PROVE  /\ Scan(cells) \in ScanResult
         /\ \E tail \in Seq(Entry) : Scan(cells).entries = es \o tail
         /\ AtEnd(cells, pos) => Scan(cells).end = "eof" /\ Scan(cells).entries = es
<1> DEFINE F == ScanFunction(cells)
<1>1. cells \in Seq(Cell) /\ pos \in Nat /\ Len(cells) \in Nat
  OBVIOUS
<1>2. Scan(cells) = F[0]
  BY ScanIsFunction
<1>3. \A o \in 0..Len(cells) : F[o] \in ScanResult
  BY <1>1, ScanType
<1>4. Scan(cells) \in ScanResult
  BY <1>1, <1>2, <1>3
<1>5. F[Len(cells)] = Stop("eof")
  <2>1. Len(cells) \in 0..Len(cells)
    BY <1>1
  <2>2. F[Len(cells)] = ScanStep(cells, Len(cells), F)
    BY <1>1, <2>1, ScanIs
  <2> QED BY <2>2, Zenon DEF ScanStep
<1> HIDE DEF F
<1>6. CASE cells = <<>> /\ es = <<>>
  <2>1. F[0] = Stop("eof")
    BY <1>5, <1>6
  <2>2. Scan(cells).entries = <<>> /\ Scan(cells).end = "eof"
    BY <1>2, <2>1 DEF Stop
  <2>3. <<>> \in Seq(Entry) /\ <<>> = es \o <<>>
    BY <1>6
  <2> QED BY <1>4, <1>6, <2>2, <2>3
<1>7. CASE cells # <<>> /\ Held(cells, pos, es)
  <2>1. PICK at : /\ pos <= Len(cells) /\ Layout(cells, pos, at, es)
                  /\ \/ at[1] = 0 /\ es # <<>>
                     \/ at[1] = 2 /\ Len(cells) >= 2 /\ (IsCommitted(cells, 0) \/ IsBlank(cells, 0))
    BY <1>7 DEF Held
  <2>2. F[at[1]].entries = es \o F[pos].entries /\ F[at[1]].end = F[pos].end
    <3>1. pos \in 0..Len(cells)
      BY <1>1, <2>1
    <3>2. Layout(cells, pos, at, es)
      BY <2>1
    <3> QED BY <3>1, <3>2, LayoutScanned DEF F
  <2>3. F[pos] \in ScanResult
    BY <1>1, <1>3, <2>1
  <2>5. F[0].entries = F[at[1]].entries /\ F[0].end = F[at[1]].end
    <3>1. CASE at[1] = 0
      BY <3>1
    <3>2. CASE at[1] = 2 /\ Len(cells) >= 2 /\ (IsCommitted(cells, 0) \/ IsBlank(cells, 0))
      <4>1. 0 \in 0..Len(cells) /\ 0 \in Nat /\ 0 + 2 <= Len(cells) /\ 0 + 2 = 2 /\ 2 \in 0..Len(cells)
        BY <1>1, <3>2
      <4>2. F[0] = ScanStep(cells, 0, F)
        BY <1>1, <4>1, ScanIs DEF F
      <4>3. F[2] \in ScanResult
        BY <1>3, <4>1
      <4>4. CASE IsCommitted(cells, 0)
        <5>1. F[0] = F[2]
          <6>1. ScanStep(cells, 0, F) = F[0 + 2]
            BY <4>1, <4>4, ScanStepIs, Zenon
          <6> QED BY <4>1, <4>2, <6>1, Zenon
        <5> QED BY <3>2, <5>1
      <4>5. CASE IsBlank(cells, 0)
        <5>1. F[0] = [F[2] EXCEPT !.blank = TRUE]
          <6>1. ScanStep(cells, 0, F) = [F[0 + 2] EXCEPT !.blank = TRUE]
            BY <4>1, <4>5, ScanStepIs, Zenon
          <6> QED BY <4>1, <4>2, <6>1, Zenon
        <5> QED BY <3>2, <4>3, <5>1 DEF ScanResult
      <4> QED BY <3>2, <4>4, <4>5
    <3> QED BY <2>1, <3>1, <3>2
  <2>6. F[pos].entries \in Seq(Entry)
    BY <2>3 DEF ScanResult
  <2>7. pos = Len(cells) => F[pos].entries = <<>> /\ F[pos].end = "eof"
    BY <1>5 DEF Stop
  <2>8. es \o <<>> = es
    OBVIOUS
  <2>9. Scan(cells).entries = es \o F[pos].entries /\ Scan(cells).end = F[pos].end
    BY <1>2, <2>2, <2>5
  <2> QED BY <1>4, <1>7, <2>6, <2>7, <2>8, <2>9 DEF AtEnd
<1>8. Held(cells, pos, es) /\ cells = <<>> => es = <<>>
  <2> SUFFICES ASSUME Held(cells, pos, es), cells = <<>>, es # <<>> PROVE FALSE
    OBVIOUS
  <2>1. PICK at : pos <= Len(cells) /\ Layout(cells, pos, at, es)
    BY DEF Held
  <2>2. 1 \in 1..Len(es) /\ es[1] \in Entry
    OBVIOUS
  <2>3. BodyLen(es[1]) \in Nat
    BY <2>2, BodyLenType
  <2>4. at[1] \in Nat /\ at[1 + 1] = at[1] + 2 + BodyLen(es[1]) /\ at[1 + 1] <= pos
    BY <2>1, <2>2 DEF Layout
  <2>5. pos = 0
    BY <1>1, <2>1
  <2> QED BY <2>3, <2>4, <2>5
<1> QED BY <1>6, <1>7, <1>8 DEF LogHolds

\* The operations themselves, on what the log holds.
LEMMA HeldByOperations ==
  ASSUME WALTypeOK, NEW es \in Seq(Entry), LogHolds(log.cells, log.pos, es)
  PROVE  /\ \A k \in LogKey, v \in Val \cup {EmptyVal} :
              (IF v = EmptyVal THEN WriteDelete(k) ELSE WriteEntry(k, v)) =>
                /\ LogHolds(log'.cells, log'.pos, Append(es, [key |-> k, val |-> v]))
                /\ AtEnd(log.cells, log.pos) => AtEnd(log'.cells, log'.pos)
                /\ Marked(log.cells) => Marked(log'.cells)
         /\ MarkCommitted => LogHolds(log'.cells, log'.pos, <<>>) /\ Marked(log'.cells)
         /\ Clear /\ es = <<>> =>
              LogHolds(log'.cells, log'.pos, <<>>) /\ AtEnd(log'.cells, log'.pos)
<1> DEFINE cells == log.cells
           pos == log.pos
<1>1. cells \in Seq(Cell) /\ pos \in Nat
  BY DEF WALTypeOK
<1>2. ASSUME NEW k \in LogKey, NEW v \in Val \cup {EmptyVal},
             IF v = EmptyVal THEN WriteDelete(k) ELSE WriteEntry(k, v)
      PROVE  /\ LogHolds(log'.cells, log'.pos, Append(es, [key |-> k, val |-> v]))
             /\ AtEnd(cells, pos) => AtEnd(log'.cells, log'.pos)
             /\ Marked(cells) => Marked(log'.cells)
  <2> DEFINE e == [key |-> k, val |-> v]
  <2>1. e \in Entry
    BY DEF Entry
  <2>2. PICK flag \in Flag : log' = Written(Encoded(e, flag))
    BY <1>2 DEF WriteDelete, WriteEntry, Flag
  <2> HIDE DEF e
  <2>3. Len(Encoded(e, flag)) = 2 + BodyLen(e) /\ BodyLen(e) \in Nat
    BY <2>1, EncodedIs, BodyLenType
  <2>4. log'.cells = WrittenAt(cells, pos, Encoded(e, flag)) /\ log'.pos = pos + 2 + BodyLen(e)
    <3> DEFINE n == Len(Encoded(e, flag))
    <3>1. log'.cells = WrittenAt(cells, pos, Encoded(e, flag)) /\ log'.pos = pos + n
      BY <2>2 DEF Written
    <3>2. n = 2 + BodyLen(e) /\ BodyLen(e) \in Nat
      BY <2>3
    <3> HIDE DEF n, pos
    <3>3. pos + n = pos + 2 + BodyLen(e)
      BY <1>1, <3>2
    <3> QED BY <3>1, <3>3
  <2>5. LET w == WrittenAt(cells, pos, Encoded(e, flag))
            end == pos + 2 + BodyLen(e)
        IN  /\ LogHolds(w, end, Append(es, e)) /\ (AtEnd(cells, pos) => AtEnd(w, end))
            /\ Marked(cells) => Marked(w)
    BY <1>1, <2>1, RecordHeld
  <2> QED BY <2>4, <2>5 DEF e
<1>3. MarkCommitted => LogHolds(log'.cells, log'.pos, <<>>) /\ Marked(log'.cells)
  BY <1>1, MarkHeld DEF MarkCommitted
<1>4. ASSUME Clear, es = <<>>
      PROVE  LogHolds(log'.cells, log'.pos, <<>>) /\ AtEnd(log'.cells, log'.pos)
  <2>1. log'.cells = <<>> /\ log'.pos = pos
    BY <1>4 DEF Clear, WALTypeOK
  <2>2. LogHolds(cells, pos, <<>>)
    BY <1>4
  <2> QED BY <2>1, <2>2, ClearHeld
<1> QED BY <1>2, <1>3, <1>4

\* A process that starts on no file.
LEMMA HeldAtFirst ==
  InitLog => LogHolds(log.cells, log.pos, <<>>) /\ AtEnd(log.cells, log.pos)
BY DEF InitLog, LogHolds, AtEnd

\* What Replay may return of it.
LEMMA HeldReplayed ==
  ASSUME WALTypeOK, NEW es \in Seq(Entry), LogHolds(log.cells, log.pos, es),
         NEW result \in ReplayResults
  PROVE  /\ result.ok => \E tail \in Seq(Entry) : result.entries = es \o tail
         /\ AtEnd(log.cells, log.pos) => result.ok /\ result.entries = es
<1> DEFINE scan == Scan(log.cells)
<1>1. log.cells \in Seq(Cell) /\ log.pos \in Nat
  BY DEF WALTypeOK
<1>2. /\ \E tail \in Seq(Entry) : scan.entries = es \o tail
      /\ AtEnd(log.cells, log.pos) => scan.end = "eof" /\ scan.entries = es
  BY <1>1, HeldScanned
<1>3. result \in (IF scan.end = "error" THEN {}
                  ELSE {[ok |-> TRUE, entries |-> scan.entries, blank |-> scan.blank]})
        \/ result \in (IF scan.end = "eof" THEN {}
                       ELSE {[ok |-> FALSE, entries |-> <<>>, blank |-> FALSE]})
  BY DEF ReplayResults
<1> HIDE DEF scan
<1>4. (scan.end # "error" /\ result.ok /\ result.entries = scan.entries)
        \/ (scan.end # "eof" /\ ~result.ok)
  BY <1>3
<1> QED BY <1>2, <1>4
=============================================================================
