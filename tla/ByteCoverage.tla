------------------------------ MODULE ByteCoverage ------------------------------
(***************************************************************************)
(* The index from bytes to the rows of a result (coverage.ts), and the cells of the   *)
(* hex view (layout.ts).                                                           *)
(*                                                                         *)
(* A row has the file it comes from, Null when the query computed it, its range, and  *)
(* ranges, its exact pieces in order or Null.  Rows are numbered from 0, intervals of   *)
(* the index from 1.                                                                *)
(***************************************************************************)
EXTENDS Integers, Sequences, FiniteSets, SequencesExt, FiniteSetsExt

CONSTANTS
    IntervalCap,   \* COVERAGE_INTERVAL_CAP
    BytesPerRow,   \* BYTES_PER_ROW, halved by a gap in the middle
    Null

\* Of the constants; assumed by the module that instantiates this one.
ByteCoverageAssumption == IntervalCap \in Nat /\ BytesPerRow \in Nat \ {0}

-----------------------------------------------------------------------------
(* Building the index.                                                     *)

piecesOf(row) == IF row.ranges = Null THEN <<[start |-> row.start, end |-> row.end]>> ELSE row.ranges

\* The intervals of the rows of a file, in the order of the rows; empty pieces are left out.
Intervals(rows, file, rowOffset) ==
    FlattenSeq([n \in DOMAIN rows |->
      IF rows[n].file # file \/ Null \in {rows[n].start, rows[n].end} THEN <<>>
      ELSE LET pieces == SelectSeq(piecesOf(rows[n]), LAMBDA p : p.end > p.start)
           IN  [k \in DOMAIN pieces |->
                  [start |-> pieces[k].start, end |-> pieces[k].end, row |-> n - 1 + rowOffset]]])

\* By start, the longer first.
ByStart(intervals) ==
    SortSeq(intervals, LAMBDA a, b : a.start < b.start \/ (a.start = b.start /\ a.end > b.end))

\* The parity of each row in the order of their first bytes.
Ordinals(sorted) ==
    [i \in DOMAIN sorted |->
       LET first(row) == Min({j \in DOMAIN sorted : sorted[j].row = row})
       IN  Cardinality({sorted[j].row : j \in {k \in DOMAIN sorted : k < first(sorted[i].row)}})]

buildCoverage(rows, file, rowOffset) ==
    LET intervals == Intervals(rows, file, rowOffset)
        sorted    == ByStart(intervals)
    IN  IF Len(intervals) > IntervalCap THEN Null
        ELSE [intervals |-> sorted, ordinals |-> Ordinals(sorted),
              maxEndPrefix |-> [i \in DOMAIN sorted |-> Max({sorted[j].end : j \in 1..i})],
              rowCount |-> Cardinality({intervals[i].row : i \in DOMAIN intervals})]

-----------------------------------------------------------------------------
(* Asking it.  Every question walks down from the last interval that starts early  *)
(* enough, and stops where no interval before can reach.                           *)

upperBound(index, probe) == Cardinality({i \in DOMAIN index.intervals : index.intervals[i].start <= probe})

Walked(index, from, offset) ==
    LET stops == {i \in 1..from : index.maxEndPrefix[i] <= offset}
    IN  {i \in 1..from : (\A j \in stops : j < i) /\ index.intervals[i].end > offset}

Length(interval) == interval.end - interval.start

\* The smaller first, then the later.
rowsAt(index, offset) ==
    LET smaller(i, j) ==
          LET a == index.intervals[i]  b == index.intervals[j] IN
          \/ Length(a) < Length(b)
          \/ Length(a) = Length(b) /\ (a.start > b.start \/ (a.start = b.start /\ i > j))
        matches == SetToSortSeq(Walked(index, upperBound(index, offset), offset), smaller)
    IN  [k \in DOMAIN matches |-> index.intervals[matches[k]].row]

rangeAt(index, offset) ==
    LET matches == Walked(index, upperBound(index, offset), offset)
        best    == CHOOSE i \in matches : \A j \in matches :
                     \/ Length(index.intervals[i]) < Length(index.intervals[j])
                     \/ Length(index.intervals[i]) = Length(index.intervals[j]) /\ i >= j
    IN  IF matches = {} THEN Null ELSE index.intervals[best]

spansIn(index, start, end) ==
    LET walked == SetToSortSeq(Walked(index, upperBound(index, end - 1), start), <)
    IN  [k \in DOMAIN walked |->
           [start |-> Max({index.intervals[walked[k]].start, start}),
            end   |-> Min({index.intervals[walked[k]].end, end}),
            alt   |-> index.ordinals[walked[k]] % 2 = 1]]

-----------------------------------------------------------------------------
(* The cells of a row: two characters and a space for each byte, one more space in   *)
(* the middle, then the bytes as text.  Positions are in characters from hexX.       *)

hexByteX(i) == 3 * i + IF i >= BytesPerRow \div 2 THEN 1 ELSE 0
AsciiX == 3 * BytesPerRow + 3

\* The byte of a row a position falls on.
ByteIndex(x) ==
    IF x \in AsciiX..(AsciiX + BytesPerRow - 1) THEN x - AsciiX
    ELSE IF x \notin 0..(AsciiX - 3) THEN Null
    ELSE LET last == Max({i \in 0..(BytesPerRow - 1) : hexByteX(i) <= x})
         IN  IF x < hexByteX(last) + 3 THEN last ELSE Null

byteAtPoint(x, row, firstRow, fileSize) ==
    LET offset == (firstRow + row) * BytesPerRow + ByteIndex(x)
    IN  IF ByteIndex(x) = Null \/ offset >= fileSize THEN Null ELSE offset

\* The cells filled for the bytes of a range that are in view.
fillRange(start, end, firstRow, rows, fileSize) ==
    LET from == Max({start, firstRow * BytesPerRow})
        to   == Min({end, (firstRow + rows + 1) * BytesPerRow, fileSize})
    IN  {[offset |-> o, x |-> hexByteX(o % BytesPerRow), row |-> o \div BytesPerRow - firstRow] : o \in from..(to - 1)}

-----------------------------------------------------------------------------
(* Properties.                                                             *)

Covers(interval, offset) == interval.start <= offset /\ offset < interval.end

\* Asking the index is asking every piece of every row: a byte leads to all rows that hold it,
\* and to the smallest piece around it, and the bytes shaded are those that are covered
\* (coverage.ts:186-237).
AnswersAreExact(rowsThere, best, at) ==
    /\ ToSet(rowsThere) = {v.row : v \in at}
    /\ at = {} <=> best = Null
    /\ at # {} => /\ best \in at
                  /\ \A v \in at : Length(best) <= Length(v)
                  /\ \E v \in at : Length(v) = Length(best) /\ v.row = rowsThere[1]

IndexIsExact(index, all, last) ==
    LET at(o) == {v \in all : Covers(v, o)}
    IN  \A o \in 0..last :
          /\ AnswersAreExact(rowsAt(index, o), rangeAt(index, o), at(o))
          /\ \A e \in (o + 1)..(last + 1) :
               UNION {s.start..(s.end - 1) : s \in ToSet(spansIn(index, o, e))}
                 = {b \in o..(e - 1) : at(b) # {}}

CoverageIsExact(rows, file, rowOffset, last) ==
    \A index \in {buildCoverage(rows, file, rowOffset)} \ {Null} :
      IndexIsExact(index, ToSet(Intervals(rows, file, rowOffset)), last)

\* A press on a cell that was filled selects the byte it was filled for (layout.ts:45-70,
\* render.ts:48-62).
CellsHitTheirBytes(start, end, firstRow, rows, fileSize) ==
    \A cell \in fillRange(start, end, firstRow, rows, fileSize) : \A x \in cell.x..(cell.x + 1) :
      /\ byteAtPoint(x, cell.row, firstRow, fileSize) = cell.offset
      /\ byteAtPoint(AsciiX + (cell.offset % BytesPerRow), cell.row, firstRow, fileSize) = cell.offset

=============================================================================
