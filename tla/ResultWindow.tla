----------------------------- MODULE ResultWindow -----------------------------
(***************************************************************************)
(* Which rows of a result are on show: the window around a row                  *)
(* (result-window.ts, result-view.ts), and the one the grid asks for when the     *)
(* reader reaches an edge (result-scroll.ts, ResultGrid.svelte).                   *)
(*                                                                         *)
(* A result is the sequence of its pages' sizes; its rows are numbered from 0.      *)
(***************************************************************************)
EXTENDS Integers, Sequences, FiniteSets, SequencesExt

CONSTANTS
    WindowRows,  \* RESULT_WINDOW_ROWS
    EdgeRows,    \* RESULT_EDGE_ROWS
    Viewport     \* rows that fit on the screen

\* Of the constants; assumed by the module that instantiates this one.
ResultWindowAssumption ==
    /\ {WindowRows, EdgeRows, Viewport} \subseteq Nat \ {0}
    /\ Viewport + 2 * EdgeRows + 1 < WindowRows \div 2

LOCAL AtLeast(a, b) == IF a < b THEN b ELSE a
LOCAL AtMost(a, b)  == IF a < b THEN a ELSE b

startRow(pages, k) == SumFunction([j \in 1..(k - 1) |-> pages[j]])
loadedRows(pages)  == SumFunction(pages)

\* The rows [start, end) around an anchor, empty when there are none.
windowRange(pages, anchor) ==
    LET total == loadedRows(pages)
        a     == AtMost(AtLeast(0, anchor), total - 1)
        rows  == AtMost(WindowRows, total)
        start == AtMost(AtLeast(0, a - rows \div 2), total - rows)
    IN  IF total = 0 THEN [start |-> 0, end |-> 0] ELSE [start |-> start, end |-> start + rows]

pageIndexesForWindow(pages, anchor) ==
    LET range == windowRange(pages, anchor) IN
    {k \in DOMAIN pages : startRow(pages, k) < range.end /\ startRow(pages, k) + pages[k] > range.start}

\* The rows of the pages read that fall within the range: nothing knows of the others.
assembleResultWindow(pages, read, start, rows) ==
    LET total  == IF read = {} THEN 0 ELSE
                  LET ends == {startRow(pages, k) + pages[k] : k \in read}
                  IN  CHOOSE n \in ends : \A e \in ends : e <= n
        from   == AtMost(AtLeast(0, start), total)
        until  == AtMost(from + AtMost(WindowRows, rows), total)
        slice(k) == [i \in 1..pages[k] |-> startRow(pages, k) + i - 1]
        within(row) == from <= row /\ row < until
    IN  FlattenSeq([k \in DOMAIN pages |-> IF k \in read THEN SelectSeq(slice(k), within) ELSE <<>>])

readResultWindow(pages, anchor) ==
    LET total == loadedRows(pages)
        rows  == AtMost(WindowRows, total)
        a     == IF total = 0 THEN 0 ELSE AtMost(AtLeast(0, anchor), total - 1)
        start == AtMost(AtLeast(0, a - rows \div 2), AtLeast(0, total - rows))
    IN  [start |-> start,
         rows  |-> assembleResultWindow(pages, pageIndexesForWindow(pages, anchor), start, rows)]

-----------------------------------------------------------------------------
(* The grid.  A position is the local row at the top of the screen.           *)

visibleResultRange(top, rows) ==
    LET first == AtMost(rows - 1, AtLeast(0, top))
    IN  [first |-> first, last |-> AtMost(rows - 1, AtLeast(first, top + Viewport - 1))]

resultDemand(visible, start, rows, total, complete) ==
    IF start > 0 /\ visible.first <= EdgeRows THEN "backward"
    ELSE IF /\ rows > 0 /\ visible.last >= rows - EdgeRows - 1
            /\ start + rows < total \/ ~complete
    THEN "forward" ELSE "none"

\* inspectDemand: the row around which the next window is asked for, or none when it is more
\* rows of the cursor that are wanted.
Asked(demand, start, rows, total) ==
    CASE demand = "backward" -> {start - 1}
      [] demand = "forward" /\ start + rows < total -> {start + rows}
      [] OTHER -> {}

\* The position after a window took the place of another; the browser keeps it within the rows.
scrollCompensation(from, to) == from - to

Rebased(top, from, to, rows) ==
    AtMost(AtLeast(0, rows - Viewport), AtLeast(0, top + scrollCompensation(from, to)))

-----------------------------------------------------------------------------
(* Properties.                                                             *)

\* A window is a run of rows without a gap that holds its anchor, as long as there are rows,
\* and the pages read are all it needs (result-window.ts:10-72, result-view.ts:23-51).
WindowIsWhole(pages, anchor) ==
    \A window \in {readResultWindow(pages, anchor)} :
      /\ window.rows = [i \in 1..AtMost(WindowRows, loadedRows(pages)) |-> window.start + i - 1]
      /\ anchor \in 0..(loadedRows(pages) - 1) => anchor \in ToSet(window.rows)

\* Reaching an edge brings the row that follows it without moving the rows on the screen, and
\* never asks for the way back (ResultGrid.svelte:174-200, 225-239).
Demand(w, top, total) ==
    resultDemand(visibleResultRange(top, Len(w.rows)), w.start, Len(w.rows), total, TRUE)

PagingKeepsPlace(pages, anchor, top) ==
    \A w \in {readResultWindow(pages, anchor)} :
    \A demand \in {Demand(w, top, loadedRows(pages))} :
    \A row \in Asked(demand, w.start, Len(w.rows), loadedRows(pages)) :
    \A next \in {readResultWindow(pages, row)} :
    \A now \in {Rebased(top, w.start, next.start, Len(next.rows))} :
      /\ row \in ToSet(next.rows)
      /\ next.start + now = w.start + top
      /\ Demand(next, now, loadedRows(pages)) \in {demand, "none"}

=============================================================================
