-------------------------------- MODULE HexView --------------------------------
(***************************************************************************)
(* The hex pane: HexPane.svelte over ByteCache (byte-cache.ts), and what           *)
(* Workbench.svelte gives it of the session.                                       *)
(*                                                                         *)
(* A blob is <<batch, name>>, the file of that name in the batch-th batch opened.    *)
(* Reads of a blob are asynchronous and may fail.  An action is one event together    *)
(* with the effects it sets off: they run before the next event, those of the pane      *)
(* before those of the workbench, which may set the pane's off again.                  *)
(***************************************************************************)
EXTENDS Integers, Sequences, FiniteSets, SequencesExt, FiniteSetsExt

CONSTANTS
    Batches,      \* bound: what may be opened, each a function from names to sizes
    Windows,      \* bound: the windows of results, as the provenance of their rows: [file, ranges]
    Offsets,      \* bound: the offsets of the file pointed at
    Moves,        \* bound: the moves of the caret
    BytesPerRow, PageBytes, CachePages, ViewRows,
    MaxEvents,    \* bound: events of the user and the session after the first opening
    Null

\* Of the constants; assumed by the module that instantiates this one.
HexViewAssumption ==
    /\ {BytesPerRow, PageBytes, CachePages, ViewRows} \subseteq Nat \ {0}
    /\ \A n \in DOMAIN Batches : \A f \in DOMAIN Batches[n] : Batches[n][f] \in Nat

VARIABLES
    session,  \* batch, files, window, selectedRow, byteSelection
    hexFile,  \* the file the workbench shows
    pane,     \* the state of the pane
    cache,    \* the ByteCache of the pane, Null without a blob; failed is a history
    orphans,  \* reads of disposed caches somebody still waits for
    painted,  \* what the last paint showed: [blob, offsets]
    paintDue, \* paintHandle
    events

hexVars == <<session, hexFile, pane, cache, orphans, painted, paintDue, events>>

Size(blob) == Batches[blob[1]][blob[2]]
NewCache(blob) == [blob |-> blob, pages |-> <<>>, inflight |-> {}, watched |-> {}, failed |-> FALSE]
fileSize(s, f) == IF f \in DOMAIN s.files THEN s.files[f] ELSE 0

Init ==
    /\ session = [batch |-> 0, files |-> <<>>, window |-> Null, windowId |-> 0,
                  selectedRow |-> Null, byteSelection |-> Null]
    /\ hexFile = Null /\ cache = Null /\ orphans = 0 /\ painted = Null
    /\ pane = [blob |-> Null, scrollRow |-> 0, selection |-> Null, readError |-> FALSE,
               key |-> <<0, Null>>, highlight |-> Null, rangeIndex |-> 1, seen |-> Null]
    /\ paintDue = FALSE /\ events = 0

-----------------------------------------------------------------------------
(* ByteCache.  pages is in the order of use.                                 *)

PageOf(offset) == offset \div PageBytes
Cached(c, page) == page \in ToSet(c.pages)

touch(c, page) == [c EXCEPT !.pages = Append(SelectSeq(@, LAMBDA p : p # page), page)]
fetch(c, page) == [c EXCEPT !.inflight = @ \cup {page}]

byteAt(c, offset) ==
    IF offset >= Size(c.blob) THEN c
    ELSE IF Cached(c, PageOf(offset)) THEN touch(c, PageOf(offset)) ELSE fetch(c, PageOf(offset))

\* Its answer is awaited: a read of it that fails is reported.
ensureRange(c, start, end) ==
    LET last  == Min({(Size(c.blob) + PageBytes - 1) \div PageBytes - 1, PageOf(end - 1)})
        pages == PageOf(start)..last
        each(d, page) == IF Cached(d, page) THEN touch(d, page)
                         ELSE [fetch(d, page) EXCEPT !.watched = @ \cup {page}]
    IN  IF Size(c.blob) = 0 THEN c ELSE FoldLeft(each, c, SetToSortSeq(pages, <))

store(c, page) ==
    LET pages == IF Len(c.pages) >= CachePages THEN SubSeq(c.pages, Len(c.pages) - CachePages + 2, Len(c.pages))
                 ELSE c.pages
    IN  [c EXCEPT !.pages = Append(pages, page), !.inflight = @ \ {page}, !.watched = @ \ {page}]

-----------------------------------------------------------------------------
(* The effects of the pane.  All of it, the cache included, is one record here.  *)

All == [pane |-> pane, cache |-> cache, orphans |-> orphans]

totalRows(size) == IF size = 0 THEN 1 ELSE (size + BytesPerRow - 1) \div BytesPerRow
clampScrollRow(row, size) == Max({0, Min({row, Max({0, totalRows(size) - ViewRows})})})
rowOf(offset) == offset \div BytesPerRow
InView(row, scrollRow) == row \in scrollRow..(scrollRow + ViewRows - 1)

revealTo(a, offset, size) ==
    IF InView(rowOf(offset), a.pane.scrollRow) THEN a
    ELSE [a EXCEPT !.pane.scrollRow = clampScrollRow(rowOf(offset) - ViewRows \div 2, size)]

\* A blob of another identity: a new cache, at the top.
BlobEffect(a, blob) ==
    IF blob = a.pane.blob THEN a
    ELSE [pane  |-> [a.pane EXCEPT !.blob = blob, !.scrollRow = 0, !.selection = Null, !.readError = FALSE],
          cache |-> IF blob = Null THEN Null ELSE NewCache(blob),
          orphans |-> a.orphans + IF a.cache = Null THEN 0 ELSE Cardinality(a.cache.watched)]

PrefetchEffect(before, a) ==
    LET first == a.pane.scrollRow IN
    IF a.cache = Null \/ (a.pane.blob = before.pane.blob /\ first = before.pane.scrollRow) THEN a
    ELSE [a EXCEPT !.cache = ensureRange(@, first * BytesPerRow,
                                         (first + ViewRows + 1) * BytesPerRow + PageBytes)]

ResetKeyEffect(a, key) ==
    IF key = a.pane.key THEN a ELSE [a EXCEPT !.pane.key = key, !.pane.selection = Null]

\* The highlight is compared by value.
HighlightEffect(a, highlight, size) ==
    IF highlight = a.pane.highlight THEN a
    ELSE LET lit == [a EXCEPT !.pane.highlight = highlight, !.pane.rangeIndex = 1]
         IN  IF highlight = Null THEN lit ELSE revealTo(lit, highlight[1][1], size)

\* The byte under the caret is read whenever it is shown.
CaretEffect(a) ==
    IF a.cache = Null \/ a.pane.selection = Null THEN a
    ELSE [a EXCEPT !.cache = byteAt(@, a.pane.selection.focus)]

\* A bug to be caught: the row is revealed before the pane follows the file.
PaneEffectsInOtherOrder(before, a, s, file, blob, highlight) ==
    LET revealed == HighlightEffect(a, highlight, fileSize(s, file))
        onBlob   == PrefetchEffect(before, BlobEffect(revealed, blob))
    IN  CaretEffect(ResetKeyEffect(onBlob, <<s.windowId, file>>))

\* A new file is read before its row is revealed, and once more after that.
FileEffects(onFile, s, file, highlight) ==
    CaretEffect(PrefetchEffect(onFile, HighlightEffect(ResetKeyEffect(onFile, <<s.windowId, file>>),
                                                       highlight, fileSize(s, file))))

PaneEffects(before, a, s, file, blob, highlight) ==
    FileEffects(PrefetchEffect(before, BlobEffect(a, blob)), s, file, highlight)

-----------------------------------------------------------------------------
(* The effects of the workbench.                                           *)

\* rowHighlight: the provenance of the selected row, when the window holds it.
RowHighlight(s) ==
    IF s.window = Null \/ s.selectedRow = Null THEN Null
    ELSE IF s.selectedRow \notin DOMAIN s.window THEN Null ELSE s.window[s.selectedRow]

HighlightOf(s, file) ==
    IF RowHighlight(s) = Null THEN Null ELSE IF RowHighlight(s).file = file THEN RowHighlight(s).ranges ELSE Null

\* The identity of the highlight: it is made again for another window.
Identity(s) == IF RowHighlight(s) = Null THEN Null ELSE <<s.windowId, s.selectedRow>>

Repaired(s, file) ==
    IF s.files = <<>> THEN Null
    ELSE IF file \in DOMAIN s.files THEN file ELSE CHOOSE f \in DOMAIN s.files : TRUE

AutoSwitched(a, s, file) ==
    IF Identity(s) \notin {Null, a.pane.seen} /\ RowHighlight(s).file \in DOMAIN s.files
    THEN RowHighlight(s).file ELSE file

\* sourceBlob is derived from hexFile alone: it is asked for again when hexFile changes.
SourceBlob(s, file, blob) ==
    IF file = hexFile THEN blob ELSE IF file = Null THEN Null ELSE <<s.batch, file>>

\* What follows an event that leaves the session at s, the shown file at file and the pane at a.
Effects(s, file, a) ==
    \E blob  \in {SourceBlob(s, file, a.pane.blob)} :
    \E first \in {PaneEffects(All, a, s, file, blob, HighlightOf(s, file))} :
    \E then  \in {AutoSwitched(first, s, Repaired(s, file))} :
    \E seen  \in {[first EXCEPT !.pane.seen = Identity(s)]} :
    \E last  \in {PaneEffects(seen, seen, s, then, IF then = file THEN blob ELSE SourceBlob(s, then, blob),
                              HighlightOf(s, then))} :
      /\ session' = s /\ hexFile' = then
      /\ pane' = last.pane /\ cache' = last.cache /\ orphans' = last.orphans
      /\ paintDue' = TRUE /\ UNCHANGED painted

Event(s, file, a) == events < MaxEvents /\ events' = events + 1 /\ Effects(s, file, a)

-----------------------------------------------------------------------------
(* Events of the session.                                                  *)

Opening(n) ==
    /\ n > session.batch
    /\ IF session.batch = 0 THEN UNCHANGED events ELSE events < MaxEvents /\ events' = events + 1
    /\ Effects([session EXCEPT !.batch = n, !.files = Batches[n], !.window = Null, !.windowId = 0,
                             !.selectedRow = Null, !.byteSelection = Null], hexFile, All)

QuerySucceeded(window) ==
    session.files # <<>>
    /\ Event([session EXCEPT !.window = window, !.windowId = events + 1, !.selectedRow = Null,
                             !.byteSelection = Null], hexFile, All)

QueryWindowUpdated(window) ==
    session.window # Null
    /\ Event([session EXCEPT !.window = window, !.windowId = events + 1], hexFile, All)

RowSelected(row) == session.window # Null /\ Event([session EXCEPT !.selectedRow = row], hexFile, All)

-----------------------------------------------------------------------------
(* Events of the user.                                                     *)

SwitchHexFile(f) ==
    f \in DOMAIN session.files \ {hexFile} /\ Event([session EXCEPT !.byteSelection = Null], f, All)

\* apply: the pane's selection, and the session's.
Apply(selection, a) ==
    Event([session EXCEPT !.byteSelection =
             [file |-> hexFile, start |-> Min({selection.anchor, selection.focus}),
              end |-> Max({selection.anchor, selection.focus}) + 1]],
          hexFile, [a EXCEPT !.pane.selection = selection])

Here == fileSize(session, hexFile)

Point(offset, extend) ==
    /\ offset < Here
    /\ Apply([anchor |-> IF extend /\ pane.selection # Null THEN pane.selection.anchor ELSE offset,
              focus |-> offset], All)

GoTo(offset) == offset < Here /\ Apply([anchor |-> offset, focus |-> offset], revealTo(All, offset, Here))

\* The caret by a byte, a row or a page: keepCaretInView.
MoveBy(delta, extend) ==
    LET focus == IF pane.selection = Null THEN 0
                 ELSE Max({0, Min({Here - 1, pane.selection.focus + delta})})
        row   == rowOf(focus)
        first == IF row < pane.scrollRow THEN clampScrollRow(row, Here)
                 ELSE IF row >= pane.scrollRow + ViewRows THEN clampScrollRow(row - ViewRows + 1, Here)
                 ELSE pane.scrollRow
    IN  /\ Here > 0
        /\ Apply([anchor |-> IF extend /\ pane.selection # Null THEN pane.selection.anchor ELSE focus,
                  focus |-> focus], [All EXCEPT !.pane.scrollRow = first])

Wheel(sign) ==
    Event(session, hexFile, [All EXCEPT !.pane.scrollRow = clampScrollRow(@ + 3 * sign, Here)])

StepRange(delta) ==
    LET ranges == pane.highlight
        next   == Max({1, Min({Len(ranges), pane.rangeIndex + delta})})
    IN  /\ ranges # Null /\ Len(ranges) > 1 /\ next # pane.rangeIndex
        /\ Event(session, hexFile, revealTo([All EXCEPT !.pane.rangeIndex = next], ranges[next][1], Here))

RetryRead ==
    /\ pane.readError /\ cache # Null
    /\ Event(session, hexFile,
             [pane |-> [pane EXCEPT !.readError = FALSE],
              cache |-> ensureRange(NewCache(pane.blob), pane.scrollRow * BytesPerRow,
                                    (pane.scrollRow + ViewRows + 1) * BytesPerRow + PageBytes),
              orphans |-> orphans + Cardinality(cache.watched)])

-----------------------------------------------------------------------------
(* Reads and painting.                                                     *)

\* A bug to be caught: an answer does not ask for a paint.
PageArrivesUnpainted ==
    /\ cache # Null
    /\ \E page \in cache.inflight : cache' = CaretEffect([All EXCEPT !.cache = store(@, page)]).cache
    /\ UNCHANGED <<session, hexFile, pane, orphans, painted, paintDue, events>>

PageArrives ==
    /\ cache # Null
    /\ \E page \in cache.inflight : cache' = CaretEffect([All EXCEPT !.cache = store(@, page)]).cache
    /\ paintDue' = TRUE
    /\ UNCHANGED <<session, hexFile, pane, orphans, painted, events>>

ReadFails ==
    /\ cache # Null
    /\ \E page \in cache.inflight :
         /\ cache' = [cache EXCEPT !.inflight = @ \ {page}, !.watched = @ \ {page}, !.failed = TRUE]
         /\ pane' = [pane EXCEPT !.readError = @ \/ page \in cache.watched]
    /\ UNCHANGED <<session, hexFile, orphans, painted, paintDue, events>>

\* The answer to a read of a disposed cache: bytes are let go, a failure is reported.
OrphanAnswers ==
    /\ orphans > 0 /\ orphans' = orphans - 1
    /\ \E failed \in BOOLEAN : pane' = [pane EXCEPT !.readError = @ \/ failed]
    /\ UNCHANGED <<session, hexFile, cache, painted, paintDue, events>>

Visible ==
    {o \in (pane.scrollRow * BytesPerRow)..((pane.scrollRow + ViewRows) * BytesPerRow - 1) : o < Here}

Paint ==
    /\ paintDue /\ paintDue' = FALSE
    /\ IF cache = Null THEN painted' = Null /\ UNCHANGED cache
       ELSE /\ painted' = [blob |-> cache.blob,
                           offsets |-> {o \in Visible : o < Size(cache.blob) /\ Cached(cache, PageOf(o))}]
            /\ cache' = FoldLeft(byteAt, cache, SetToSortSeq(Visible, <))
    /\ UNCHANGED <<session, hexFile, pane, orphans, events>>

Answers == PageArrives \/ ReadFails \/ OrphanAnswers

Next ==
    \/ \E n \in DOMAIN Batches : Opening(n)
    \/ \E window \in Windows : QuerySucceeded(window) \/ QueryWindowUpdated(window)
    \/ \E row \in 1..2 : RowSelected(row)
    \/ \E f \in DOMAIN session.files : SwitchHexFile(f)
    \/ \E o \in Offsets, extend \in BOOLEAN : Point(o, extend)
    \/ \E o \in Offsets : GoTo(o)
    \/ \E d \in Moves, extend \in BOOLEAN : MoveBy(d, extend)
    \/ \E sign \in {-1, 1} : Wheel(sign) \/ StepRange(sign)
    \/ RetryRead \/ Answers \/ Paint

Spec == Init /\ [][Next]_hexVars

-----------------------------------------------------------------------------
(* Properties.                                                             *)

\* No placeholder stays on the screen: when nothing is being read, no paint is due and no read
\* failed, every byte in view that the blob has is on the canvas (byte-cache.ts:47-75,
\* HexPane.svelte:226-270).
BytesSettle ==
    cache # Null /\ cache.inflight = {} /\ ~paintDue /\ ~cache.failed =>
      /\ painted.blob = pane.blob
      /\ \A o \in Visible : o < Size(pane.blob) => o \in painted.offsets

\* A row selected shows its bytes, though the pane goes to the top when its file is another
\* (Workbench.svelte:540-557, HexPane.svelte:217-262, 326-334).
RowIsRevealed ==
    (pane'.highlight # pane.highlight /\ pane'.highlight # Null) =>
      InView(rowOf(pane'.highlight[1][1]), pane'.scrollRow)

RowsAreRevealed == [][RowIsRevealed]_hexVars

\* The pane reads the file that is open: "the bytes of a successfully opened file, by display
\* name, for the hex pane" (intake.ts:61).  Not so for a file opened again under a name that is
\* shown: the derived blob is asked for by name only (Workbench.svelte:469).
PaneReadsTheOpenFile == hexFile # Null => pane.blob = <<session.batch, hexFile>>

=============================================================================
