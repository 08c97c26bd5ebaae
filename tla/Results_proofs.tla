---------------------------- MODULE Results_proofs ----------------------------
(***************************************************************************)
(* Proofs about the result family (Results and the modules it composes): the  *)
(* rows shown are those of the query and order the state names, an answer that *)
(* comes late changes nothing, and what is offered has its family behind it.   *)
(***************************************************************************)
EXTENDS Results, FiniteSetTheorems, TLAPS

-----------------------------------------------------------------------------
(* The types.                                                              *)

Errors  == {"none", "retry", "final"}
Views   == Queries \X ({0} \cup Sorts)
AnyView == {NoView} \cup Views

RowsShape ==
    [gen : Queries, rows : Nat, complete : BOOLEAN, loading : BOOLEAN, window : AnyView,
     revision : Nat, sort : {None} \cup Sorts, error : Errors]
ResultShape   == {NoResult} \cup RowsShape
SortingShape  == {NoSorting} \cup [id : Sorts, phase : SortPhases]
DownloadShape == {NoDownload} \cup [gen : 1..(MaxExports + 1), phase : DownloadPhases]

StateShape ==
    [phase : {"idle", "opening", "ready", "querying", "failed"}, result : ResultShape,
     current : BOOLEAN, sorting : SortingShape, download : DownloadShape]

ReadShape == [view : AnyView, rows : Nat, whole : BOOLEAN]
Over      == [at : {"no", "done"}]

RunningShape ==
    [at : {"cleanup", "closing", "start", "drop", "fetch", "read", "viewer", "fail"},
     prior : ResultShape, sort : {None} \cup Sorts, downloads : Nat, read : ReadShape]
RunShape == Over \cup RunningShape

DemandedShape ==
    [at : {"fetch", "read", "viewer", "cleanup"}, kind : {"more", "retry", "window"},
     gen : Queries, base : Queries, read : ReadShape, revision : Nat,
     sort : {None} \cup Sorts, error : Errors, downloads : Nat]
DemandShape == Over \cup DemandedShape

OrderingShape ==
    [at : {"cleanup", "demand", "drain", "create", "read", "unwind", "release"},
     kind : {"order", "restore"}, q : Nat, session : Nat, from : Nat, base : Queries,
     aborted : BOOLEAN, view : AnyView, read : ReadShape, demand : {None} \cup Demands,
     downloads : Nat, error : {"none", "abort", "error"}]
SortShape == Over \cup OrderingShape

Sinks == {"none", "open", "committing", "aborted", "committed", "disposed"}
ExportingShape ==
    [at : {"cleanup", "demand", "drain", "encode", "commit", "finish", "unwind"},
     gen : Queries, base : Queries, view : Views, revision : Nat, aborted : BOOLEAN,
     sink : Sinks, demand : {None} \cup Demands, error : {"none", "abort", "error"}]
ExportShape == [at : {"no"}] \cup [at : {"done"}, sink : Sinks] \cup ExportingShape

DbShape ==
    [at : {"none", "open", "closing", "closed", "cancelled"}, rows : Nat, whole : BOOLEAN,
     fetches : {"open", "retry", "terminal"}]
CloseShape ==
    [by : {"run", "fail", "demand", "stop"} \X Nat, view : AnyView, base : {None} \cup Queries,
     at : {"view", "nothing", "base"}]

Typed ==
    /\ state \in StateShape
    /\ storeGen \in Nat /\ disposed \in BOOLEAN
    /\ queryGen \in 0..MaxQueries /\ base \in {None} \cup Queries /\ view \in AnyView
    /\ viewer \in {None} \cup Queries
    /\ demand \in {None} \cup Demands /\ suspendedBy \in {None} \cup Exports
    /\ run \in [Queries -> RunShape] /\ dem \in [Demands -> DemandShape]
    /\ closes \subseteq CloseShape
    /\ activeSort \in {None} \cup Sorts /\ srt \in [Sorts -> SortShape]
    /\ {exportGen, activeExport, retained} \subseteq {None} \cup Exports
    /\ exp \in [Exports -> ExportShape]
    /\ db \in [Queries -> DbShape]

\* A view on display is of the base.
ViewOfBase ==
    /\ base = None => view = NoView
    /\ base # None => view[1] = base
    /\ \A s \in Sorts : srt[s].at = "read" => srt[s].view[1] = srt[s].base

SortLive(s)   == srt[s].at \notin {"no", "done"}
ExportLive(e) == exp[e].at \notin {"no", "done"}

\* The active sort and download are under way, and a file retained is whole.
HeldIsLive ==
    /\ activeSort # None => SortLive(activeSort) /\ srt[activeSort].at # "release"
    /\ activeExport # None => ExportLive(activeExport)
    /\ retained # None => exp[retained] = [at |-> "done", sink |-> "committed"]

-----------------------------------------------------------------------------
(* What relates the family to the generations.                             *)

HasResult == state.result # NoResult
RunOver(q) == run[q].at \in {"no", "done"}

\* Queries run once, those of passed generations only; a result is of one that ended, and
\* no result is current while a query runs.
RunsInOrder ==
    /\ \A q \in Queries : run[q].at # "no" => q <= queryGen
    /\ HasResult => run[state.result.gen].at = "done"
    /\ queryGen # 0 /\ ~RunOver(queryGen) => ~state.current

\* The base is of no later generation than the query's; a result that is current has its own.
BaseInOrder ==
    /\ base # None => base <= queryGen
    /\ HasResult /\ state.result.gen = queryGen => base \in {None, queryGen}
    /\ state.current => HasResult
    /\ state.current /\ queryGen # 0 /\ base = queryGen => state.result.gen = queryGen
    /\ state.current /\ state.result.gen = queryGen => base = queryGen
    /\ \A q \in Queries : run[q].at \in {"fetch", "read", "viewer"} /\ base = q => view = Base(q)

-----------------------------------------------------------------------------
(* Sorts.                                                                  *)

SortsInOrder ==
    /\ \A r, s \in Sorts : r < s /\ srt[s].at # "no" => srt[r].at # "no"
    /\ activeSort # None => \A s \in Sorts : s > activeSort => srt[s].at = "no"
    /\ state.sorting # NoSorting => srt[state.sorting.id].at # "no"
    /\ \A s \in Sorts : SortLive(s) =>
         /\ srt[s].base <= srt[s].q /\ srt[s].q <= queryGen
         /\ srt[s].base = queryGen => run[queryGen].at = "done"

\* The request the state shows is the active one, of the order on display.
SortIsShown ==
    activeSort # None /\ srt[activeSort].base = queryGen /\ state.current =>
      /\ state.sorting.id = activeSort /\ IsSorting(state)
      /\ state.result.revision = srt[activeSort].from

SortedView(s) == <<srt[s].base, s>>

SortReads ==
    \A s \in Sorts :
      /\ srt[s].at \in {"cleanup", "demand", "drain", "create"} => srt[s].view = NoView
      /\ srt[s].at \in {"drain", "create"} => srt[s].kind = "order"
      /\ srt[s].at = "read" =>
           /\ srt[s].read.view = srt[s].view
           /\ srt[s].view = IF srt[s].kind = "order" THEN SortedView(s) ELSE Base(srt[s].base)
      /\ srt[s].at = "unwind" => srt[s].view \in {NoView, SortedView(s), Base(srt[s].base)}

-----------------------------------------------------------------------------
(* Demands.                                                                *)

DemandLive(d) == dem[d].at \notin {"no", "done"}
DemandBusy(d) == dem[d].at \in {"fetch", "read", "viewer"}

\* A demand is of a query that ended, and of the order its revision had.
DemandsInOrder ==
    \A d \in Demands : DemandLive(d) =>
         /\ run[dem[d].gen].at = "done"
         /\ HasResult /\ dem[d].gen = state.result.gen =>
              /\ dem[d].revision <= state.result.revision
              /\ dem[d].revision = state.result.revision => dem[d].sort = state.result.sort

RowsMatchOrder ==
    state.current =>
      /\ state.result.window = <<state.result.gen, state.result.sort>>
      /\ base = state.result.gen => view = state.result.window

-----------------------------------------------------------------------------
(* What is offered.                                                        *)

\* The base is open, and there is none while one closes.
BaseIsOpen ==
    /\ base # None => db[base].at = "open"
    /\ closes # {} => base = None

\* The sort whose order is on display has been adopted; a view let go of is another's.
ViewsAreKept ==
    /\ view[2] # 0 => view \in views /\ srt[view[2]].at \in {"release", "done"}
    /\ \A s \in Sorts : srt[s].at = "release" /\ srt[s].view[2] # 0 =>
         srt[s].view # view /\ srt[srt[s].view[2]].at \in {"release", "done"}

FilesAreKept ==
    /\ state.download.phase = "ready-to-save" => retained = state.download.gen
    /\ exportGen # None /\ state.download # NoDownload => state.download.gen = exportGen

-----------------------------------------------------------------------------
(* The events of the reducer: what each keeps, and what it changes.           *)

\* The rows, their order and their standing are those of st; only the download differs.
SameRows(st, n) ==
    /\ n.result = st.result /\ n.current = st.current
    /\ n.sorting = st.sorting /\ n.phase = st.phase

\* A download event replaces the download or nothing.
LEMMA DownloadEvents ==
    ASSUME NEW st \in StateShape, NEW g \in Nat, NEW d \in DownloadShape
    PROVE  /\ DownloadUpdated(st, g, d) \in StateShape
           /\ SameRows(st, DownloadUpdated(st, g, d))
           /\ DownloadUpdated(st, g, d).download \in {st.download, d}
  BY DEF DownloadUpdated, StateShape, SameRows

\* The download leaves the state whatever it was.
LEMMA DownloadLeaves ==
    ASSUME NEW st \in StateShape
    PROVE  /\ WithoutDownload(st) \in StateShape
           /\ SameRows(st, WithoutDownload(st))
           /\ WithoutDownload(st).download = NoDownload
  BY DEF WithoutDownload, DownloadUpdated, StateShape, SameRows, NoDownload, DownloadShape

LEMMA PhaseEvents ==
    ASSUME NEW st \in StateShape
    PROVE  /\ Opening(st) \in StateShape /\ Ready(st) \in StateShape /\ Failed(st) \in StateShape
           /\ Cancelled(st) \in StateShape /\ QueryStarted(st) \in StateShape
           /\ QueryFailed(st) \in StateShape /\ InitialState \in StateShape
<1>1. InitialState \in StateShape
  BY DEF InitialState, StateShape, ResultShape, SortingShape, DownloadShape
<1>2. Opening(st) \in StateShape
  BY DEF Opening, InitialState, StateShape, ResultShape, SortingShape, DownloadShape
<1>3. Ready(st) \in StateShape /\ QueryStarted(st) \in StateShape /\ QueryFailed(st) \in StateShape
  BY DEF Ready, QueryStarted, QueryFailed, StateShape, SortingShape
<1>4. Failed(st) \in StateShape
  BY DEF Failed, StateShape, SortingShape, ResultShape
<1>5. Cancelled(st) \in StateShape
  BY <1>1 DEF Cancelled, StateShape, SortingShape
<1>6. QED
  BY <1>1, <1>2, <1>3, <1>4, <1>5

\* An error, or a demand's note that it loads, changes nothing else of the result.
LEMMA NoteEvents ==
    ASSUME NEW st \in StateShape, NEW e \in Errors
    PROVE  /\ PageFailed(st, e) \in StateShape
           /\ st.result # NoResult => Loading(st) \in StateShape
<1>1. ASSUME st.result # NoResult
      PROVE  /\ [st EXCEPT !.result.loading = FALSE, !.result.error = e] \in StateShape
             /\ [st EXCEPT !.result.loading = TRUE, !.result.error = "none"] \in StateShape
  BY <1>1 DEF StateShape, ResultShape, RowsShape, Errors
<1>2. QED
  BY <1>1 DEF PageFailed, Loading

LEMMA UnavailableEvent ==
    ASSUME NEW st \in StateShape, NEW q
    PROVE  Unavailable(st, q) \in StateShape
  BY DEF Unavailable, StateShape, SortingShape

LEMMA SortEvents ==
    ASSUME NEW st \in StateShape, NEW q, NEW from, NEW s \in Sorts, NEW phase \in SortPhases
    PROVE  /\ SortUpdated(st, q, from, [id |-> s, phase |-> phase]) \in StateShape
           /\ SortEnded(st, q, s) \in StateShape
  BY DEF SortUpdated, SortEnded, StateShape, SortingShape

LEMMA ResultEvents ==
    ASSUME NEW st \in StateShape, NEW r \in RowsShape, NEW q, NEW id, NEW from
    PROVE  /\ QuerySucceeded(st, r) \in StateShape
           /\ WindowUpdated(st, r) \in StateShape
           /\ OrderCommitted(st, q, id, from, r) \in StateShape
<1>1. [r EXCEPT !.revision = 0, !.sort = None] \in RowsShape /\ [r EXCEPT !.error = "none"] \in RowsShape
  BY DEF RowsShape, Errors, None
<1>2. QuerySucceeded(st, r) \in StateShape
  BY <1>1 DEF QuerySucceeded, StateShape, ResultShape, SortingShape
<1>3. WindowUpdated(st, r) \in StateShape
  BY DEF WindowUpdated, StateShape, ResultShape
<1>4. OrderCommitted(st, q, id, from, r) \in StateShape
  BY <1>1 DEF OrderCommitted, StateShape, ResultShape, SortingShape
<1>5. QED
  BY <1>2, <1>3, <1>4

-----------------------------------------------------------------------------
(* The types hold.                                                         *)

Shapes == Typed /\ ViewOfBase /\ HeldIsLive

Assumptions == FamilyAssumption /\ ViewerAssumption /\ CallsAssumption

\* The turn that begins a close empties the family.
LEMMA CloseShapes ==
    ASSUME Shapes, NEW by \in {"run", "fail", "demand", "stop"} \X Nat, Close(by, state, queryGen)
    PROVE  /\ state' \in StateShape /\ closes' \subseteq CloseShape
           /\ base' = None /\ view' = NoView /\ viewer' = None
           /\ db' \in [Queries -> DbShape]
<1>1. state' \in StateShape
  BY UnavailableEvent DEF Close, Shapes, Typed
<1>2. closes' \subseteq CloseShape
  BY DEF Close, Shapes, Typed, CloseShape
<1>3. db' \in [Queries -> DbShape]
  <2>0. db \in [Queries -> DbShape]
    BY DEF Shapes, Typed
  <2>1. CASE base # None
    BY <2>0, <2>1 DEF Close, CloseSession, DbShape
  <2>2. CASE base = None
    <3>1. \A q \in Queries : [db[q] EXCEPT !.at = "cancelled"] \in DbShape
                               /\ [db[q] EXCEPT !.at = "closing"] \in DbShape
      BY <2>0 DEF DbShape
    <3>2. QED
      BY <2>0, <2>2, <3>1 DEF Close, CancelQuery
  <2>3. QED
    BY <2>1, <2>2
<1>4. QED
  BY <1>1, <1>2, <1>3 DEF Close

LEMMA FetchShapes ==
    ASSUME Assumptions, Shapes, NEW q \in Queries, NEW e, FetchOk(q) \/ RetryOk(q) \/ FetchFails(q, e)
    PROVE  db' \in [Queries -> DbShape]
<1>0. db \in [Queries -> DbShape]
  BY DEF Shapes, Typed
<1>1. CASE FetchOk(q)
  <2>1. PICK n \in {0, 1}, w \in BOOLEAN : db' = [db EXCEPT ![q].rows = @ + n, ![q].whole = w]
    BY <1>1 DEF FetchOk
  <2>2. db[q].rows + n \in Nat
    BY <1>0 DEF DbShape
  <2>3. QED
    BY <1>0, <2>1, <2>2 DEF DbShape
<1>2. CASE RetryOk(q)
  <2>1. PICK w \in BOOLEAN :
          db' = [db EXCEPT ![q].rows = @ + 1, ![q].whole = w, ![q].fetches = "open"]
    BY <1>2 DEF RetryOk
  <2>2. db[q].rows + 1 \in Nat
    BY <1>0 DEF DbShape
  <2>3. [db[q] EXCEPT !.rows = @ + 1, !.whole = w, !.fetches = "open"] \in DbShape
    BY <1>0, <2>2 DEF DbShape
  <2>4. QED
    BY <1>0, <2>1, <2>3
<1>3. CASE FetchFails(q, e)
  BY <1>3 DEF FetchFails, Shapes, Typed, DbShape
<1>4. QED
  BY <1>1, <1>2, <1>3

\* A reading of a view is of the rows its session has stored.
LEMMA ReadingShape ==
    ASSUME NEW v \in Views, NEW d \in [Queries -> DbShape]
    PROVE  /\ Reading(v, d) \in ReadShape
           /\ Reading(v, d).view = v
           /\ Reading(v, d).whole = d[v[1]].whole
           /\ Reading(v, d).rows = d[v[1]].rows
  BY DEF Reading, ReadShape, Views, DbShape, AnyView

\* The counts refreshed are those of the session.
LEMMA CountsShape ==
    ASSUME NEW st \in StateShape, NEW q, NEW revision, NEW d \in [Queries -> DbShape]
    PROVE  RefreshCounts(st, q, revision, d) \in StateShape
<1>1. CASE Shows(st, q)
  <2>1. st.result \in RowsShape /\ q \in Queries
    BY <1>1 DEF Shows, StateShape, ResultShape, RowsShape
  <2>2. d[q].rows \in Nat /\ d[q].whole \in BOOLEAN
    BY <2>1 DEF DbShape
  <2>3. [st.result EXCEPT !.rows = d[q].rows, !.complete = d[q].whole, !.loading = FALSE] \in RowsShape
    BY <2>1, <2>2 DEF RowsShape
  <2>4. QED
    BY <2>3, ResultEvents DEF RefreshCounts
<1>2. CASE ~Shows(st, q)
  BY <1>2 DEF RefreshCounts
<1>3. QED
  BY <1>1, <1>2

LEMMA RunUpdates ==
    ASSUME NEW q \in Queries, run \in [Queries -> RunShape], run[q].at \notin {"no", "done"}
    PROVE  /\ \A w \in {"cleanup", "closing", "start", "drop", "fetch", "read", "viewer", "fail"} :
                RunGoes(q, w) => run' \in [Queries -> RunShape]
           /\ RunEnds(q) => run' \in [Queries -> RunShape]
           /\ \A r \in ReadShape :
                [run EXCEPT ![q].at = "read", ![q].read = r] \in [Queries -> RunShape]
<1>1. run[q] \in RunningShape
  BY DEF RunShape, Over
<1>2. \A w \in {"cleanup", "closing", "start", "drop", "fetch", "read", "viewer", "fail"} :
        [run[q] EXCEPT !.at = w] \in RunningShape
  BY <1>1 DEF RunningShape
<1>3. \A r \in ReadShape : [run[q] EXCEPT !.at = "read", !.read = r] \in RunningShape
  BY <1>1 DEF RunningShape
<1>4. [at |-> "done"] \in Over
  BY DEF Over
<1>5. QED
  BY <1>2, <1>3, <1>4 DEF RunGoes, RunEnds, RunShape

\* A step of a query's execute().
LEMMA RunShapes ==
    ASSUME Assumptions, Shapes, NEW q \in Queries, RunStep(q)
    PROVE  Shapes'
<1> USE DEF SessionRest, sorterVars, exportVars, dbVars, sessionVars, storeVars
<1>a. run \in [Queries -> RunShape] /\ state \in StateShape /\ db \in [Queries -> DbShape]
  BY DEF Shapes, Typed
<1>b. q \in Nat
  BY DEF Queries
<1>1. CASE RunCleaned(q)
  <2>1. <<"run", q>> \in {"run", "fail", "demand", "stop"} \X Nat
    BY <1>b
  <2>2. run' \in [Queries -> RunShape]
    BY <1>1, <1>a, RunUpdates DEF RunCleaned
  <2>3. QED
    BY <1>1, <2>1, <2>2, CloseShapes DEF RunCleaned, Shapes, Typed, ViewOfBase, HeldIsLive, SortLive,
      ExportLive, AnyView
<1>2. CASE RunClosed(q)
  <2>1. state' \in StateShape
    BY <1>2, <1>a, NoteEvents DEF RunClosed, Errors
  <2>2. run' \in [Queries -> RunShape]
    BY <1>2, <1>a, RunUpdates DEF RunClosed
  <2>3. QED
    BY <1>2, <2>1, <2>2 DEF RunClosed, Shapes, Typed, ViewOfBase, HeldIsLive, SortLive, ExportLive
<1>3. CASE StartOk(q)
  <2>1. run' \in [Queries -> RunShape]
    BY <1>3, <1>a, RunUpdates DEF StartOk
  <2>2. db' \in [Queries -> DbShape]
    BY <1>3, <1>a DEF StartOk, DbShape
  <2>3. QED
    BY <1>3, <1>b, <2>1, <2>2 DEF StartOk, Shapes, Typed, ViewOfBase, HeldIsLive, SortLive, ExportLive,
      AnyView, Views, Base, None, Queries
<1>4. CASE StartFails(q) \/ RunFetchFails(q) \/ RunReadFails(q)
  <2>1. run[q].at \notin {"no", "done"} /\ RunThrows(q)
    BY <1>4 DEF StartFails, RunFetchFails, RunReadFails
  <2>2. run' \in [Queries -> RunShape]
    BY <1>a, <2>1, RunUpdates DEF RunThrows
  <2>3. CASE IsCurrentQuery(q)
    <3>1. <<"fail", q>> \in {"run", "fail", "demand", "stop"} \X Nat
      BY <1>b
    <3>2. QED
      BY <2>1, <2>2, <2>3, <3>1, CloseShapes DEF RunThrows, Shapes, Typed, ViewOfBase, HeldIsLive,
        SortLive, ExportLive, AnyView
  <2>4. CASE ~IsCurrentQuery(q)
    BY <2>1, <2>2, <2>4 DEF RunThrows, Shapes, Typed, ViewOfBase, HeldIsLive, SortLive, ExportLive
  <2>5. QED
    BY <2>3, <2>4
<1>5. CASE RunDropped(q)
  <2>1. run' \in [Queries -> RunShape]
    BY <1>5, <1>a, RunUpdates DEF RunDropped
  <2>2. QED
    BY <1>5, <2>1 DEF RunDropped, Shapes, Typed, ViewOfBase, HeldIsLive, SortLive, ExportLive
<1>6. CASE RunFetched(q)
  <2>1. db' \in [Queries -> DbShape]
    BY <1>6, FetchShapes DEF RunFetched
  <2>2. base = q => view \in Views
    BY DEF Shapes, Typed, ViewOfBase, AnyView, NoView, Queries, None
  <2>3. base = q => Reading(view, db') \in ReadShape
    BY <2>1, <2>2, ReadingShape
  <2>4. [run EXCEPT ![q] = [at |-> "done"]] \in [Queries -> RunShape]
    BY <1>a DEF RunShape, Over
  <2>5. run' \in [Queries -> RunShape]
    BY <1>6, <1>a, <2>3, <2>4, RunUpdates DEF RunFetched
  <2>6. QED
    BY <1>6, <2>1, <2>5 DEF RunFetched, Shapes, Typed, ViewOfBase, HeldIsLive, SortLive, ExportLive
<1>7. ASSUME Succeeds(q), run[q].at \in {"read", "viewer"}
      PROVE  state' \in StateShape /\ run' \in [Queries -> RunShape]
  <2>1. run' \in [Queries -> RunShape]
    BY <1>7, <1>a, RunUpdates DEF Succeeds
  <2>2. run[q].read \in ReadShape
    BY <1>7, <1>a DEF RunShape, Over, RunningShape
  <2>3. Paged(q, run[q].read, 0, None, "none") \in RowsShape
    BY <2>2 DEF Paged, RowsShape, ReadShape, Errors
  <2>4. QED
    BY <1>7, <1>a, <2>1, <2>3, ResultEvents DEF Succeeds
<1>8. CASE RunRead(q)
  <2>1. state' \in StateShape /\ run' \in [Queries -> RunShape]
    BY <1>7, <1>8, <1>a, RunUpdates DEF RunRead
  <2>2. QED
    BY <1>8, <2>1 DEF RunRead, Shapes, Typed, ViewOfBase, HeldIsLive, SortLive, ExportLive
<1>9. CASE RunViewer(q)
  <2>1. state' \in StateShape /\ run' \in [Queries -> RunShape]
    BY <1>7, <1>9 DEF RunViewer
  <2>2. QED
    BY <1>9, <2>1 DEF RunViewer, Shapes, Typed, ViewOfBase, HeldIsLive, SortLive, ExportLive
<1>10. CASE RunFailed(q)
  <2>1. state' \in StateShape /\ run' \in [Queries -> RunShape]
    BY <1>10, <1>a, RunUpdates, PhaseEvents DEF RunFailed
  <2>2. QED
    BY <1>10, <2>1 DEF RunFailed, Shapes, Typed, ViewOfBase, HeldIsLive, SortLive, ExportLive
<1>11. QED
  BY <1>1, <1>2, <1>3, <1>4, <1>5, <1>6, <1>8, <1>9, <1>10 DEF RunStep

LEMMA DemandUpdates ==
    ASSUME NEW d \in Demands, dem \in [Demands -> DemandShape], dem[d].at \notin {"no", "done"}
    PROVE  /\ dem[d] \in DemandedShape
           /\ [dem EXCEPT ![d] = [at |-> "done"]] \in [Demands -> DemandShape]
           /\ [dem EXCEPT ![d].at = "viewer"] \in [Demands -> DemandShape]
           /\ \A n \in Nat : [dem EXCEPT ![d].at = "cleanup", ![d].downloads = n] \in [Demands -> DemandShape]
           /\ \A r \in ReadShape, n \in Nat, s \in {None} \cup Sorts, e \in Errors :
                [dem EXCEPT ![d].at = "read", ![d].read = r, ![d].revision = n,
                            ![d].sort = s, ![d].error = e] \in [Demands -> DemandShape]
<1>1. dem[d] \in DemandedShape
  BY DEF DemandShape, Over
<1>2. [dem[d] EXCEPT !.at = "viewer"] \in DemandedShape
      /\ \A n \in Nat : [dem[d] EXCEPT !.at = "cleanup", !.downloads = n] \in DemandedShape
  BY <1>1 DEF DemandedShape
<1>3. \A r \in ReadShape, n \in Nat, s \in {None} \cup Sorts, e \in Errors :
        [dem[d] EXCEPT !.at = "read", !.read = r, !.revision = n, !.sort = s, !.error = e] \in DemandedShape
  BY <1>1 DEF DemandedShape
<1>4. [at |-> "done"] \in Over
  BY DEF Over
<1>5. [dem EXCEPT ![d] = [at |-> "done"]] \in [Demands -> DemandShape]
  BY <1>4 DEF DemandShape
<1>6. [dem EXCEPT ![d].at = "viewer"] \in [Demands -> DemandShape]
  BY <1>2 DEF DemandShape
<1>7. \A n \in Nat : [dem EXCEPT ![d].at = "cleanup", ![d].downloads = n] \in [Demands -> DemandShape]
  BY <1>2 DEF DemandShape
<1>8. ASSUME NEW r \in ReadShape, NEW n \in Nat, NEW s \in {None} \cup Sorts, NEW e \in Errors
      PROVE  [dem EXCEPT ![d].at = "read", ![d].read = r, ![d].revision = n,
                         ![d].sort = s, ![d].error = e] \in [Demands -> DemandShape]
  <2>1. [dem[d] EXCEPT !.at = "read", !.read = r, !.revision = n, !.sort = s, !.error = e] \in DemandShape
    BY <1>3 DEF DemandShape
  <2>2. [dem EXCEPT ![d].at = "read", ![d].read = r, ![d].revision = n, ![d].sort = s, ![d].error = e]
          = [dem EXCEPT ![d] = [dem[d] EXCEPT !.at = "read", !.read = r, !.revision = n, !.sort = s, !.error = e]]
    OBVIOUS
  <2>3. QED
    BY <2>1, <2>2
<1>9. QED
  BY <1>1, <1>5, <1>6, <1>7, <1>8

\* What the state and the family give a demand is well shaped.
LEMMA DemandedShapes ==
    ASSUME Shapes, base # None, HasResult
    PROVE  /\ state.result \in RowsShape /\ state.result.gen \in Queries
           /\ state.result.revision \in Nat /\ state.result.sort \in {None} \cup Sorts
           /\ state.result.error \in Errors
           /\ base \in Queries /\ view \in Views
           /\ \A d \in [Queries -> DbShape] : Reading(view, d) \in ReadShape
<1>1. state.result \in RowsShape
  BY DEF Shapes, Typed, StateShape, ResultShape, HasResult
<1>2. base \in Queries /\ view \in Views
  BY DEF Shapes, Typed, ViewOfBase, AnyView, NoView, None
<1>3. QED
  BY <1>1, <1>2, ReadingShape DEF RowsShape

LEMMA LastExportShape ==
    ASSUME Assumptions
    PROVE  LastExport \in Nat
<1>1. IsFiniteSet(Exports)
  BY FS_Interval DEF Exports, Assumptions, FamilyAssumption
<1>3. IsFiniteSet({e \in Exports : exp[e].at # "no"})
  BY <1>1, FS_Subset
<1>2. QED
  BY <1>3, FS_CardinalityType DEF LastExport

\* Detaching the downloads keeps their shape.
LEMMA DetachShapes ==
    ASSUME Shapes, Detach
    PROVE  activeExport' = None /\ retained' = None /\ exp' \in [Exports -> ExportShape]
<1>1. \A e \in Exports : exp[e] \in ExportShape
  BY DEF Shapes, Typed
<1>2. ASSUME NEW e \in Exports, e = activeExport
      PROVE  [exp[e] EXCEPT !.aborted = TRUE, !.sink = AbortSink(@)] \in ExportShape
  <2>1. exp[e] \in ExportingShape
    BY <1>1, <1>2 DEF ExportShape, Shapes, HeldIsLive, ExportLive, Exports, None
  <2>2. AbortSink(exp[e].sink) \in Sinks
    BY <2>1 DEF AbortSink, Sinks, ExportingShape
  <2>3. QED
    BY <2>1, <2>2 DEF ExportShape, ExportingShape
<1>3. ASSUME NEW e \in Exports, e = retained
      PROVE  [exp[e] EXCEPT !.sink = "disposed"] \in ExportShape
  <2>1. exp[e] = [at |-> "done", sink |-> "committed"]
    BY <1>3 DEF Shapes, HeldIsLive, Exports, None
  <2>2. QED
    BY <2>1 DEF ExportShape, Sinks
<1>4. QED
  BY <1>1, <1>2, <1>3 DEF Detach

\* A step of a page demand, its call included.
LEMMA DemandShapes ==
    ASSUME Assumptions, Shapes, NEW d \in Demands, Demand(d) \/ DemandStep(d)
    PROVE  Shapes'
<1> USE DEF SessionRest, sorterVars, exportVars, dbVars, sessionVars, storeVars
<1>a. /\ dem \in [Demands -> DemandShape] /\ state \in StateShape /\ db \in [Queries -> DbShape]
      /\ demand \in {None} \cup Demands
  BY DEF Shapes, Typed
<1>b. (Demanded(d, "more", "fetch") \/ Demanded(d, "retry", "fetch") \/ Demanded(d, "window", "read"))
         /\ base # None /\ HasResult
      => dem' \in [Demands -> DemandShape] /\ demand' = d
  <2>1. SUFFICES ASSUME NEW kind \in {"more", "retry", "window"}, NEW at \in {"fetch", "read"},
                        Demanded(d, kind, at), base # None, HasResult
                 PROVE  dem' \in [Demands -> DemandShape] /\ demand' = d
    OBVIOUS
  <2>2. Reading(view, db) \in ReadShape
    BY <1>a, <2>1, DemandedShapes
  <2>3. [at |-> at, kind |-> kind, gen |-> state.result.gen, base |-> base,
         read |-> Reading(view, db), revision |-> state.result.revision,
         sort |-> state.result.sort, error |-> state.result.error, downloads |-> 0] \in DemandedShape
    BY <2>1, <2>2, DemandedShapes DEF DemandedShape
  <2>4. QED
    BY <1>a, <2>1, <2>3 DEF Demanded, DemandShape
<1>1. CASE LoadMore(d) \/ RetryPage(d)
  <2>1. MayDemand(d) /\ state' = Loading(state)
    BY <1>1 DEF LoadMore, RetryPage
  <2>2. state' \in StateShape /\ base # None /\ HasResult
    BY <1>a, <2>1, NoteEvents DEF MayDemand, HasResult, Errors
  <2>3. dem' \in [Demands -> DemandShape] /\ demand' = d
    BY <1>1, <1>b, <2>2 DEF LoadMore, RetryPage
  <2>4. QED
    BY <1>1, <2>2, <2>3 DEF LoadMore, RetryPage, Shapes, Typed, ViewOfBase, HeldIsLive, SortLive, ExportLive
<1>2. CASE LoadWindow(d)
  <2>1. base # None /\ HasResult
    BY <1>2 DEF LoadWindow, MayDemand, HasResult
  <2>2. dem' \in [Demands -> DemandShape] /\ demand' = d
    BY <1>2, <1>b, <2>1 DEF LoadWindow
  <2>3. QED
    BY <1>2, <2>2 DEF LoadWindow, Shapes, Typed, ViewOfBase, HeldIsLive, SortLive, ExportLive
<1>c. dem[d].at \in {"fetch", "read", "viewer", "cleanup"} => dem[d] \in DemandedShape
  BY <1>a, DemandUpdates
<1>d. ASSUME dem[d].at \in {"fetch", "read", "viewer", "cleanup"}, DemandEnds(d)
      PROVE  dem' \in [Demands -> DemandShape] /\ demand' \in {None} \cup Demands
  <2>1. [dem EXCEPT ![d] = [at |-> "done"]] \in [Demands -> DemandShape]
    BY <1>a, <1>d, DemandUpdates
  <2>2. QED
    BY <1>a, <1>d, <2>1 DEF DemandEnds
<1>e. ASSUME dem[d].at \in {"read", "viewer"}, DemandPublishes(d)
      PROVE  state' \in StateShape /\ dem' \in [Demands -> DemandShape] /\ demand' \in {None} \cup Demands
  <2>1. Paged(dem[d].gen, dem[d].read, dem[d].revision, dem[d].sort, dem[d].error) \in RowsShape
    BY <1>c, <1>e DEF DemandedShape, Paged, RowsShape, ReadShape
  <2>2. QED
    BY <1>a, <1>d, <1>e, <2>1, ResultEvents DEF DemandPublishes
<1>3. CASE DemandFetched(d)
  <2>1. dem[d].base \in Queries
    BY <1>3, <1>c DEF DemandFetched, DemandedShape
  <2>2. db' \in [Queries -> DbShape]
    BY <1>3, <2>1, FetchShapes DEF DemandFetched
  <2>3. DemandActive(d) => base # None /\ HasResult
    BY <2>1 DEF DemandActive, IsActiveResult, Shows, HasResult, Queries, None
  <2>4. dem' \in [Demands -> DemandShape] /\ demand' \in {None} \cup Demands
    <3>1. CASE DemandActive(d)
      <4>1. Reading(view, db') \in ReadShape
        BY <2>2, <2>3, <3>1, DemandedShapes
      <4>2. /\ state.result.revision \in Nat /\ state.result.sort \in {None} \cup Sorts
            /\ state.result.error \in Errors
        BY <2>3, <3>1, DemandedShapes
      <4>3. dem[d].at \notin {"no", "done"}
        BY <1>3 DEF DemandFetched
      <4>4. [dem EXCEPT ![d].at = "read", ![d].read = Reading(view, db'),
                        ![d].revision = state.result.revision, ![d].sort = state.result.sort,
                        ![d].error = state.result.error] \in [Demands -> DemandShape]
        BY <1>a, <4>1, <4>2, <4>3, DemandUpdates
      <4>5. QED
        BY <1>3, <1>a, <3>1, <4>4 DEF DemandFetched
    <3>2. CASE ~DemandActive(d)
      BY <1>3, <1>d, <3>2 DEF DemandFetched
    <3>3. QED
      BY <3>1, <3>2
  <2>5. QED
    BY <1>3, <2>2, <2>4 DEF DemandFetched, Shapes, Typed, ViewOfBase, HeldIsLive, SortLive, ExportLive
<1>4. CASE DemandFetchFails(d)
  <2>1. dem[d].base \in Queries
    BY <1>4, <1>c DEF DemandFetchFails, DemandedShape
  <2>2. db' \in [Queries -> DbShape]
    BY <1>4, <2>1, FetchShapes DEF DemandFetchFails
  <2>3. state' \in StateShape
    BY <1>4, <1>a, NoteEvents DEF DemandFetchFails, Errors
  <2>4. QED
    BY <1>4, <1>d, <2>2, <2>3
       DEF DemandFetchFails, Shapes, Typed, ViewOfBase, HeldIsLive, SortLive, ExportLive
<1>5. CASE DemandRead(d)
  <2>1. state' \in StateShape /\ dem' \in [Demands -> DemandShape] /\ demand' \in {None} \cup Demands
    <3>a. dem[d].at \in {"fetch", "read", "viewer", "cleanup"} /\ dem[d].at \in {"read", "viewer"}
      BY <1>5 DEF DemandRead
    <3>1. CASE DemandPublishes(d) \/ (DemandEnds(d) /\ state' = state)
      <4>1. dem' \in [Demands -> DemandShape] /\ demand' \in {None} \cup Demands
        BY <1>d, <3>a, <3>1 DEF DemandPublishes
      <4>2. state' \in StateShape
        BY <1>a, <1>e, <3>a, <3>1
      <4>3. QED
        BY <4>1, <4>2
    <3>2. CASE dem' = [dem EXCEPT ![d].at = "viewer"] /\ UNCHANGED <<state, demand>>
      BY <1>5, <1>a, <3>2, DemandUpdates DEF DemandRead
    <3>3. QED
      BY <1>5, <3>1, <3>2 DEF DemandRead
  <2>2. QED
    BY <1>5, <2>1 DEF DemandRead, Shapes, Typed, ViewOfBase, HeldIsLive, SortLive, ExportLive
<1>6. CASE DemandViewer(d)
  <2>1. state' \in StateShape /\ dem' \in [Demands -> DemandShape] /\ demand' \in {None} \cup Demands
    BY <1>6, <1>e DEF DemandViewer
  <2>2. viewer' \in {None} \cup Queries
    BY <1>6 DEF DemandViewer, Shapes, Typed
  <2>3. QED
    BY <1>6, <2>1, <2>2 DEF DemandViewer, Shapes, Typed, ViewOfBase, HeldIsLive, SortLive, ExportLive
<1>7. CASE DemandReadFails(d)
  <2>1. demand' \in {None} \cup Demands
    BY <1>7, <1>a DEF DemandReadFails
  <2>2. dem' \in [Demands -> DemandShape]
    <3>1. dem[d].at \notin {"no", "done"}
      BY <1>7 DEF DemandReadFails
    <3>2. /\ [dem EXCEPT ![d].at = "cleanup", ![d].downloads = LastExport] \in [Demands -> DemandShape]
          /\ [dem EXCEPT ![d] = [at |-> "done"]] \in [Demands -> DemandShape]
      BY <1>a, <3>1, DemandUpdates, LastExportShape
    <3>3. QED
      BY <1>7, <3>2 DEF DemandReadFails
  <2>3. CASE DemandActive(d)
    <3>1. PageFailed(state, "final") \in StateShape
      BY <1>a, NoteEvents DEF Errors
    <3>2. state' \in StateShape
      BY <1>7, <2>3, <3>1, DownloadLeaves DEF DemandReadFails
    <3>3. /\ activeExport' = None /\ retained' = None /\ exp' \in [Exports -> ExportShape]
          /\ exportGen' = None
      BY <1>7, <2>3, DetachShapes DEF DemandReadFails, SupersedeExport
    <3>4. QED
      BY <1>7, <2>1, <2>2, <3>2, <3>3
         DEF DemandReadFails, Shapes, Typed, ViewOfBase, HeldIsLive, SortLive, ExportLive
  <2>4. CASE ~DemandActive(d)
    BY <1>7, <2>1, <2>2, <2>4
       DEF DemandReadFails, Shapes, Typed, ViewOfBase, HeldIsLive, SortLive, ExportLive
  <2>5. QED
    BY <2>3, <2>4
<1>8. CASE DemandGivesUp(d)
  <2>1. dem' \in [Demands -> DemandShape]
    BY <1>8, <1>a, DemandUpdates DEF DemandGivesUp
  <2>2. CASE DemandActive(d)
    <3>1. <<"demand", d>> \in {"run", "fail", "demand", "stop"} \X Nat
      BY DEF Demands
    <3>2. QED
      BY <1>8, <2>1, <2>2, <3>1, CloseShapes
         DEF DemandGivesUp, Shapes, Typed, ViewOfBase, HeldIsLive, SortLive, ExportLive, AnyView
  <2>3. CASE ~DemandActive(d)
    BY <1>8, <2>1, <2>3 DEF DemandGivesUp, Shapes, Typed, ViewOfBase, HeldIsLive, SortLive, ExportLive
  <2>4. QED
    BY <2>2, <2>3
<1>9. QED
  BY <1>1, <1>2, <1>3, <1>4, <1>5, <1>6, <1>7, <1>8 DEF Demand, DemandStep

\* Sort s goes on as r: where it is, what it read and how it ended may differ.
LEMMA SortUpdates ==
    ASSUME NEW s \in Sorts, srt \in [Sorts -> SortShape], srt[s].at \notin {"no", "done"}
    PROVE  /\ srt[s] \in OrderingShape
           /\ [srt EXCEPT ![s] = [at |-> "done"]] \in [Sorts -> SortShape]
           /\ \A w \in {"cleanup", "demand", "drain", "create", "read", "unwind", "release"} :
                [srt EXCEPT ![s].at = w] \in [Sorts -> SortShape]
           /\ \A e \in {"none", "abort", "error"} :
                [srt EXCEPT ![s].at = "unwind", ![s].error = e] \in [Sorts -> SortShape]
           /\ \A d \in {None} \cup Demands :
                [srt EXCEPT ![s].at = "demand", ![s].demand = d] \in [Sorts -> SortShape]
           /\ \A v \in AnyView :
                [srt EXCEPT ![s].at = "release", ![s].view = v] \in [Sorts -> SortShape]
           /\ \A v \in AnyView, r \in ReadShape :
                [srt EXCEPT ![s].at = "read", ![s].view = v, ![s].read = r] \in [Sorts -> SortShape]
           /\ [srt EXCEPT ![s].aborted = TRUE] \in [Sorts -> SortShape]
<1>1. srt[s] \in OrderingShape
  BY DEF SortShape, Over
<1>2. [srt EXCEPT ![s] = [at |-> "done"]] \in [Sorts -> SortShape]
  BY DEF SortShape, Over
<1>3. \A w \in {"cleanup", "demand", "drain", "create", "read", "unwind", "release"} :
        [srt[s] EXCEPT !.at = w] \in OrderingShape
  BY <1>1 DEF OrderingShape
<1>4. \A w \in {"cleanup", "demand", "drain", "create", "read", "unwind", "release"} :
        [srt EXCEPT ![s].at = w] \in [Sorts -> SortShape]
  BY <1>3 DEF SortShape
<1>5. \A e \in {"none", "abort", "error"} :
        [srt EXCEPT ![s].at = "unwind", ![s].error = e] \in [Sorts -> SortShape]
  <2>1. \A e \in {"none", "abort", "error"} : [srt[s] EXCEPT !.at = "unwind", !.error = e] \in OrderingShape
    BY <1>1 DEF OrderingShape
  <2>2. QED
    BY <2>1 DEF SortShape
<1>6. \A d \in {None} \cup Demands : [srt EXCEPT ![s].at = "demand", ![s].demand = d] \in [Sorts -> SortShape]
  <2>1. \A d \in {None} \cup Demands : [srt[s] EXCEPT !.at = "demand", !.demand = d] \in OrderingShape
    BY <1>1 DEF OrderingShape
  <2>2. QED
    BY <2>1 DEF SortShape
<1>7. \A v \in AnyView : [srt EXCEPT ![s].at = "release", ![s].view = v] \in [Sorts -> SortShape]
  <2>1. \A v \in AnyView : [srt[s] EXCEPT !.at = "release", !.view = v] \in OrderingShape
    BY <1>1 DEF OrderingShape
  <2>2. QED
    BY <2>1 DEF SortShape
<1>8. ASSUME NEW v \in AnyView, NEW r \in ReadShape
      PROVE  [srt EXCEPT ![s].at = "read", ![s].view = v, ![s].read = r] \in [Sorts -> SortShape]
  <2>1. [srt[s] EXCEPT !.at = "read", !.view = v, !.read = r] \in SortShape
    BY <1>1 DEF OrderingShape, SortShape
  <2>2. [srt EXCEPT ![s].at = "read", ![s].view = v, ![s].read = r]
          = [srt EXCEPT ![s] = [srt[s] EXCEPT !.at = "read", !.view = v, !.read = r]]
    OBVIOUS
  <2>3. QED
    BY <2>1, <2>2
<1>9. [srt EXCEPT ![s].aborted = TRUE] \in [Sorts -> SortShape]
  <2>1. [srt[s] EXCEPT !.aborted = TRUE] \in OrderingShape
    BY <1>1 DEF OrderingShape
  <2>2. QED
    BY <2>1 DEF SortShape
<1>10. QED
  BY <1>1, <1>2, <1>4, <1>5, <1>6, <1>7, <1>8, <1>9

\* A step of a sort, its call and its cancel included.
LEMMA SortShapes ==
    ASSUME Assumptions, Shapes, NEW s \in Sorts, Sort(s) \/ SortStep(s)
    PROVE  Shapes'
<1> USE DEF SorterRest, sorterVars, exportVars, dbVars, sessionVars, storeVars
<1>a. /\ srt \in [Sorts -> SortShape] /\ state \in StateShape /\ db \in [Queries -> DbShape]
      /\ demand \in {None} \cup Demands /\ view \in AnyView /\ activeSort \in {None} \cup Sorts
  BY DEF Shapes, Typed
<1>b. srt[s].at \notin {"no", "done"} => srt[s] \in OrderingShape
  BY <1>a, SortUpdates
<1>c. \A st \in StateShape, phase \in SortPhases : Progress(st, s, phase) \in StateShape
  BY SortEvents DEF Progress
<1>d. IsCurrentSort(s) /\ srt[s].at \notin {"no", "done"} => base # None /\ base = srt[s].base /\ activeSort = s
  BY <1>b DEF IsCurrentSort, OrderingShape, Queries, None
<1>e. ASSUME srt[s].at \notin {"no", "done", "release"}, NEW error \in {"abort", "error"}, SortThrows(s, error)
      PROVE  srt' \in [Sorts -> SortShape] /\ srt' = [srt EXCEPT ![s] = srt'[s]] /\ srt'[s].at = "unwind"
  <2>1. srt' \in [Sorts -> SortShape]
    BY <1>a, <1>e, SortUpdates DEF SortThrows
  <2>2. srt[s] \in OrderingShape
    BY <1>b, <1>e
  <2>3. QED
    BY <1>a, <1>e, <2>1, <2>2 DEF SortThrows, OrderingShape
\* What is left of the types when only the sort moves, not to a read of its own.
<1>f. ASSUME srt' \in [Sorts -> SortShape], srt' = [srt EXCEPT ![s] = srt'[s]],
             srt'[s].at # "read", srt'[s].at \in {"no", "done", "release"} => activeSort' # s,
             activeSort' \in {None, activeSort, s},
             UNCHANGED <<base, view, exportVars>>
      PROVE  ViewOfBase' /\ HeldIsLive'
  BY <1>a, <1>f DEF Shapes, ViewOfBase, HeldIsLive, SortLive, ExportLive
<1>1. CASE Sort(s)
  <2>1. PICK kind \in {"order", "restore"} :
          /\ srt' = [srt EXCEPT ![s] =
              [at |-> "cleanup", kind |-> kind, q |-> queryGen, session |-> storeGen,
               from |-> state.result.revision, base |-> base, aborted |-> FALSE,
               view |-> NoView, read |-> Reading(view, db), demand |-> None,
               downloads |-> LastExport, error |-> "none"]]
          /\ state' = WithoutDownload(
              SortUpdated(state, queryGen, state.result.revision,
                          [id |-> s, phase |-> IF kind = "order" THEN "loading" ELSE "storing"]))
    BY <1>1 DEF Sort
  <2>2. HasResult /\ base # None
    BY <1>1 DEF Sort, HasResult
  <2>3. /\ queryGen \in Nat /\ storeGen \in Nat /\ state.result.revision \in Nat /\ base \in Queries
        /\ Reading(view, db) \in ReadShape /\ LastExport \in Nat
    BY <1>a, <2>2, DemandedShapes, LastExportShape DEF Shapes, Typed
  <2>4. srt'[s] \in OrderingShape /\ srt'[s].at = "cleanup"
    BY <1>a, <2>1, <2>3 DEF OrderingShape, AnyView
  <2>5. srt' \in [Sorts -> SortShape] /\ srt' = [srt EXCEPT ![s] = srt'[s]]
    BY <1>a, <2>1, <2>4 DEF SortShape
  <2>6. state' \in StateShape
    <3>1. SortUpdated(state, queryGen, state.result.revision,
            [id |-> s, phase |-> IF kind = "order" THEN "loading" ELSE "storing"]) \in StateShape
      BY <1>a, SortEvents DEF SortPhases
    <3>2. QED
      BY <2>1, <3>1, DownloadLeaves
  <2>7. /\ activeExport' = None /\ retained' = None /\ exp' \in [Exports -> ExportShape]
        /\ exportGen' = None /\ activeSort' = s
    BY <1>1, DetachShapes DEF Sort, SupersedeExport
  <2>8. UNCHANGED <<base, view, disposed, storeGen, queryGen, viewer, demand, suspendedBy, run, dem, closes, db>>
    BY <1>1 DEF Sort
  <2>9. ViewOfBase' /\ HeldIsLive'
    BY <1>a, <2>4, <2>5, <2>7, <2>8 DEF Shapes, ViewOfBase, HeldIsLive, SortLive, ExportLive
  <2>10. QED
    BY <2>5, <2>6, <2>7, <2>8, <2>9 DEF Shapes, Typed
<1>2. CASE SortCleaned(s) \/ SortCreateFails(s) \/ SortReadFails(s)
  <2>1. srt[s].at \notin {"no", "done", "release"}
    BY <1>2 DEF SortCleaned, SortCreateFails, SortReadFails
  <2>2. srt' \in [Sorts -> SortShape] /\ srt' = [srt EXCEPT ![s] = srt'[s]]
        /\ srt'[s].at \in {"demand", "unwind"}
    <3>1. CASE SortCleaned(s) /\ IsCurrentSort(s)
      <4>1. srt' \in [Sorts -> SortShape]
        <5>1. [srt EXCEPT ![s].at = "demand", ![s].demand = demand] \in [Sorts -> SortShape]
          BY <1>a, <2>1, SortUpdates
        <5>2. QED
          BY <3>1, <5>1 DEF SortCleaned
      <4>2. QED
        BY <1>a, <1>b, <2>1, <3>1, <4>1 DEF SortCleaned, OrderingShape
    <3>2. CASE ~(SortCleaned(s) /\ IsCurrentSort(s))
      BY <1>2, <1>e, <2>1, <3>2 DEF SortCleaned, SortCreateFails, SortReadFails
    <3>3. QED
      BY <3>1, <3>2
  <2>3. UNCHANGED <<SorterRest, state, view, activeSort, exportVars, dbVars>>
    BY <1>2 DEF SortCleaned, SortCreateFails, SortReadFails
  <2>4. QED
    BY <1>f, <2>2, <2>3 DEF Shapes, Typed
<1>3. CASE SortJoined(s)
  <2>1. srt[s].at \notin {"no", "done", "release"}
    BY <1>3 DEF SortJoined
  <2>2. CASE srt[s].kind = "restore" /\ IsCurrentSort(s) /\ state.result.error = "none"
    <3>1. srt' = [srt EXCEPT ![s].at = "read", ![s].view = Base(base), ![s].read = Reading(Base(base), db)]
      BY <1>3, <2>2 DEF SortJoined
    <3>2. Base(base) \in Views
      BY <1>d, <2>1, <2>2 DEF Base, Views, Shapes, Typed
    <3>3. srt' \in [Sorts -> SortShape]
      BY <1>a, <2>1, <3>1, <3>2, ReadingShape, SortUpdates DEF AnyView
    <3>4. srt' = [srt EXCEPT ![s] = srt'[s]] /\ srt'[s].at = "read" /\ srt'[s].view[1] = srt'[s].base
      BY <1>a, <1>b, <1>d, <2>1, <2>2, <3>1 DEF OrderingShape, Base
    <3>5. UNCHANGED <<SorterRest, state, view, activeSort, exportVars, dbVars>>
      BY <1>3 DEF SortJoined
    <3>6. ViewOfBase' /\ HeldIsLive'
      BY <1>a, <3>3, <3>4, <3>5 DEF Shapes, ViewOfBase, HeldIsLive, SortLive, ExportLive
    <3>7. QED
      BY <3>3, <3>5, <3>6 DEF Shapes, Typed
  <2>3. CASE ~(srt[s].kind = "restore" /\ IsCurrentSort(s) /\ state.result.error = "none")
    <3>1. SortThrows(s, "abort") \/ SortThrows(s, "error") \/ SortGoes(s, "create") \/ SortGoes(s, "drain")
      BY <1>3, <2>3 DEF SortJoined
    <3>2. srt' \in [Sorts -> SortShape] /\ srt' = [srt EXCEPT ![s] = srt'[s]]
          /\ srt'[s].at \in {"create", "drain", "unwind"}
      <4>1. CASE SortGoes(s, "create") \/ SortGoes(s, "drain")
        <5>1. srt' \in [Sorts -> SortShape]
          <6>1. [srt EXCEPT ![s].at = "create"] \in [Sorts -> SortShape]
                /\ [srt EXCEPT ![s].at = "drain"] \in [Sorts -> SortShape]
            BY <1>a, <2>1, SortUpdates
          <6>2. QED
            BY <4>1, <6>1 DEF SortGoes
        <5>2. QED
          BY <1>a, <1>b, <2>1, <4>1, <5>1 DEF SortGoes, OrderingShape
      <4>2. QED
        BY <1>e, <2>1, <3>1, <4>1
    <3>3. UNCHANGED <<SorterRest, state, view, activeSort, exportVars, dbVars>>
      BY <1>3 DEF SortJoined
    <3>4. QED
      BY <1>f, <3>2, <3>3 DEF Shapes, Typed
  <2>4. QED
    BY <2>2, <2>3
<1>4. CASE SortDrained(s) \/ SortDrainFails(s)
  <2>1. srt[s].at = "drain"
    BY <1>4 DEF SortDrained, SortDrainFails
  <2>2. srt[s].base \in Queries
    BY <1>b, <2>1 DEF OrderingShape
  <2>3. db' \in [Queries -> DbShape]
    BY <1>4, <2>2, FetchShapes DEF SortDrained, SortDrainFails
  <2>4. srt' \in [Sorts -> SortShape] /\ srt' = [srt EXCEPT ![s] = srt'[s]]
        /\ srt'[s].at \in {"create", "drain", "unwind"}
    <3>1. SortThrows(s, "abort") \/ SortThrows(s, "error") \/ SortGoes(s, "create") \/ SortGoes(s, "drain")
      BY <1>4 DEF SortDrained, SortDrainFails
    <3>2. CASE SortGoes(s, "create") \/ SortGoes(s, "drain")
      <4>1. srt' \in [Sorts -> SortShape]
        <5>1. [srt EXCEPT ![s].at = "create"] \in [Sorts -> SortShape]
              /\ [srt EXCEPT ![s].at = "drain"] \in [Sorts -> SortShape]
          BY <1>a, <2>1, SortUpdates
        <5>2. QED
          BY <3>2, <5>1 DEF SortGoes
      <4>2. QED
        BY <1>a, <1>b, <2>1, <3>2, <4>1 DEF SortGoes, OrderingShape
    <3>3. QED
      BY <1>e, <2>1, <3>1, <3>2
  <2>5. state' \in StateShape
    <3>1. CASE SortDrained(s) /\ IsCurrentSort(s)
      <4>1. RefreshCounts(state, srt[s].q, state.result.revision, db') \in StateShape
        BY <1>a, <2>3, CountsShape
      <4>2. QED
        BY <1>c, <3>1, <4>1 DEF SortDrained, SortPhases
    <3>2. CASE SortDrained(s) /\ ~IsCurrentSort(s)
      BY <1>a, <3>2 DEF SortDrained
    <3>3. CASE SortDrainFails(s)
      BY <1>a, <3>3, NoteEvents DEF SortDrainFails, Errors
    <3>4. QED
      BY <1>4, <3>1, <3>2, <3>3
  <2>6. UNCHANGED <<SorterRest, view, activeSort, exportVars, views>>
    BY <1>4 DEF SortDrained, SortDrainFails
  <2>7. QED
    BY <1>f, <2>3, <2>4, <2>5, <2>6 DEF Shapes, Typed

<1>5. CASE SortCreated(s)
  <2> DEFINE sorted == <<srt[s].base, s>>
  <2>1. srt[s] \in OrderingShape /\ srt[s].at = "create"
    BY <1>5, <1>b DEF SortCreated
  <2>2. sorted \in Views /\ Reading(sorted, db) \in ReadShape
    BY <1>a, <2>1, ReadingShape DEF OrderingShape, Views
  <2>3. /\ srt' = [srt EXCEPT ![s] = srt'[s]] /\ srt'[s] \in OrderingShape
        /\ srt'[s].view[1] = srt'[s].base /\ srt'[s].at \in {"read", "unwind"}
    <3>1. srt'[s] = [srt[s] EXCEPT !.view = sorted,
                          !.at = IF IsCurrentSort(s) THEN "read" ELSE "unwind",
                          !.error = IF IsCurrentSort(s) THEN "none" ELSE "abort",
                          !.read = Reading(sorted, db)]
      BY <1>5, <1>a DEF SortCreated
    <3>2. srt' = [srt EXCEPT ![s] = srt'[s]]
      BY <1>5, <1>a DEF SortCreated
    <3>3. sorted \in AnyView /\ sorted[1] = srt[s].base
      BY <2>2 DEF AnyView
    <3>4. srt'[s] \in OrderingShape
      BY <2>1, <2>2, <3>1, <3>3 DEF OrderingShape
    <3>5. srt'[s].view[1] = srt'[s].base /\ srt'[s].at \in {"read", "unwind"}
      BY <2>1, <3>1, <3>3 DEF OrderingShape
    <3>6. QED
      BY <3>2, <3>4, <3>5
  <2>4. srt' \in [Sorts -> SortShape]
    BY <1>a, <2>3 DEF SortShape
  <2>5. UNCHANGED <<SorterRest, state, view, activeSort, exportVars, db>>
    BY <1>5 DEF SortCreated
  <2>6. ViewOfBase' /\ HeldIsLive'
    BY <1>a, <2>3, <2>4, <2>5 DEF Shapes, ViewOfBase, HeldIsLive, SortLive, ExportLive
  <2>7. QED
    BY <2>4, <2>5, <2>6 DEF Shapes, Typed
<1>6. CASE SortRead(s)
  <2>1. srt[s] \in OrderingShape /\ srt[s].at = "read"
    BY <1>6, <1>b DEF SortRead
  <2>2. CASE Commits(s) /\ IsCurrentSort(s)
    <3>1. srt' \in [Sorts -> SortShape] /\ srt' = [srt EXCEPT ![s] = srt'[s]] /\ srt'[s].at = "release"
      <4>1. srt' \in [Sorts -> SortShape]
        BY <1>a, <2>1, <2>2, SortUpdates DEF Commits
      <4>2. QED
        BY <1>a, <2>1, <2>2, <4>1 DEF Commits, OrderingShape
    <3>2. srt[s].view[1] = base /\ base # None
      BY <1>d, <2>1, <2>2 DEF Shapes, ViewOfBase
    <3>3. state' \in StateShape
      <4>1. srt[s].q \in Queries
        BY <1>a, <2>2 DEF IsCurrentSort, Shows, StateShape, ResultShape, RowsShape
      <4>2. Paged(srt[s].q, srt[s].read, srt[s].from + 1,
                  IF srt[s].kind = "order" THEN s ELSE None, "none") \in RowsShape
        BY <2>1, <4>1 DEF Paged, RowsShape, OrderingShape, ReadShape, Errors
      <4>3. QED
        BY <1>a, <2>2, <4>2, ResultEvents DEF Commits
    <3>4. view' \in AnyView /\ view'[1] = base /\ activeSort' = None
      BY <2>1, <2>2, <3>2 DEF Commits, OrderingShape
    <3>5. UNCHANGED <<SorterRest, exportVars, dbVars>>
      BY <1>6 DEF SortRead
    <3>6. ViewOfBase' /\ HeldIsLive'
      BY <1>a, <3>1, <3>2, <3>4, <3>5 DEF Shapes, ViewOfBase, HeldIsLive, SortLive, ExportLive
    <3>7. QED
      BY <3>1, <3>3, <3>4, <3>5, <3>6 DEF Shapes, Typed
  <2>3. CASE ~(Commits(s) /\ IsCurrentSort(s))
    <3>1. UNCHANGED <<SorterRest, state, view, activeSort, exportVars, dbVars>>
          /\ (SortThrows(s, "abort") \/ SortThrows(s, "error"))
      BY <1>6, <2>3 DEF SortRead
    <3>2. srt' \in [Sorts -> SortShape] /\ srt' = [srt EXCEPT ![s] = srt'[s]] /\ srt'[s].at = "unwind"
      BY <1>e, <2>1, <3>1
    <3>3. QED
      BY <1>f, <3>1, <3>2 DEF Shapes, Typed
  <2>4. QED
    BY <2>2, <2>3
<1>7. CASE SortReleased(s) \/ SortUnwound(s)
  <2>1. srt[s].at \in {"release", "unwind"} /\ srt' = [srt EXCEPT ![s] = [at |-> "done"]]
    BY <1>7 DEF SortReleased, SortUnwound
  <2>2. srt' \in [Sorts -> SortShape] /\ srt' = [srt EXCEPT ![s] = srt'[s]] /\ srt'[s].at = "done"
    BY <1>a, <2>1, SortUpdates
  <2>3. state' \in StateShape
    <3>1. Outcome(s) \in StateShape
      BY <1>a, <1>c, SortEvents DEF Outcome, SortPhases
    <3>2. QED
      BY <1>7, <1>a, <3>1 DEF SortReleased, SortUnwound
  <2>4. activeSort' \in {None, activeSort} /\ activeSort' # s
    BY <1>7, <1>a DEF SortReleased, SortUnwound, Shapes, HeldIsLive, Sorts, None
  <2>5. UNCHANGED <<SorterRest, view, exportVars, db>>
    BY <1>7 DEF SortReleased, SortUnwound
  <2>6. QED
    BY <1>a, <1>f, <2>2, <2>3, <2>4, <2>5 DEF Shapes, Typed
<1>8. QED
  BY <1>1, <1>2, <1>3, <1>4, <1>5, <1>6, <1>7 DEF SortStep

LEMMA CancelSortShapes ==
    ASSUME Assumptions, Shapes, CancelSort
    PROVE  Shapes'
<1>1. activeSort \in Sorts /\ srt \in [Sorts -> SortShape] /\ state \in StateShape
  BY DEF CancelSort, SortPending, Shapes, Typed
<1>2. srt[activeSort].at \notin {"no", "done"}
  BY <1>1 DEF Shapes, HeldIsLive, SortLive, Sorts, None
<1>3. srt[activeSort] \in OrderingShape /\ srt' \in [Sorts -> SortShape]
  BY <1>1, <1>2, SortUpdates DEF CancelSort
<1>4. \A s \in Sorts : srt'[s].at = srt[s].at /\ srt'[s].view = srt[s].view /\ srt'[s].base = srt[s].base
  BY <1>1, <1>3 DEF CancelSort, OrderingShape
<1>5. state' \in StateShape
  BY <1>1, SortEvents DEF CancelSort, Progress, SortPhases
<1>6. UNCHANGED <<SorterRest, view, activeSort, exportVars, dbVars>>
  BY DEF CancelSort
<1>7. ViewOfBase' /\ HeldIsLive'
  BY <1>1, <1>3, <1>4, <1>6 DEF Shapes, ViewOfBase, HeldIsLive, SortLive, ExportLive, SorterRest, exportVars
<1>8. QED
  BY <1>3, <1>5, <1>6, <1>7 DEF Shapes, Typed, SorterRest, exportVars, dbVars

LEMMA ExportUpdates ==
    ASSUME NEW e \in Exports, exp \in [Exports -> ExportShape], exp[e].at \notin {"no", "done"}
    PROVE  exp[e] \in ExportingShape /\ AbortSink(exp[e].sink) \in Sinks
<1>1. exp[e] \in ExportingShape
  BY DEF ExportShape
<1>2. exp[e].sink \in Sinks
  BY <1>1 DEF ExportingShape
<1>3. QED
  BY <1>1, <1>2 DEF AbortSink, Sinks

LEMMA ReportShape ==
    ASSUME Assumptions, NEW e \in Exports, NEW st \in StateShape, NEW phase \in DownloadPhases
    PROVE  /\ Report(st, e, phase) \in StateShape
           /\ SameRows(st, Report(st, e, phase))
           /\ Report(st, e, phase).download \in {st.download, [gen |-> e, phase |-> phase]}
<1>1. e \in 1..(MaxExports + 1) /\ e \in Nat
  BY DEF Exports, Assumptions, FamilyAssumption
<1>2. [gen |-> e, phase |-> phase] \in DownloadShape
  BY <1>1 DEF DownloadShape
<1>3. QED
  BY <1>1, <1>2, DownloadEvents DEF Report, SameRows

\* Where a step of a download takes it, and what it leaves alone.
LEMMA ExportGoesOn ==
    ASSUME Assumptions, Shapes, NEW e \in Exports, ExportStep(e)
    PROVE  /\ ExportLive(e)
           /\ exp' \in [Exports -> ExportShape] /\ exp' = [exp EXCEPT ![e] = exp'[e]]
           /\ \/ ExportLive(e)' /\ activeExport' = activeExport /\ retained' = retained
              \/ /\ exp'[e].at = "done" /\ activeExport' = IF activeExport = e THEN None ELSE activeExport
                 /\ \/ retained' = retained
                    \/ retained' = e /\ exp'[e] = [at |-> "done", sink |-> "committed"]
           /\ ExportLive(e)' => /\ exp'[e] \in ExportingShape
                                /\ exp'[e].gen = exp[e].gen /\ exp'[e].base = exp[e].base
                                /\ exp'[e].view = exp[e].view /\ exp'[e].revision = exp[e].revision
           /\ UNCHANGED <<ExporterRest, views, exportGen>>
<1> USE DEF exportVars, dbVars
<1>a. exp \in [Exports -> ExportShape] /\ demand \in {None} \cup Demands
  BY DEF Shapes, Typed
<1>b. ExportLive(e)
  BY DEF ExportStep, ExportLive, ExportPicked, ExportPickFails, ExportJoined, ExportDrained, ExportDrainFails,
         ExportEncoded, ExportEncodeFails, ExportCommitted, ExportCommitFails, ExportFinished,
         ExportFinishFails, ExportUnwound
<1>c. /\ exp[e] \in ExportingShape /\ AbortSink(exp[e].sink) \in Sinks
  BY <1>a, <1>b, ExportUpdates DEF ExportLive
<1> DEFINE Goes == /\ exp' = [exp EXCEPT ![e] = exp'[e]]
                   /\ exp'[e] \in ExportingShape
                   /\ exp'[e].gen = exp[e].gen /\ exp'[e].base = exp[e].base
                   /\ exp'[e].view = exp[e].view /\ exp'[e].revision = exp[e].revision
<1>1. ASSUME NEW r \in {"abort", "error"}, ExportThrows(e, r)
      PROVE  Goes
  BY <1>a, <1>c, <1>1 DEF ExportThrows, ExportingShape
<1>2. ASSUME NEW w \in {"drain", "encode"}, ExportGoes(e, w)
      PROVE  Goes
  BY <1>a, <1>c, <1>2 DEF ExportGoes, ExportingShape
<1>3. ASSUME Goes
      PROVE  /\ ExportLive(e)' /\ exp' \in [Exports -> ExportShape]
  BY <1>a, <1>3 DEF ExportLive, ExportShape, ExportingShape
<1>4. CASE ExportPicked(e) \/ ExportPickFails(e)
  <2>1. Goes
    <3>1. CASE ExportPicked(e)
      BY <1>a, <1>c, <3>1 DEF ExportPicked, ExportingShape, Sinks
    <3>2. CASE ExportPickFails(e)
      BY <1>1, <3>2 DEF ExportPickFails
    <3>3. QED
      BY <1>4, <3>1, <3>2
  <2>2. UNCHANGED <<ExporterRest, views, exportGen, activeExport, retained>>
    BY <1>4 DEF ExportPicked, ExportPickFails
  <2>3. QED
    BY <1>b, <1>3, <2>1, <2>2
<1>5. CASE ExportJoined(e) \/ ExportDrained(e) \/ ExportDrainFails(e)
  <2>1. Goes
    <3>1. CASE exp' = exp
      BY <1>a, <1>c, <3>1
    <3>2. CASE exp' # exp
      BY <1>1, <1>2, <1>5, <3>2 DEF ExportJoined, ExportDrained, ExportDrainFails, Encodes
    <3>3. QED
      BY <3>1, <3>2
  <2>2. UNCHANGED <<ExporterRest, views, exportGen, activeExport, retained>>
    BY <1>5 DEF ExportJoined, ExportDrained, ExportDrainFails
  <2>3. QED
    BY <1>b, <1>3, <2>1, <2>2
<1>6. CASE ExportEncoded(e) \/ ExportEncodeFails(e) \/ ExportCommitFails(e) \/ ExportFinishFails(e)
  <2>1. Goes
    <3>1. CASE exp' = [exp EXCEPT ![e].at = "commit", ![e].sink = "committing"]
      BY <1>a, <1>c, <3>1 DEF ExportingShape, Sinks
    <3>2. QED
      BY <1>1, <1>6, <3>1 DEF ExportEncoded, ExportEncodeFails, ExportCommitFails, ExportFinishFails
  <2>2. UNCHANGED <<ExporterRest, views, exportGen, activeExport, retained>>
    BY <1>6 DEF ExportEncoded, ExportEncodeFails, ExportCommitFails, ExportFinishFails
  <2>3. QED
    BY <1>b, <1>3, <2>1, <2>2
<1>7. CASE ExportCommitted(e)
  <2>1. CASE exp' = [exp EXCEPT ![e] = [at |-> "done", sink |-> "committed"]] /\ retained' = e
    BY <1>7, <1>a, <1>b, <2>1 DEF ExportCommitted, ExportEnds, ExportShape, Sinks, ExportLive
  <2>2. CASE ~(exp' = [exp EXCEPT ![e] = [at |-> "done", sink |-> "committed"]] /\ retained' = e)
    <3>1. exp' = [exp EXCEPT ![e].at = "finish", ![e].sink = "committed"]
          \/ exp' = [exp EXCEPT ![e].at = "unwind", ![e].error = "abort", ![e].sink = "committed"]
      BY <1>7, <2>2 DEF ExportCommitted
    <3>2. Goes
      BY <1>a, <1>c, <3>1 DEF ExportingShape, Sinks
    <3>3. UNCHANGED <<ExporterRest, views, exportGen, activeExport, retained>>
      BY <1>7, <2>2 DEF ExportCommitted
    <3>4. QED
      BY <1>b, <1>3, <3>2, <3>3
  <2>3. QED
    BY <2>1, <2>2
<1>8. CASE ExportFinished(e) \/ ExportUnwound(e)
  <2>1. PICK k \in Sinks : exp' = [exp EXCEPT ![e] = [at |-> "done", sink |-> k]]
    BY <1>8 DEF ExportFinished, ExportUnwound, Sinks
  <2>2. UNCHANGED <<ExporterRest, views, exportGen, retained>>
        /\ activeExport' = IF activeExport = e THEN None ELSE activeExport
    BY <1>8 DEF ExportFinished, ExportUnwound, ExportEnds
  <2>3. QED
    BY <1>a, <1>b, <2>1, <2>2 DEF ExportShape, ExportLive
<1>9. QED
  BY <1>4, <1>5, <1>6, <1>7, <1>8 DEF ExportStep

\* A step of a download, the reports on its way included.
LEMMA ExportStateShape ==
    ASSUME Assumptions, Shapes, NEW e \in Exports, ExportStep(e) \/ ExportProgresses(e)
    PROVE  state' \in StateShape /\ db' \in [Queries -> DbShape] /\ suspendedBy' \in {None, suspendedBy, e}
<1> USE DEF dbVars
<1>a. /\ state \in StateShape /\ db \in [Queries -> DbShape] /\ exp \in [Exports -> ExportShape]
  BY DEF Shapes, Typed
<1>b. \A st \in StateShape, phase \in DownloadPhases : Report(st, e, phase) \in StateShape
  BY ReportShape
<1>c. \A d \in [Queries -> DbShape] :
        RefreshCounts(state, exp[e].gen, exp[e].revision, d) \in StateShape
  BY <1>a, CountsShape
<1>d. \A k \in {"retry", "final"} : PageFailed(state, k) \in StateShape
  BY <1>a, NoteEvents DEF Errors
<1>1. CASE ExportPicked(e) \/ ExportPickFails(e)
  BY <1>1, <1>a, <1>b DEF ExportPicked, ExportPickFails, DownloadPhases
<1>2. CASE ExportJoined(e)
  BY <1>2, <1>a, <1>b, <1>c DEF ExportJoined, Encodes, DownloadPhases
<1>3. CASE ExportDrained(e) \/ ExportDrainFails(e)
  <2>1. exp[e].base \in Queries
    BY <1>3, <1>a, ExportUpdates DEF ExportDrained, ExportDrainFails, ExportingShape
  <2>2. db' \in [Queries -> DbShape]
    BY <1>3, <2>1, FetchShapes DEF ExportDrained, ExportDrainFails
  <2>3. state' \in StateShape
    BY <1>3, <1>a, <1>b, <1>c, <1>d, <2>2 DEF ExportDrained, ExportDrainFails, Encodes, DownloadPhases
  <2>4. QED
    BY <1>3, <2>2, <2>3 DEF ExportDrained, ExportDrainFails
<1>4. CASE ExportEncoded(e) \/ ExportEncodeFails(e) \/ ExportCommitFails(e) \/ ExportFinishFails(e)
           \/ ExportProgresses(e)
  BY <1>4, <1>a, <1>b
     DEF ExportEncoded, ExportEncodeFails, ExportCommitFails, ExportFinishFails, ExportProgresses,
         DownloadPhases
<1>5. CASE ExportCommitted(e) \/ ExportFinished(e) \/ ExportUnwound(e)
  BY <1>5, <1>a, <1>b DEF ExportCommitted, ExportFinished, ExportUnwound, ExportEnds, DownloadPhases
<1>6. QED
  BY <1>1, <1>2, <1>3, <1>4, <1>5 DEF ExportStep

LEMMA ExportShapes ==
    ASSUME Assumptions, Shapes, NEW e \in Exports, ExportStep(e) \/ ExportProgresses(e)
    PROVE  Shapes'
<1> USE DEF ExporterRest, sorterVars, exportVars, dbVars
<1>a. state' \in StateShape /\ db' \in [Queries -> DbShape] /\ suspendedBy' \in {None} \cup Exports
  BY ExportStateShape DEF Shapes, Typed
<1>1. CASE ExportProgresses(e)
  BY <1>1, <1>a DEF ExportProgresses, Shapes, Typed, ViewOfBase, HeldIsLive, SortLive, ExportLive
<1>2. CASE ExportStep(e)
  <2>1. UNCHANGED <<ExporterRest, views, exportGen>> /\ exp' \in [Exports -> ExportShape]
    BY <1>2, ExportGoesOn
  <2>2. HeldIsLive'
    <3>1. activeExport' # None => ExportLive(activeExport)'
      BY <1>2, <2>1, ExportGoesOn DEF Shapes, Typed, HeldIsLive, ExportLive
    <3>2. retained' # None => exp'[retained'] = [at |-> "done", sink |-> "committed"]
      BY <1>2, <2>1, ExportGoesOn DEF Shapes, Typed, HeldIsLive, ExportLive
    <3>3. activeSort' # None => (SortLive(activeSort) /\ srt[activeSort].at # "release")'
      BY <2>1 DEF Shapes, HeldIsLive, SortLive
    <3>4. QED
      BY <3>1, <3>2, <3>3 DEF HeldIsLive
  <2>3. {exportGen', activeExport', retained'} \subseteq {None} \cup Exports
    BY <1>2, ExportGoesOn DEF Shapes, Typed
  <2>4. QED
    BY <1>a, <2>1, <2>2, <2>3 DEF Shapes, Typed, ViewOfBase
<1>3. QED
  BY <1>1, <1>2

\* The calls of the exporter.
LEMMA DownloadShapes ==
    ASSUME Assumptions, Shapes,
           \/ \E e \in Exports : Download(e)
           \/ DownloadRefused \/ CancelDownload \/ SaveDownload \/ DismissDownload
    PROVE  Shapes'
<1> USE DEF ExporterRest, sorterVars, exportVars, dbVars
<1>a. /\ state \in StateShape /\ exp \in [Exports -> ExportShape]
      /\ {exportGen, activeExport, retained} \subseteq {None} \cup Exports
      /\ WithoutDownload(state) \in StateShape
  BY DownloadLeaves DEF Shapes, Typed
<1>b. \A phase \in DownloadPhases, g \in 1..(MaxExports + 1) : [gen |-> g, phase |-> phase] \in DownloadShape
  BY DEF DownloadShape
<1>c. Refused \in 1..(MaxExports + 1) /\ Refused \in Nat
      /\ \A e \in Exports : e \in 1..(MaxExports + 1) /\ e \in Nat
  BY DEF Refused, Exports, Assumptions, FamilyAssumption
<1>1. ASSUME NEW e \in Exports, Download(e)
      PROVE  Shapes'
  <2>1. HasResult /\ base # None /\ exp[e].at = "no"
    BY <1>1 DEF Download, Exportable, HasResult
  <2>2. [at |-> "cleanup", gen |-> queryGen, base |-> base, view |-> view,
         revision |-> state.result.revision, aborted |-> FALSE,
         sink |-> "none", demand |-> None, error |-> "none"] \in ExportingShape
    BY <1>1, <2>1, DemandedShapes DEF Download, Exportable, ExportingShape, Sinks
  <2>3. activeExport # None => ExportLive(activeExport) /\ activeExport # e
    BY <2>1 DEF Shapes, HeldIsLive, ExportLive
  <2>4. retained # None => exp[retained] = [at |-> "done", sink |-> "committed"] /\ retained # e
    BY <2>1 DEF Shapes, HeldIsLive
  <2>5. ASSUME NEW x \in Exports, x = activeExport
        PROVE  [exp[x] EXCEPT !.aborted = TRUE, !.sink = AbortSink(@)] \in ExportShape
    <3>1. exp[x] \in ExportingShape /\ AbortSink(exp[x].sink) \in Sinks
      BY <1>a, <2>3, <2>5, ExportUpdates DEF ExportLive, Exports, None
    <3>2. QED
      BY <3>1 DEF ExportingShape, ExportShape
  <2>6. ASSUME NEW x \in Exports, x = retained
        PROVE  [exp[x] EXCEPT !.sink = "disposed"] \in ExportShape
    BY <2>4, <2>6 DEF ExportShape, Sinks, Exports, None
  <2>7. exp' \in [Exports -> ExportShape] /\ exp'[e] \in ExportingShape
        /\ activeExport' = e /\ retained' = None /\ exportGen' = e /\ suspendedBy' = e
    <3>1. \A x \in Exports : exp'[x] \in ExportShape
      BY <1>1, <1>a, <2>2, <2>5, <2>6 DEF Download, ExportShape
    <3>2. exp' = [x \in Exports |-> exp'[x]] /\ exp'[e] \in ExportingShape
      BY <1>1, <2>2 DEF Download
    <3>3. QED
      BY <1>1, <3>1, <3>2 DEF Download
  <2>8. state' \in StateShape
    BY <1>1, <1>a, <1>b, <1>c, DownloadEvents DEF Download, DownloadPhases
  <2>9. HeldIsLive'
    BY <1>1, <2>7 DEF Download, Shapes, HeldIsLive, SortLive, ExportLive, ExportingShape
  <2>10. QED
    BY <1>1, <2>7, <2>8, <2>9 DEF Download, Shapes, Typed, ViewOfBase
<1>2. CASE DownloadRefused \/ DismissDownload
  <2>1. Detach /\ exportGen' = None
    BY <1>2 DEF DownloadRefused, DismissDownload, SupersedeExport
  <2>2. activeExport' = None /\ retained' = None /\ exp' \in [Exports -> ExportShape]
    BY <2>1, DetachShapes
  <2>3. state' \in StateShape
    BY <1>2, <1>a, <1>b, <1>c, DownloadEvents DEF DownloadRefused, DismissDownload, DownloadPhases
  <2>4. QED
    BY <1>2, <2>1, <2>2, <2>3
       DEF DownloadRefused, DismissDownload, Shapes, Typed, ViewOfBase, HeldIsLive, SortLive
<1>3. CASE CancelDownload
  <2>1. activeExport \in Exports /\ exp[activeExport].at \notin {"no", "done"}
    BY <1>3, <1>a DEF CancelDownload, Shapes, HeldIsLive, ExportLive
  <2>2. exp[activeExport] \in ExportingShape /\ AbortSink(exp[activeExport].sink) \in Sinks
    BY <1>a, <2>1, ExportUpdates
  <2>3. [exp[activeExport] EXCEPT !.aborted = TRUE, !.sink = AbortSink(@)] \in ExportingShape
    BY <2>2 DEF ExportingShape
  <2>4. exp' \in [Exports -> ExportShape] /\ exp' = [exp EXCEPT ![activeExport] = exp'[activeExport]]
        /\ exp'[activeExport] \in ExportingShape
    BY <1>3, <1>a, <2>1, <2>3 DEF CancelDownload, ExportShape
  <2>5. state' \in StateShape
    BY <1>3, <1>a, <2>1, ReportShape DEF CancelDownload, DownloadPhases
  <2>6. HeldIsLive'
    BY <1>3, <1>a, <2>1, <2>4 DEF CancelDownload, Shapes, HeldIsLive, SortLive, ExportLive, ExportingShape
  <2>7. QED
    BY <1>3, <2>4, <2>5, <2>6 DEF CancelDownload, Shapes, Typed, ViewOfBase
<1>4. CASE SaveDownload
  <2>1. retained \in Exports
    BY <1>4, <1>a DEF SaveDownload
  <2>2. state' \in StateShape
    BY <1>4, <1>a, <1>b, <1>c, <2>1, DownloadEvents DEF SaveDownload, DownloadPhases
  <2>3. QED
    BY <1>4, <2>2 DEF SaveDownload, Shapes, Typed, ViewOfBase, HeldIsLive, SortLive, ExportLive
<1>5. QED
  BY <1>1, <1>2, <1>3, <1>4

\* The steps by which closes and sessions end.
LEMMA CloseStepShapes ==
    ASSUME Assumptions, Shapes,
           (\E c \in closes : CloseStep(c)) \/ (\E q \in Queries : SessionCloses(q))
    PROVE  Shapes'
<1> USE DEF sorterVars, exportVars, dbVars, sessionVars, storeVars
<1>a. closes \subseteq CloseShape /\ db \in [Queries -> DbShape]
  BY DEF Shapes, Typed
<1>1. ASSUME NEW c \in closes, ReleasesView(c)
      PROVE  Shapes'
  <2>1. closes' \subseteq CloseShape
    BY <1>a, <1>1 DEF ReleasesView, CloseShape
  <2>2. db' \in [Queries -> DbShape]
    <3>1. \A q \in Queries : [db[q] EXCEPT !.at = "closing"] \in DbShape
      BY <1>a DEF DbShape
    <3>2. db' = [db EXCEPT ![c.base].at = IF @ = "open" THEN "closing" ELSE @]
      BY <1>1 DEF ReleasesView, CloseSession
    <3>3. db' \in {db, [db EXCEPT ![c.base] = [db[c.base] EXCEPT !.at = "closing"]]}
      BY <1>a, <3>2 DEF DbShape
    <3>4. QED
      BY <1>a, <3>1, <3>3
  <2>3. QED
    BY <1>1, <2>1, <2>2 DEF ReleasesView, Shapes, Typed, ViewOfBase, HeldIsLive, SortLive, ExportLive
<1>2. ASSUME NEW c \in closes, CloseEnds(c)
      PROVE  Shapes'
  BY <1>2 DEF CloseEnds, Shapes, Typed, ViewOfBase, HeldIsLive, SortLive, ExportLive
<1>3. ASSUME NEW q \in Queries, SessionCloses(q)
      PROVE  Shapes'
  <2>1. db' \in [Queries -> DbShape]
    BY <1>a, <1>3 DEF SessionCloses, DbShape
  <2>2. QED
    BY <1>3, <2>1 DEF SessionCloses, Shapes, Typed, ViewOfBase, HeldIsLive, SortLive, ExportLive
<1>4. QED
  BY <1>1, <1>2, <1>3 DEF CloseStep

\* Superseding: no sort and no download is active any more.
LEMMA SupersedeShapes ==
    ASSUME Assumptions, Shapes, SupersedeSort, SupersedeExport
    PROVE  /\ activeSort' = None /\ exportGen' = None /\ activeExport' = None /\ retained' = None
           /\ exp' \in [Exports -> ExportShape] /\ srt' \in [Sorts -> SortShape]
           /\ \A s \in Sorts : /\ srt'[s].at = srt[s].at
                               /\ SortLive(s) =>
                                    /\ srt'[s].view = srt[s].view /\ srt'[s].base = srt[s].base
                                    /\ srt'[s].kind = srt[s].kind /\ srt'[s].q = srt[s].q
                                    /\ srt'[s].from = srt[s].from /\ srt'[s].read = srt[s].read
<1>1. srt \in [Sorts -> SortShape] /\ activeSort \in {None} \cup Sorts
  BY DEF Shapes, Typed
<1>2. activeSort # None => srt[activeSort] \in OrderingShape /\ [srt EXCEPT ![activeSort].aborted = TRUE] \in [Sorts -> SortShape]
  BY <1>1, SortUpdates DEF Shapes, HeldIsLive, SortLive
<1>3. srt' \in [Sorts -> SortShape]
  BY <1>1, <1>2 DEF SupersedeSort
<1>4. \A s \in Sorts : /\ srt'[s].at = srt[s].at
                       /\ SortLive(s) =>
                            /\ srt'[s].view = srt[s].view /\ srt'[s].base = srt[s].base
                            /\ srt'[s].kind = srt[s].kind /\ srt'[s].q = srt[s].q
                            /\ srt'[s].from = srt[s].from /\ srt'[s].read = srt[s].read
  BY <1>1, <1>2 DEF SupersedeSort, OrderingShape, SortLive
<1>5. QED
  BY <1>3, <1>4, DetachShapes DEF SupersedeSort, SupersedeExport

LEMMA CallShapes ==
    ASSUME Assumptions, Shapes, RunQuery \/ OpenFiles \/ Cancel \/ Dispose
    PROVE  Shapes'
<1> USE DEF CallsRest, dbVars
<1>a. SupersedeSort /\ SupersedeExport /\ queryGen' = queryGen + 1 /\ queryGen < MaxQueries
  BY DEF RunQuery, OpenFiles, Cancel, Dispose, Withdraw
<1>b. /\ state \in StateShape /\ run \in [Queries -> RunShape] /\ db \in [Queries -> DbShape]
      /\ queryGen \in 0..MaxQueries /\ activeSort \in {None} \cup Sorts /\ storeGen \in Nat
      /\ WithoutDownload(state) \in StateShape
  BY DownloadLeaves DEF Shapes, Typed
<1>c. queryGen' \in Queries /\ queryGen' \in 0..MaxQueries
  BY <1>a, <1>b DEF Queries, Assumptions, FamilyAssumption
<1>d. ViewOfBase' /\ HeldIsLive'
  <2>1. UNCHANGED <<base, view>>
    BY DEF RunQuery, OpenFiles, Cancel, Dispose
  <2>2. QED
    BY <1>a, <2>1, SupersedeShapes DEF Shapes, ViewOfBase, HeldIsLive, SortLive
<1>1. CASE RunQuery
  <2>1. Reading(Base(queryGen'), db) \in ReadShape
    BY <1>b, <1>c, ReadingShape DEF Base, Views
  <2>2. run' \in [Queries -> RunShape]
    <3>1. state.result \in ResultShape
      BY <1>b DEF StateShape
    <3>2. [at |-> "cleanup", prior |-> state.result, sort |-> activeSort,
           downloads |-> LastExport, read |-> Reading(Base(queryGen'), db)] \in RunningShape
      BY <1>b, <2>1, <3>1, LastExportShape DEF RunningShape
    <3>3. QED
      BY <1>1, <1>b, <3>2 DEF RunQuery, RunShape
  <2>3. state' \in StateShape
    BY <1>1, <1>b, PhaseEvents DEF RunQuery
  <2>4. QED
    BY <1>1, <1>a, <1>c, <1>d, <2>2, <2>3, SupersedeShapes DEF RunQuery, Shapes, Typed
<1>2. CASE OpenFiles \/ Cancel \/ Dispose
  <2>1. storeGen' \in Nat
    BY <1>2, <1>b DEF OpenFiles, Cancel, Dispose, Withdraw
  <2>2. state' \in StateShape
    <3>1. PageFailed(WithoutDownload(state), "final") \in StateShape
      BY <1>b, NoteEvents DEF Errors
    <3>2. QED
      BY <1>2, <1>b, <3>1, PhaseEvents DEF OpenFiles, Cancel, Dispose
  <2>3. UNCHANGED <<run, base, view, viewer, demand, suspendedBy, dem, closes, db>> /\ disposed' \in BOOLEAN
    BY <1>2 DEF OpenFiles, Cancel, Dispose, Shapes, Typed
  <2>4. QED
    BY <1>a, <1>c, <1>d, <2>1, <2>2, <2>3, SupersedeShapes DEF Shapes, Typed
<1>3. QED
  BY <1>1, <1>2

\* The closes those calls await, and the open.
LEMMA StopShapes ==
    ASSUME Assumptions, Shapes,
           (\E q \in Queries : StopCloses(q) \/ StopEnds(q)) \/ Planned \/ Opened
    PROVE  Shapes'
<1> USE DEF sorterVars, exportVars, dbVars, sessionVars, storeVars, familyVars
<1>1. ASSUME NEW q \in Queries, StopCloses(q)
      PROVE  Shapes'
  <2>1. <<"stop", q>> \in {"run", "fail", "demand", "stop"} \X Nat
    BY DEF Queries
  <2>2. QED
    BY <1>1, <2>1, CloseShapes
       DEF StopCloses, Shapes, Typed, ViewOfBase, HeldIsLive, SortLive, ExportLive, AnyView
<1>2. ASSUME NEW q \in Queries, StopEnds(q)
      PROVE  Shapes'
  BY <1>2 DEF StopEnds, Shapes, Typed, ViewOfBase, HeldIsLive, SortLive, ExportLive
<1>3. CASE Planned \/ Opened
  <2>1. state' \in StateShape
    BY <1>3, PhaseEvents DEF Planned, Opened, Shapes, Typed
  <2>2. QED
    BY <1>3, <2>1 DEF Planned, Opened, Shapes, Typed, ViewOfBase, HeldIsLive, SortLive, ExportLive
<1>4. QED
  BY <1>1, <1>2, <1>3

LEMMA InitShapes ==
    ASSUME Assumptions, Init
    PROVE  Shapes
<1>1. state \in StateShape
  BY DEF Init, FamilyInit, Ready, InitialState, StateShape, ResultShape, SortingShape, DownloadShape
<1>2. /\ run \in [Queries -> RunShape] /\ dem \in [Demands -> DemandShape]
      /\ srt \in [Sorts -> SortShape] /\ exp \in [Exports -> ExportShape]
  BY DEF Init, FamilyInit, RunShape, DemandShape, SortShape, ExportShape, Over
<1>3. db \in [Queries -> DbShape]
  BY DEF Init, FamilyInit, DbShape
<1>4. 0 \in 0..MaxQueries
  BY DEF Assumptions, FamilyAssumption
<1>5. QED
  BY <1>1, <1>2, <1>3, <1>4
     DEF Init, FamilyInit, Shapes, Typed, ViewOfBase, HeldIsLive, AnyView, CloseShape, None

\* What the steps of the family are.
LEMMA Steps ==
    ASSUME Next
    PROVE  \/ \E q \in Queries : RunStep(q)
           \/ \E d \in Demands : Demand(d) \/ DemandStep(d)
           \/ \E s \in Sorts : Sort(s) \/ SortStep(s)
           \/ CancelSort
           \/ \E e \in Exports : ExportStep(e) \/ ExportProgresses(e)
           \/ (\E e \in Exports : Download(e))
                \/ DownloadRefused \/ CancelDownload \/ SaveDownload \/ DismissDownload
           \/ (\E c \in closes : CloseStep(c)) \/ (\E q \in Queries : SessionCloses(q))
           \/ RunQuery \/ OpenFiles \/ Cancel \/ Dispose
           \/ (\E q \in Queries : StopCloses(q) \/ StopEnds(q)) \/ Planned \/ Opened
  BY DEF Next, Answers, UserCalls

LEMMA ShapesKept ==
    ASSUME Assumptions, Shapes, [Next]_vars
    PROVE  Shapes'
<1>1. CASE Next
  BY <1>1, Steps, RunShapes, DemandShapes, SortShapes, CancelSortShapes, ExportShapes, DownloadShapes,
     CloseStepShapes, CallShapes, StopShapes
<1>2. CASE UNCHANGED vars
  BY <1>2 DEF vars, familyVars, storeVars, sessionVars, sorterVars, exportVars, dbVars, Shapes, Typed,
              ViewOfBase, HeldIsLive, SortLive, ExportLive
<1>3. QED
  BY <1>1, <1>2

THEOREM ShapesHold ==
    ASSUME Assumptions
    PROVE  Spec => []Shapes
<1>1. Init => Shapes
  BY InitShapes
<1>2. Shapes /\ [Next]_vars => Shapes'
  BY ShapesKept
<1>3. QED
  BY <1>1, <1>2, PTL DEF Spec

-----------------------------------------------------------------------------
(* What the events do to the rows on screen.                                  *)

\* The same rows in the same order; only their notes may differ.
SameButNotes(r, n) ==
    /\ n.gen = r.gen /\ n.rows = r.rows /\ n.complete = r.complete
    /\ n.window = r.window /\ n.revision = r.revision /\ n.sort = r.sort

\* A failed page is noted on the rows, if there are any.
LEMMA PageFailedDoes ==
    ASSUME NEW st \in StateShape, NEW e \in Errors
    PROVE  LET n == PageFailed(st, e) IN
           /\ n.current = st.current /\ n.sorting = st.sorting
           /\ n.phase = st.phase /\ n.download = st.download
           /\ SameButNotes(st.result, n.result)
           /\ (n.result = NoResult) <=> (st.result = NoResult)
           /\ st.result = NoResult => n = st
           /\ st.result # NoResult => n.result.error = e /\ n.result.loading = FALSE
<1>1. CASE st.result = NoResult
  BY <1>1 DEF PageFailed, SameButNotes
<1>2. CASE st.result # NoResult
  <2>1. st.result \in RowsShape
    BY <1>2 DEF StateShape, ResultShape
  <2> DEFINE r == [st.result EXCEPT !.loading = FALSE, !.error = e]
  <2>2. PageFailed(st, e) = [st EXCEPT !.result = r]
    BY <1>2 DEF PageFailed, StateShape
  <2>3. r.gen = st.result.gen /\ r.gen # 0 /\ SameButNotes(st.result, r) /\ r.error = e /\ r.loading = FALSE
    BY <2>1 DEF RowsShape, Queries, SameButNotes
  <2>4. r # NoResult
    BY <2>3 DEF NoResult, None
  <2> HIDE DEF r
  <2>5. QED
    BY <1>2, <2>2, <2>3, <2>4 DEF StateShape
<1>3. QED
  BY <1>1, <1>2

\* Loading is noted on rows that are there.
LEMMA LoadingDoes ==
    ASSUME NEW st \in StateShape, st.result # NoResult
    PROVE  LET n == Loading(st) IN
           /\ n.current = st.current /\ n.sorting = st.sorting
           /\ n.phase = st.phase /\ n.download = st.download
           /\ SameButNotes(st.result, n.result) /\ n.result # NoResult
           /\ n.result.error = "none" /\ n.result.loading = TRUE
<1>1. st.result \in RowsShape
  BY DEF StateShape, ResultShape
<1> DEFINE r == [st.result EXCEPT !.loading = TRUE, !.error = "none"]
<1>2. Loading(st) = [st EXCEPT !.result = r]
  BY DEF Loading, StateShape
<1>3. r.gen = st.result.gen /\ r.gen # 0 /\ SameButNotes(st.result, r) /\ r.error = "none" /\ r.loading = TRUE
  BY <1>1 DEF RowsShape, Queries, SameButNotes
<1>4. r # NoResult
  BY <1>3 DEF NoResult, None
<1> HIDE DEF r
<1>5. QED
  BY <1>2, <1>3, <1>4 DEF StateShape

\* A window shown is one of the query and the order on display, or changes nothing.
LEMMA WindowUpdatedDoes ==
    ASSUME NEW st \in StateShape, NEW r \in RowsShape
    PROVE  LET n == WindowUpdated(st, r) IN
           /\ n.current = st.current /\ n.sorting = st.sorting
           /\ n.phase = st.phase /\ n.download = st.download
           /\ \/ n = st
              \/ /\ n.result = r /\ st.result # NoResult
                 /\ r.gen = st.result.gen /\ r.revision = st.result.revision
  BY DEF WindowUpdated, ValidUpdate, StateShape

\* The counts of the rows on screen are refreshed, and nothing else of them.
Recounted(st, n, q, d) ==
    /\ n.current = st.current /\ n.sorting = st.sorting
    /\ n.phase = st.phase /\ n.download = st.download
    /\ n.result.gen = st.result.gen /\ n.result.window = st.result.window
    /\ n.result.revision = st.result.revision /\ n.result.sort = st.result.sort
    /\ n.result.error = st.result.error
    /\ \/ n = st
       \/ /\ Shows(st, q) /\ n.result \in RowsShape
          /\ n.result.rows = d[q].rows /\ n.result.complete = d[q].whole
          /\ n.result.loading = FALSE

LEMMA CountsDo ==
    ASSUME NEW st \in StateShape, NEW q, NEW revision, NEW d \in [Queries -> DbShape]
    PROVE  Recounted(st, RefreshCounts(st, q, revision, d), q, d)
<1>1. CASE Shows(st, q)
  <2>1. st.result \in RowsShape /\ q \in Queries
    BY <1>1 DEF Shows, StateShape, ResultShape, RowsShape
  <2>2. d[q].rows \in Nat /\ d[q].whole \in BOOLEAN
    BY <2>1 DEF DbShape
  <2> DEFINE r == [st.result EXCEPT !.rows = d[q].rows, !.complete = d[q].whole, !.loading = FALSE]
  <2>3. r \in RowsShape
    BY <2>1, <2>2 DEF RowsShape
  <2>4. /\ r.gen = st.result.gen /\ r.window = st.result.window /\ r.revision = st.result.revision
        /\ r.sort = st.result.sort /\ r.error = st.result.error
        /\ r.rows = d[q].rows /\ r.complete = d[q].whole /\ r.loading = FALSE
    BY <2>1 DEF RowsShape
  <2>5. RefreshCounts(st, q, revision, d) = st \/ RefreshCounts(st, q, revision, d) = WindowUpdated(st, r)
    BY DEF RefreshCounts
  <2> HIDE DEF r
  <2>6. LET n == WindowUpdated(st, r) IN
        /\ n.current = st.current /\ n.sorting = st.sorting
        /\ n.phase = st.phase /\ n.download = st.download
        /\ n = st \/ n.result = r
    BY <2>3, WindowUpdatedDoes
  <2>7. QED
    BY <1>1, <2>3, <2>4, <2>5, <2>6 DEF Recounted
<1>2. CASE ~Shows(st, q)
  BY <1>2 DEF RefreshCounts, Recounted
<1>3. QED
  BY <1>1, <1>2

\* A sort that ended leaves the display, or was not the one on it.
LEMMA SortEndedDoes ==
    ASSUME NEW st \in StateShape, NEW q, NEW s
    PROVE  LET n == SortEnded(st, q, s) IN
           /\ n.result = st.result /\ n.current = st.current /\ n.phase = st.phase
           /\ n.download = st.download
           /\ n.sorting \in {st.sorting, NoSorting}
           /\ n.sorting # st.sorting => st.sorting.id = s
  BY DEF SortEnded, IsSortRequest, StateShape

LEMMA SortEventsDo ==
    ASSUME NEW st \in StateShape, NEW q, NEW from, NEW s \in Sorts, NEW phase \in SortPhases
    PROVE  LET n == SortUpdated(st, q, from, [id |-> s, phase |-> phase]) IN
           /\ n.result = st.result /\ n.current = st.current /\ n.phase = st.phase
           /\ n.download = st.download
           /\ n.sorting \in {st.sorting, [id |-> s, phase |-> phase]}
           /\ n.sorting # st.sorting => s >= st.sorting.id /\ Shows(st, q) /\ st.current
  BY DEF SortUpdated, StateShape

LEMMA UnavailableDoes ==
    ASSUME NEW st \in StateShape, NEW q
    PROVE  LET n == Unavailable(st, q) IN
           /\ n.result = st.result /\ n.phase = st.phase /\ n.download = st.download
           /\ IF Shows(st, q) THEN n.current = FALSE /\ n.sorting = NoSorting ELSE n = st
  BY DEF Unavailable, StateShape

\* What a close shows of the state it found.
LEMMA CloseDoes ==
    ASSUME Shapes, NEW by, Close(by, state, queryGen)
    PROVE  /\ state'.result = state.result /\ state'.phase = state.phase
           /\ state'.download = state.download
           /\ \/ state' = state /\ ~(base # None /\ Shows(state, queryGen))
              \/ base # None /\ Shows(state, queryGen) /\ state'.current = FALSE /\ state'.sorting = NoSorting
  BY UnavailableDoes DEF Close, Shapes, Typed

-----------------------------------------------------------------------------
(* What is shown changes only under the current query generation.             *)

\* Of a step: it shows nothing, rows of the current query, or the rows it found.
RowsStay ==
    \/ state'.result = NoResult
    \/ state'.result.gen = queryGen'
    \/ SameButNotes(state.result, state'.result)

LEMMA SameRowsStay ==
    ASSUME NEW r \in ResultShape, NEW n \in ResultShape, SameButNotes(r, n)
    PROVE  [n EXCEPT !.error = "none", !.loading = FALSE] = [r EXCEPT !.error = "none", !.loading = FALSE]
<1> DEFINE Wide == [gen : Nat, rows : Nat, complete : BOOLEAN, loading : BOOLEAN, window : AnyView,
                    revision : Nat, sort : {None} \cup Sorts, error : Errors]
<1>1. NoResult \in Wide
  BY DEF NoResult, AnyView, Errors, None
<1>2. RowsShape \subseteq Wide
  BY DEF RowsShape, Queries
<1>3. r \in Wide /\ n \in Wide
  BY <1>1, <1>2 DEF ResultShape
<1>4. QED
  BY <1>3 DEF SameButNotes

LEMMA RunRowsStay ==
    ASSUME Assumptions, Shapes, NEW q \in Queries, RunStep(q)
    PROVE  RowsStay
<1> USE DEF SessionRest
<1>a. state \in StateShape /\ run \in [Queries -> RunShape]
  BY DEF Shapes, Typed
<1>b. state'.result = state.result => RowsStay
  BY DEF RowsStay, SameButNotes
<1>1. CASE RunCleaned(q)
  BY <1>1, <1>b, CloseDoes DEF RunCleaned
<1>2. CASE RunClosed(q)
  BY <1>2, <1>a, <1>b, PageFailedDoes DEF RunClosed, RowsStay, Errors
<1>3. CASE StartOk(q) \/ RunDropped(q) \/ RunFetched(q)
  BY <1>3, <1>b DEF StartOk, RunDropped, RunFetched
<1>4. CASE StartFails(q) \/ RunFetchFails(q) \/ RunReadFails(q)
  BY <1>4, <1>b, CloseDoes DEF StartFails, RunFetchFails, RunReadFails, RunThrows
<1>5. CASE RunRead(q) \/ RunViewer(q)
  <2>1. CASE state' = state
    BY <2>1, <1>b
  <2>2. CASE state' # state
    <3>1. state' = QuerySucceeded(state, Paged(q, run[q].read, 0, None, "none")) /\ q = queryGen
      BY <1>5, <2>2 DEF RunRead, RunViewer, Succeeds, IsCurrentQuery
    <3>2. state'.result.gen = q
      BY <1>a, <3>1 DEF QuerySucceeded, Paged, StateShape
    <3>3. queryGen' = queryGen
      BY <1>5 DEF RunRead, RunViewer
    <3>4. QED
      BY <3>1, <3>2, <3>3 DEF RowsStay
  <2>3. QED
    BY <2>1, <2>2
<1>6. CASE RunFailed(q)
  BY <1>6, <1>a, <1>b DEF RunFailed, QueryFailed, StateShape
<1>7. QED
  BY <1>1, <1>2, <1>3, <1>4, <1>5, <1>6 DEF RunStep

LEMMA DemandRowsStay ==
    ASSUME Assumptions, Shapes, NEW d \in Demands, Demand(d) \/ DemandStep(d)
    PROVE  RowsStay
<1> USE DEF SessionRest
<1>a. state \in StateShape /\ dem \in [Demands -> DemandShape]
  BY DEF Shapes, Typed
<1>b. state'.result = state.result => RowsStay
  BY DEF RowsStay, SameButNotes
<1>1. CASE LoadMore(d) \/ RetryPage(d)
  BY <1>1, <1>a, LoadingDoes DEF LoadMore, RetryPage, MayDemand, RowsStay
<1>2. CASE LoadWindow(d) \/ DemandFetched(d)
  BY <1>2, <1>b DEF LoadWindow, DemandFetched
<1>3. CASE DemandFetchFails(d)
  BY <1>3, <1>a, <1>b, PageFailedDoes DEF DemandFetchFails, RowsStay, Errors
<1>4. CASE DemandRead(d) \/ DemandViewer(d)
  <2>1. CASE state' = state
    BY <2>1, <1>b
  <2>2. CASE state' # state
    <3>1. /\ state' = WindowUpdated(state, Paged(dem[d].gen, dem[d].read, dem[d].revision,
                                                dem[d].sort, dem[d].error))
          /\ DemandActive(d)
      BY <1>4, <2>2 DEF DemandRead, DemandViewer, DemandPublishes
    <3>2. Paged(dem[d].gen, dem[d].read, dem[d].revision, dem[d].sort, dem[d].error) \in RowsShape
      BY <1>4, <1>a, DemandUpdates
         DEF DemandRead, DemandViewer, DemandedShape, Paged, RowsShape, ReadShape
    <3>3. state'.result.gen = dem[d].gen \/ state' = state
      BY <1>a, <3>1, <3>2, WindowUpdatedDoes DEF Paged
    <3>4. dem[d].gen = queryGen /\ queryGen' = queryGen
      BY <1>4, <3>1 DEF DemandRead, DemandViewer, DemandActive, IsActiveResult, IsCurrentQuery
    <3>5. QED
      BY <1>b, <3>3, <3>4 DEF RowsStay
  <2>3. QED
    BY <2>1, <2>2
<1>5. CASE DemandReadFails(d)
  <2>1. PageFailed(state, "final") \in StateShape
    BY <1>a, NoteEvents DEF Errors
  <2>2. SameButNotes(state.result, WithoutDownload(PageFailed(state, "final")).result)
    BY <1>a, <2>1, PageFailedDoes, DownloadLeaves DEF SameRows, Errors
  <2>3. CASE DemandActive(d)
    BY <1>5, <2>2, <2>3 DEF DemandReadFails, RowsStay
  <2>4. CASE ~DemandActive(d)
    BY <1>5, <1>b, <2>4 DEF DemandReadFails
  <2>5. QED
    BY <2>3, <2>4
<1>6. CASE DemandGivesUp(d)
  BY <1>6, <1>b, CloseDoes DEF DemandGivesUp
<1>7. QED
  BY <1>1, <1>2, <1>3, <1>4, <1>5, <1>6 DEF Demand, DemandStep

LEMMA SortRowsStay ==
    ASSUME Assumptions, Shapes, NEW s \in Sorts, Sort(s) \/ SortStep(s)
    PROVE  RowsStay
<1> USE DEF SorterRest
<1>a. /\ state \in StateShape /\ srt \in [Sorts -> SortShape] /\ db' \in [Queries -> DbShape]
      /\ Shapes'
  BY SortShapes DEF Shapes, Typed
<1>b. state'.result = state.result => RowsStay
  BY DEF RowsStay, SameButNotes
<1>c. \A st \in StateShape, phase \in SortPhases : Progress(st, s, phase).result = st.result
  BY SortEventsDo DEF Progress
<1>1. CASE Sort(s)
  <2>1. PICK kind \in {"order", "restore"} :
          state' = WithoutDownload(
              SortUpdated(state, queryGen, state.result.revision,
                          [id |-> s, phase |-> IF kind = "order" THEN "loading" ELSE "storing"]))
    BY <1>1 DEF Sort
  <2>2. (IF kind = "order" THEN "loading" ELSE "storing") \in SortPhases
    BY DEF SortPhases
  <2>3. QED
    BY <1>a, <1>b, <2>1, <2>2, SortEvents, SortEventsDo, DownloadLeaves DEF SameRows
<1>2. CASE SortCleaned(s) \/ SortJoined(s) \/ SortCreated(s) \/ SortCreateFails(s) \/ SortReadFails(s)
           \/ SortReleased(s)
  BY <1>2, <1>b DEF SortCleaned, SortJoined, SortCreated, SortCreateFails, SortReadFails, SortReleased
<1>3. CASE SortDrained(s)
  <2>1. CASE IsCurrentSort(s)
    <3> DEFINE st == RefreshCounts(state, srt[s].q, state.result.revision, db')
    <3>0. st \in StateShape
      BY <1>a, CountsShape
    <3>1. st.result.gen = state.result.gen
      <4>1. Recounted(state, st, srt[s].q, db')
        BY <1>a, CountsDo
      <4>2. QED
        BY <4>1 DEF Recounted
    <3>2. state'.result = st.result
      BY <1>3, <1>c, <2>1, <3>0 DEF SortDrained, SortPhases
    <3>3. Shows(state, queryGen) /\ queryGen' = queryGen
      BY <1>3, <2>1 DEF SortDrained, IsCurrentSort
    <3>4. QED
      BY <3>1, <3>2, <3>3 DEF Shows, RowsStay
  <2>2. CASE ~IsCurrentSort(s)
    BY <1>3, <1>b, <2>2 DEF SortDrained
  <2>3. QED
    BY <2>1, <2>2
<1>4. CASE SortDrainFails(s)
  BY <1>4, <1>a, <1>b, PageFailedDoes DEF SortDrainFails, RowsStay, Errors
<1>5. CASE SortRead(s)
  <2>1. CASE state' = state
    BY <1>b, <2>1
  <2>2. CASE state' # state
    <3>1. Commits(s) /\ IsCurrentSort(s) /\ queryGen' = queryGen
      BY <1>5, <2>2 DEF SortRead
    <3>2. state'.result.gen = srt[s].q \/ state' = state
      BY <1>a, <3>1 DEF Commits, OrderCommitted, Paged, StateShape
    <3>3. QED
      BY <1>b, <3>1, <3>2 DEF RowsStay, IsCurrentSort
  <2>3. QED
    BY <2>1, <2>2
<1>6. CASE SortUnwound(s)
  <2>1. SortEnded(state, srt[s].q, s).result = state.result
    BY <1>a, SortEndedDoes
  <2>2. Progress(state, s, "failed").result = state.result
    BY <1>a, <1>c DEF SortPhases
  <2>3. QED
    BY <1>6, <1>b, <2>1, <2>2 DEF SortUnwound, Outcome
<1>7. QED
  BY <1>1, <1>2, <1>3, <1>4, <1>5, <1>6 DEF SortStep

LEMMA ExportRowsStay ==
    ASSUME Assumptions, Shapes, NEW e \in Exports, ExportStep(e) \/ ExportProgresses(e)
    PROVE  RowsStay
<1> USE DEF ExporterRest
<1>a. /\ state \in StateShape /\ db \in [Queries -> DbShape] /\ db' \in [Queries -> DbShape]
  BY ExportStateShape DEF Shapes, Typed
<1>b. state'.result = state.result => RowsStay
  BY DEF RowsStay, SameButNotes
<1>c. \A st \in StateShape, phase \in DownloadPhases : Report(st, e, phase).result = st.result
  BY ReportShape DEF SameRows
<1>d. ASSUME NEW d \in [Queries -> DbShape], MayGoOn(e), queryGen' = queryGen,
             state'.result = RefreshCounts(state, exp[e].gen, exp[e].revision, d).result
      PROVE  RowsStay
  <2>1. RefreshCounts(state, exp[e].gen, exp[e].revision, d).result.gen = state.result.gen
    <3>1. Recounted(state, RefreshCounts(state, exp[e].gen, exp[e].revision, d), exp[e].gen, d)
      BY <1>a, CountsDo
    <3>2. QED
      BY <3>1 DEF Recounted
  <2>2. Shows(state, queryGen)
    BY <1>d DEF MayGoOn, IsCurrentExport
  <2>3. QED
    BY <1>d, <2>1, <2>2 DEF Shows, RowsStay
<1>1. CASE ExportPicked(e) \/ ExportPickFails(e) \/ ExportEncoded(e) \/ ExportEncodeFails(e)
           \/ ExportCommitFails(e) \/ ExportFinishFails(e) \/ ExportProgresses(e)
           \/ ExportCommitted(e) \/ ExportFinished(e) \/ ExportUnwound(e)
  BY <1>1, <1>a, <1>b, <1>c
     DEF ExportPicked, ExportPickFails, ExportEncoded, ExportEncodeFails, ExportCommitFails,
         ExportFinishFails, ExportProgresses, ExportCommitted, ExportFinished, ExportUnwound, ExportEnds,
         DownloadPhases
<1>2. CASE ExportJoined(e) \/ ExportDrained(e)
  <2>1. CASE state' = state
    BY <1>b, <2>1
  <2>2. CASE state' # state
    <3>1. MayGoOn(e) /\ queryGen' = queryGen
      BY <1>2, <2>2 DEF ExportJoined, ExportDrained
    <3>2. PICK d \in {db, db'} :
            LET st == RefreshCounts(state, exp[e].gen, exp[e].revision, d) IN
            state' = st \/ state' = Report(st, e, "encoding")
      BY <1>2, <2>2 DEF ExportJoined, ExportDrained, Encodes
    <3>3. state'.result = RefreshCounts(state, exp[e].gen, exp[e].revision, d).result
      BY <1>a, <1>c, <3>2, CountsShape DEF DownloadPhases
    <3>4. QED
      BY <1>a, <1>d, <3>1, <3>3
  <2>3. QED
    BY <2>1, <2>2
<1>3. CASE ExportDrainFails(e)
  BY <1>3, <1>a, <1>b, PageFailedDoes DEF ExportDrainFails, RowsStay, Errors
<1>4. QED
  BY <1>1, <1>2, <1>3 DEF ExportStep


\* The calls that cancel a sort, and those of the exporter.
LEMMA CallRowsStay ==
    ASSUME Assumptions, Shapes,
           \/ CancelSort
           \/ (\E e \in Exports : Download(e))
                \/ DownloadRefused \/ CancelDownload \/ SaveDownload \/ DismissDownload
    PROVE  RowsStay
<1> USE DEF SorterRest, ExporterRest
<1>a. /\ state \in StateShape /\ {exportGen, activeExport, retained} \subseteq {None} \cup Exports
      /\ activeSort \in {None} \cup Sorts
      /\ WithoutDownload(state) \in StateShape /\ WithoutDownload(state).result = state.result
  BY DownloadLeaves DEF Shapes, Typed, SameRows
<1>b. state'.result = state.result => RowsStay
  BY DEF RowsStay, SameButNotes
<1>c. \A phase \in DownloadPhases, g \in 1..(MaxExports + 1) : [gen |-> g, phase |-> phase] \in DownloadShape
  BY DEF DownloadShape
<1>d. Refused \in 1..(MaxExports + 1) /\ Refused \in Nat
      /\ \A e \in Exports : e \in 1..(MaxExports + 1) /\ e \in Nat
  BY DEF Refused, Exports, Assumptions, FamilyAssumption
<1>1. CASE CancelSort
  <2>1. activeSort \in Sorts /\ "cancelling" \in SortPhases
    BY <1>1, <1>a DEF CancelSort, SortPending, SortPhases
  <2>2. QED
    BY <1>1, <1>a, <1>b, <2>1, SortEventsDo DEF CancelSort, Progress
<1>2. ASSUME NEW e \in Exports, Download(e)
      PROVE  RowsStay
  <2>1. [gen |-> e, phase |-> "picking"] \in DownloadShape
    BY <1>c, <1>d DEF DownloadPhases
  <2>2. QED
    BY <1>2, <1>a, <1>b, <1>d, <2>1, DownloadEvents DEF Download, SameRows
<1>3. CASE DownloadRefused
  <2>1. [gen |-> Refused, phase |-> "failed"] \in DownloadShape
    BY <1>c, <1>d DEF DownloadPhases
  <2>2. QED
    BY <1>3, <1>a, <1>b, <1>d, <2>1, DownloadEvents DEF DownloadRefused, SameRows
<1>4. CASE CancelDownload
  <2>1. activeExport \in Exports /\ "cancelling" \in DownloadPhases
    BY <1>4, <1>a DEF CancelDownload, DownloadPhases
  <2>2. QED
    BY <1>4, <1>a, <1>b, <2>1, ReportShape DEF CancelDownload, SameRows
<1>5. CASE SaveDownload
  <2>1. retained \in Exports /\ \A phase \in {"saved", "failed"} : phase \in DownloadPhases
    BY <1>5, <1>a DEF SaveDownload, DownloadPhases
  <2>2. PICK phase \in {"saved", "failed"} :
          state' = DownloadUpdated(state, retained, [gen |-> retained, phase |-> phase])
    BY <1>5 DEF SaveDownload
  <2>3. [gen |-> retained, phase |-> phase] \in DownloadShape /\ retained \in Nat
    BY <1>c, <1>d, <2>1
  <2>4. QED
    BY <1>a, <1>b, <2>2, <2>3, DownloadEvents DEF SameRows
<1>6. CASE DismissDownload
  BY <1>6, <1>a, <1>b DEF DismissDownload
<1>7. QED
  BY <1>1, <1>2, <1>3, <1>4, <1>5, <1>6

\* Closing, withdrawing and opening only take rows away.
LEMMA WithdrawnRowsStay ==
    ASSUME Assumptions, Shapes,
           \/ (\E c \in closes : CloseStep(c)) \/ (\E q \in Queries : SessionCloses(q))
           \/ RunQuery \/ OpenFiles \/ Cancel \/ Dispose
           \/ (\E q \in Queries : StopCloses(q) \/ StopEnds(q)) \/ Planned \/ Opened
    PROVE  RowsStay
<1>a. /\ state \in StateShape
      /\ WithoutDownload(state) \in StateShape /\ WithoutDownload(state).result = state.result
  BY DownloadLeaves DEF Shapes, Typed, SameRows
<1>b. state'.result = state.result \/ state'.result = NoResult => RowsStay
  BY DEF RowsStay, SameButNotes
<1>c. \A st \in StateShape :
        /\ QueryStarted(st).result = st.result /\ Ready(st).result = st.result
        /\ Opening(st).result = NoResult /\ Failed(st).result = NoResult
        /\ Cancelled(st).result \in {st.result, NoResult}
  BY DEF QueryStarted, Ready, Opening, Failed, Cancelled, InitialState, StateShape
<1>1. CASE (\E c \in closes : CloseStep(c)) \/ (\E q \in Queries : SessionCloses(q))
  BY <1>1, <1>b DEF CloseStep, ReleasesView, CloseEnds, SessionCloses, storeVars
<1>2. CASE RunQuery \/ OpenFiles
  BY <1>2, <1>a, <1>b, <1>c DEF RunQuery, OpenFiles
<1>3. CASE Cancel
  <2> DEFINE shown == WithoutDownload(state)
  <2>1. PageFailed(shown, "final") \in StateShape /\ SameButNotes(shown.result, PageFailed(shown, "final").result)
    BY <1>a, NoteEvents, PageFailedDoes DEF Errors
  <2>2. PICK st \in {shown, PageFailed(shown, "final")} : state' = Cancelled(st)
    BY <1>3 DEF Cancel
  <2>3. st \in StateShape /\ SameButNotes(state.result, st.result)
    BY <1>a, <2>1, <2>2 DEF SameButNotes
  <2>4. QED
    BY <1>c, <2>2, <2>3 DEF RowsStay
<1>4. CASE Dispose
  BY <1>4, <1>b DEF Dispose, InitialState
<1>5. ASSUME NEW q \in Queries, StopCloses(q) \/ StopEnds(q)
      PROVE  RowsStay
  BY <1>5, <1>b, CloseDoes DEF StopCloses, StopEnds, familyVars, storeVars
<1>6. CASE Planned \/ Opened
  BY <1>6, <1>a, <1>b, <1>c DEF Planned, Opened
<1>7. QED
  BY <1>1, <1>2, <1>3, <1>4, <1>5, <1>6

\* An answer of an older query, page, sort or download never replaces the rows of a
\* newer one (result-session.ts:51-52).
THEOREM NothingLateIsShown ==
    ASSUME Assumptions
    PROVE  Spec => LateAnswersChangeNothing
<1> DEFINE Quiet == \/ state'.result = NoResult
                    \/ state'.result.gen = queryGen'
                    \/ [state'.result EXCEPT !.error = "none", !.loading = FALSE]
                         = [state.result EXCEPT !.error = "none", !.loading = FALSE]
<1>1. Shapes /\ Shapes' /\ [Next]_vars => [Quiet]_vars
  <2>1. SUFFICES ASSUME Shapes, Shapes', Next PROVE Quiet
    OBVIOUS
  <2>2. RowsStay
    BY <2>1, Steps, RunRowsStay, DemandRowsStay, SortRowsStay, ExportRowsStay, CallRowsStay, WithdrawnRowsStay
  <2>3. state.result \in ResultShape /\ state'.result \in ResultShape
    BY <2>1 DEF Shapes, Typed, StateShape
  <2>4. SameButNotes(state.result, state'.result) =>
          [state'.result EXCEPT !.error = "none", !.loading = FALSE]
            = [state.result EXCEPT !.error = "none", !.loading = FALSE]
    BY <2>3, SameRowsStay
  <2>5. QED
    BY <2>2, <2>4 DEF RowsStay
<1>2. QED
  BY <1>1, ShapesHold, PTL DEF Spec, LateAnswersChangeNothing


-----------------------------------------------------------------------------
(* The rows shown are those of the order the state names.  The invariant says   *)
(* how far a query, a sort and a demand have come when what they capture is      *)
(* still the state's: a run of the current query is over when its result is       *)
(* current, the active sort of the current query is the one the state shows, and  *)
(* a demand of the revision on display is of its order.                           *)

OrderInv ==
    /\ RunsInOrder /\ BaseInOrder /\ SortsInOrder /\ SortIsShown /\ SortReads
    /\ DemandsInOrder /\ RowsMatchOrder

\* Of an event: the rows of n, if any, are those of st in the same order, and none
\* becomes current.
SameShown(st, n) ==
    /\ n.current => st.current /\ (st.result # NoResult => n.result # NoResult)
    /\ n.result # NoResult =>
         /\ st.result # NoResult
         /\ n.result.gen = st.result.gen /\ n.result.window = st.result.window
         /\ n.result.revision = st.result.revision /\ n.result.sort = st.result.sort

\* The sort shown is the same, or goes with the standing of the rows.
SameSorting(st, n) ==
    /\ n.sorting \in {st.sorting, NoSorting}
    /\ n.current => n.sorting = st.sorting

\* A close shows no more than the state it found, and nothing of the current query.
FamilyCloses ==
    /\ base' = None /\ view' = NoView
    /\ SameShown(state, state') /\ SameSorting(state, state')
    /\ base # None /\ Shows(state, queryGen) => ~state'.current

LEMMA CloseDoesOrder ==
    ASSUME Shapes, NEW by, Close(by, state, queryGen)
    PROVE  FamilyCloses
<1>1. base' = None /\ view' = NoView
  BY DEF Close
<1>2. SameShown(state, state') /\ SameSorting(state, state')
  BY CloseDoes DEF SameShown, SameSorting, Shapes, Typed, StateShape
<1>3. QED
  BY <1>1, <1>2, CloseDoes DEF FamilyCloses

-----------------------------------------------------------------------------
(* The steps of execute().                                                   *)

RunGoesOn(q) ==
    /\ UNCHANGED <<base, view>>
    /\ SameShown(state, state') /\ SameSorting(state, state')
    /\ run'[q].at \in {"fetch", "read", "viewer"} => run[q].at \in {"fetch", "read", "viewer"}

RunStarts(q) ==
    /\ run[q].at = "start" /\ run'[q].at = "fetch"
    /\ q = queryGen /\ base' = q /\ view' = Base(q) /\ state' = state

RunCloses(q) == FamilyCloses /\ run'[q].at \in {"closing", "fail"}

RunSucceeds(q) ==
    /\ run[q].at \in {"read", "viewer"} /\ run'[q].at = "done"
    /\ q = queryGen /\ base = q /\ UNCHANGED <<base, view>>
    /\ HasResult' /\ state'.result.gen = q /\ state'.result.window = view
    /\ state'.result.revision = 0 /\ state'.result.sort = None
    /\ state'.current /\ state'.sorting = NoSorting

LEMMA RunDoes ==
    ASSUME Assumptions, Shapes, NEW q \in Queries, RunStep(q)
    PROVE  /\ UNCHANGED <<queryGen, dem, activeSort, srt>>
           /\ run[q].at \notin {"no", "done"} /\ run'[q].at # "no"
           /\ \A p \in Queries \ {q} : run'[p] = run[p]
           /\ RunGoesOn(q) \/ RunStarts(q) \/ RunCloses(q) \/ RunSucceeds(q)
<1> USE DEF SessionRest, sorterVars
<1>a. state \in StateShape /\ run \in [Queries -> RunShape]
  BY DEF Shapes, Typed
<1>b. state' = state => SameShown(state, state') /\ SameSorting(state, state')
  BY DEF SameShown, SameSorting
<1>1. UNCHANGED <<queryGen, dem, activeSort, srt>>
  BY DEF RunStep, RunCleaned, RunClosed, StartOk, StartFails, RunDropped, RunFetched, RunFetchFails,
         RunRead, RunReadFails, RunViewer, RunFailed, RunThrows
<1>c. run[q].at \notin {"no", "done"}
  BY DEF RunStep, RunCleaned, RunClosed, StartOk, StartFails, RunDropped, RunFetched, RunFetchFails,
         RunRead, RunReadFails, RunViewer, RunFailed
<1>d. run[q] \in RunningShape
  BY <1>a, <1>c DEF RunShape, Over
<1>e. /\ \A w : RunGoes(q, w) => run'[q].at = w /\ \A p \in Queries \ {q} : run'[p] = run[p]
      /\ RunEnds(q) => run'[q].at = "done" /\ \A p \in Queries \ {q} : run'[p] = run[p]
  BY <1>a, <1>d DEF RunGoes, RunEnds, RunningShape
<1>f. ASSUME RunFetched(q)
      PROVE  run'[q].at \in {"read", "done"} /\ \A p \in Queries \ {q} : run'[p] = run[p]
  <2>1. CASE IsCurrentQuery(q) /\ base = q
    BY <1>a, <1>d, <1>f, <2>1 DEF RunFetched, RunningShape
  <2>2. CASE ~(IsCurrentQuery(q) /\ base = q)
    BY <1>a, <1>f, <2>2 DEF RunFetched
  <2>3. QED
    BY <2>1, <2>2
<1>2. run'[q].at # "no" /\ \A p \in Queries \ {q} : run'[p] = run[p]
  BY <1>e, <1>f DEF RunStep, RunCleaned, RunClosed, StartOk, StartFails, RunDropped, RunFetchFails,
         RunRead, RunReadFails, RunViewer, RunFailed, RunThrows, Succeeds
<1>g. SUFFICES RunGoesOn(q) \/ RunStarts(q) \/ RunCloses(q) \/ RunSucceeds(q)
  BY <1>1, <1>2, <1>c
<1>3. CASE RunCleaned(q)
  BY <1>e, <1>3, CloseDoesOrder DEF RunCleaned, RunCloses
<1>4. CASE RunClosed(q)
  <2>1. PageFailed(state, "final").result # NoResult <=> state.result # NoResult
    BY <1>a, PageFailedDoes DEF Errors
  <2>2. SameShown(state, PageFailed(state, "final")) /\ SameSorting(state, PageFailed(state, "final"))
    BY <1>a, <2>1, PageFailedDoes DEF SameShown, SameSorting, SameButNotes, Errors
  <2>3. run'[q].at \in {"start", "done"}
    BY <1>e, <1>4 DEF RunClosed
  <2>4. QED
    BY <1>4, <1>b, <2>2, <2>3 DEF RunClosed, RunGoesOn
<1>5. CASE StartOk(q)
  <2>1. CASE IsCurrentQuery(q)
    BY <1>e, <1>5, <2>1 DEF StartOk, RunStarts, IsCurrentQuery
  <2>2. CASE ~IsCurrentQuery(q)
    BY <1>e, <1>b, <1>5, <2>2 DEF StartOk, RunGoesOn
  <2>3. QED
    BY <2>1, <2>2
<1>6. CASE StartFails(q) \/ RunFetchFails(q) \/ RunReadFails(q)
  <2>1. RunThrows(q)
    BY <1>6 DEF StartFails, RunFetchFails, RunReadFails
  <2>2. CASE IsCurrentQuery(q)
    BY <1>e, <2>1, <2>2, CloseDoesOrder DEF RunThrows, RunCloses
  <2>3. CASE ~IsCurrentQuery(q)
    BY <1>e, <1>b, <2>1, <2>3 DEF RunThrows, RunGoesOn
  <2>4. QED
    BY <2>2, <2>3
<1>7. CASE RunDropped(q)
  BY <1>e, <1>b, <1>7 DEF RunDropped, RunGoesOn
<1>8. CASE RunFetched(q)
  BY <1>f, <1>b, <1>8 DEF RunFetched, RunGoesOn
<1>9. CASE (RunRead(q) \/ RunViewer(q)) /\ Succeeds(q)
  <2>1. run'[q].at = "done" /\ UNCHANGED <<base, view>> /\ run[q].at \in {"read", "viewer"}
    BY <1>e, <1>9 DEF Succeeds, RunRead, RunViewer
  <2>2. CASE IsCurrentQuery(q) /\ base = q /\ view = run[q].read.view
    <3>1. run[q].read \in ReadShape
      BY <1>a, <2>1 DEF RunShape, Over, RunningShape
    <3> DEFINE r == Paged(q, run[q].read, 0, None, "none")
    <3>2. r.gen = q /\ r.window = view /\ r \in RowsShape
      BY <2>2, <3>1 DEF Paged, RowsShape, ReadShape, Errors
    <3>3. state' = QuerySucceeded(state, r)
      BY <1>9, <2>2 DEF Succeeds
    <3> HIDE DEF r
    <3>4. /\ state'.result.gen = q /\ state'.result.window = view
          /\ state'.result.revision = 0 /\ state'.result.sort = None
          /\ state'.current = TRUE /\ state'.sorting = NoSorting
      BY <1>a, <3>2, <3>3 DEF QuerySucceeded, StateShape, RowsShape
    <3>5. state'.result # NoResult
      BY <3>4 DEF NoResult, None, Queries
    <3>6. QED
      BY <2>1, <2>2, <3>4, <3>5 DEF RunSucceeds, IsCurrentQuery, HasResult
  <2>3. CASE ~(IsCurrentQuery(q) /\ base = q /\ view = run[q].read.view)
    BY <1>b, <1>9, <2>1, <2>3 DEF Succeeds, RunGoesOn
  <2>4. QED
    BY <2>2, <2>3
<1>10. CASE RunRead(q) /\ ~Succeeds(q)
  BY <1>e, <1>b, <1>10 DEF RunRead, RunGoesOn
<1>11. CASE RunFailed(q)
  <2>1. SameShown(state, QueryFailed(state)) /\ SameSorting(state, QueryFailed(state))
    BY <1>a DEF QueryFailed, SameShown, SameSorting, StateShape
  <2>2. QED
    BY <1>e, <1>11, <2>1 DEF RunFailed, RunGoesOn
<1>12. QED
  BY <1>3, <1>4, <1>5, <1>6, <1>7, <1>8, <1>9, <1>10, <1>11 DEF RunStep, RunViewer


LEMMA RunKeepsOrder ==
    ASSUME Assumptions, Shapes, Shapes', OrderInv, NEW q \in Queries, RunStep(q)
    PROVE  OrderInv'
<1>a. /\ UNCHANGED <<queryGen, dem, activeSort, srt>>
      /\ run[q].at \notin {"no", "done"} /\ run'[q].at # "no"
      /\ \A p \in Queries \ {q} : run'[p] = run[p]
      /\ RunGoesOn(q) \/ RunStarts(q) \/ RunCloses(q) \/ RunSucceeds(q)
  BY RunDoes
<1>b. /\ queryGen \in 0..MaxQueries /\ q \in Nat \ {0} /\ base \in {None} \cup Queries
      /\ state.current \in BOOLEAN /\ state'.current \in BOOLEAN
  BY DEF Shapes, Typed, StateShape, Queries
<1>c. HasResult => state.result.gen \in Queries
  BY DEF Shapes, Typed, StateShape, ResultShape, RowsShape, HasResult
<1>d. q <= queryGen /\ (HasResult => state.result.gen # q /\ run'[state.result.gen].at = "done")
  BY <1>a, <1>b, <1>c DEF OrderInv, RunsInOrder
<1>e. \A p \in Queries : run[p].at = "done" => run'[p].at = "done"
  BY <1>a
<1>1. RunsInOrder'
  <2>1. \A p \in Queries : run'[p].at # "no" => p <= queryGen'
    BY <1>a, <1>d DEF OrderInv, RunsInOrder
  <2>2. HasResult' => run'[state'.result.gen].at = "done"
    BY <1>a, <1>d DEF RunGoesOn, RunStarts, RunCloses, RunSucceeds, FamilyCloses, SameShown, HasResult
  <2>3. queryGen' # 0 /\ ~RunOver(queryGen)' => ~state'.current
    <3>1. ~RunOver(queryGen)' => ~RunOver(queryGen) \/ q # queryGen \/ queryGen = 0
      BY <1>a DEF RunOver
    <3>2. ASSUME queryGen # 0, ~RunOver(queryGen)' PROVE ~state'.current
      <4>1. ~RunOver(queryGen)
        BY <1>a, <1>b, <3>2 DEF RunOver, Queries
      <4>2. ~state.current
        BY <3>2, <4>1 DEF OrderInv, RunsInOrder
      <4>3. ~RunSucceeds(q)
        BY <1>a, <3>2 DEF RunSucceeds, RunOver
      <4>4. QED
        BY <1>a, <1>b, <4>2, <4>3 DEF RunGoesOn, RunStarts, RunCloses, FamilyCloses, SameShown
    <3>3. QED
      BY <1>a, <3>2
  <2>4. QED
    BY <2>1, <2>2, <2>3 DEF RunsInOrder
<1>2. BaseInOrder'
  <2>1. CASE RunGoesOn(q)
    BY <1>a, <1>b, <2>1 DEF RunGoesOn, SameShown, OrderInv, BaseInOrder, HasResult
  <2>2. CASE RunStarts(q)
    <3>1. ~state.current
      BY <1>b, <2>2 DEF RunStarts, OrderInv, RunsInOrder, RunOver
    <3>2. QED
      BY <1>a, <1>b, <1>d, <2>2, <3>1 DEF RunStarts, OrderInv, BaseInOrder, HasResult, Base
  <2>3. CASE RunCloses(q)
    <3>1. base' = None /\ (state'.current => HasResult')
      BY <2>3 DEF RunCloses, FamilyCloses, SameShown, OrderInv, BaseInOrder, HasResult
    <3>2. state'.current => state'.result.gen # queryGen
      <4>1. ASSUME state'.current, state'.result.gen = queryGen PROVE FALSE
        <5>1. state.current /\ state.result.gen = queryGen /\ HasResult
          BY <2>3, <3>1, <4>1 DEF RunCloses, FamilyCloses, SameShown, HasResult
        <5>2. base = queryGen /\ queryGen # 0
          BY <1>c, <5>1 DEF OrderInv, BaseInOrder, Queries
        <5>3. QED
          BY <2>3, <4>1, <5>1, <5>2 DEF RunCloses, FamilyCloses, Shows, HasResult, None
      <4>2. QED
        BY <4>1
    <3>3. QED
      BY <1>a, <3>1, <3>2 DEF BaseInOrder, None, Queries
  <2>4. CASE RunSucceeds(q)
    BY <1>a, <1>b, <2>4 DEF RunSucceeds, OrderInv, BaseInOrder, HasResult
  <2>5. QED
    BY <1>a, <2>1, <2>2, <2>3, <2>4
<1>3. SortsInOrder'
  <2>1. state'.sorting # NoSorting => srt'[state'.sorting.id].at # "no"
    BY <1>a DEF RunGoesOn, RunStarts, RunCloses, RunSucceeds, FamilyCloses, SameSorting, OrderInv,
      SortsInOrder
  <2>2. \A s \in Sorts : SortLive(s)' =>
           /\ srt'[s].base <= srt'[s].q /\ srt'[s].q <= queryGen'
           /\ srt'[s].base = queryGen' => run'[queryGen'].at = "done"
    <3>1. TAKE s \in Sorts
    <3>2. HAVE SortLive(s)'
    <3>3. /\ srt[s].base <= srt[s].q /\ srt[s].q <= queryGen
          /\ srt[s].base = queryGen => run[queryGen].at = "done"
      BY <1>a, <3>2 DEF SortLive, OrderInv, SortsInOrder
    <3>4. srt[s].base \in Queries
      BY <1>a, <3>2 DEF SortLive, Shapes, Typed, SortShape, Over, OrderingShape
    <3>5. QED
      BY <1>a, <1>e, <3>3, <3>4
  <2>3. QED
    BY <1>a, <2>1, <2>2 DEF OrderInv, SortsInOrder
<1>4. SortIsShown'
  <2>1. ASSUME activeSort # None, srt[activeSort].base = queryGen, state'.current
        PROVE  ~RunSucceeds(q)
    <3>1. SortLive(activeSort) /\ activeSort \in Sorts
      BY <2>1 DEF Shapes, Typed, HeldIsLive
    <3>2. run[queryGen].at = "done"
      BY <2>1, <3>1 DEF OrderInv, SortsInOrder
    <3>3. QED
      BY <3>2, <1>a DEF RunSucceeds
  <2>2. QED
    BY <1>a, <2>1
       DEF RunGoesOn, RunStarts, RunCloses, FamilyCloses, SameShown, SameSorting, OrderInv, SortIsShown,
           IsSorting, BaseInOrder, HasResult
<1>5. SortReads'
  BY <1>a DEF OrderInv, SortReads, SortedView
<1>6. DemandsInOrder'
  <2>1. SUFFICES ASSUME NEW d \in Demands, DemandLive(d)
                 PROVE  /\ run'[dem[d].gen].at = "done"
                        /\ HasResult' /\ dem[d].gen = state'.result.gen =>
                             /\ dem[d].revision <= state'.result.revision
                             /\ dem[d].revision = state'.result.revision => dem[d].sort = state'.result.sort
    BY <1>a DEF DemandsInOrder, DemandLive
  <2>2. dem[d].gen \in Queries /\ run[dem[d].gen].at = "done"
    BY <2>1, DemandUpdates DEF DemandLive, OrderInv, DemandsInOrder, Shapes, Typed, DemandedShape
  <2>3. dem[d].gen # q
    BY <1>a, <2>2
  <2>4. CASE RunSucceeds(q)
    BY <1>e, <2>2, <2>3, <2>4 DEF RunSucceeds
  <2>5. CASE ~RunSucceeds(q)
    BY <1>a, <1>e, <2>1, <2>2, <2>5
       DEF RunGoesOn, RunStarts, RunCloses, FamilyCloses, SameShown, OrderInv, DemandsInOrder, HasResult
  <2>6. QED
    BY <2>4, <2>5
<1>7. RowsMatchOrder'
  <2>1. CASE RunGoesOn(q)
    BY <2>1 DEF RunGoesOn, SameShown, OrderInv, RowsMatchOrder, BaseInOrder, HasResult
  <2>2. CASE RunStarts(q)
    BY <1>b, <2>2 DEF RunStarts, OrderInv, RunsInOrder, RowsMatchOrder, RunOver
  <2>3. CASE RunCloses(q)
    <3>1. ASSUME state'.current
          PROVE HasResult /\ state'.result.gen = state.result.gen /\ state'.result.gen # None
      BY <1>c, <2>3, <3>1 DEF RunCloses, FamilyCloses, SameShown, OrderInv, BaseInOrder, HasResult, None,
        Queries
    <3>2. QED
      BY <2>3, <3>1 DEF RunCloses, FamilyCloses, SameShown, OrderInv, RowsMatchOrder, BaseInOrder, HasResult
  <2>4. CASE RunSucceeds(q)
    <3>1. view = Base(q)
      BY <2>4 DEF RunSucceeds, OrderInv, BaseInOrder
    <3>2. QED
      BY <2>4, <3>1 DEF RunSucceeds, RowsMatchOrder, Base, None
  <2>5. QED
    BY <1>a, <2>1, <2>2, <2>3, <2>4
<1>8. QED
  BY <1>1, <1>2, <1>3, <1>4, <1>5, <1>6, <1>7 DEF OrderInv


-----------------------------------------------------------------------------
(* What a step that shows no other rows keeps.                                *)

LEMMA FamilyStays ==
    ASSUME Assumptions, Shapes, Shapes', OrderInv, UNCHANGED <<run, queryGen>>,
           SameShown(state, state'), UNCHANGED <<base, view>> \/ FamilyCloses
    PROVE  RunsInOrder' /\ BaseInOrder' /\ RowsMatchOrder'
<1>a. /\ queryGen \in 0..MaxQueries /\ base \in {None} \cup Queries
      /\ state.current \in BOOLEAN /\ state'.current \in BOOLEAN
      /\ HasResult => state.result.gen \in Queries
  BY DEF Shapes, Typed, StateShape, ResultShape, RowsShape, HasResult
<1>1. RunsInOrder'
  BY <1>a DEF SameShown, OrderInv, RunsInOrder, HasResult, RunOver
<1>2. CASE UNCHANGED <<base, view>>
  BY <1>a, <1>1, <1>2 DEF SameShown, OrderInv, BaseInOrder, RowsMatchOrder, HasResult
<1>3. CASE FamilyCloses
  <2>1. ASSUME state'.current
        PROVE  /\ HasResult /\ HasResult' /\ state.current /\ state'.result.gen = state.result.gen
               /\ state.result.gen \in Queries /\ state.result.gen # queryGen
    <3>1. HasResult /\ HasResult' /\ state.current /\ state'.result.gen = state.result.gen
      BY <2>1, <1>3 DEF FamilyCloses, SameShown, OrderInv, BaseInOrder, HasResult
    <3>2. state.result.gen = queryGen => base # None
      BY <1>a, <3>1 DEF OrderInv, BaseInOrder, None, Queries
    <3>3. QED
      BY <1>a, <1>3, <2>1, <3>1, <3>2 DEF FamilyCloses, Shows, HasResult
  <2>2. base' = None
    BY <1>3 DEF FamilyCloses
  <2>3. BaseInOrder'
    BY <1>a, <2>1, <2>2 DEF BaseInOrder, None, Queries
  <2>4. RowsMatchOrder'
    BY <1>3, <2>1, <2>2 DEF FamilyCloses, SameShown, OrderInv, RowsMatchOrder, None, Queries, HasResult
  <2>5. QED
    BY <1>1, <2>3, <2>4
<1>4. QED
  BY <1>1, <1>2, <1>3

LEMMA SortsStay ==
    ASSUME Assumptions, Shapes, OrderInv, UNCHANGED <<run, queryGen, activeSort, srt>>,
           SameShown(state, state'), SameSorting(state, state')
    PROVE  SortsInOrder' /\ SortIsShown' /\ SortReads'
<1>1. SortsInOrder'
  BY DEF SameSorting, OrderInv, SortsInOrder, SortLive
<1>2. SortIsShown'
  BY DEF SameShown, SameSorting, OrderInv, SortIsShown, IsSorting, BaseInOrder, HasResult
<1>3. SortReads'
  BY DEF OrderInv, SortReads, SortedView
<1>4. QED
  BY <1>1, <1>2, <1>3

\* A demand that goes on with what it captured, or captures what is shown.
DemandGoesOn(d) ==
    DemandLive(d)' =>
      \/ /\ DemandLive(d) /\ dem'[d].gen = dem[d].gen
         /\ dem'[d].revision = dem[d].revision /\ dem'[d].sort = dem[d].sort
      \/ /\ HasResult /\ dem'[d].gen = state.result.gen
         /\ dem'[d].revision = state.result.revision /\ dem'[d].sort = state.result.sort

LEMMA DemandsStay ==
    ASSUME Assumptions, Shapes, OrderInv, UNCHANGED run,
           SameShown(state, state'), \A d \in Demands : DemandGoesOn(d)
    PROVE  DemandsInOrder'
<1>1. SUFFICES ASSUME NEW d \in Demands, DemandLive(d)'
               PROVE  /\ run[dem'[d].gen].at = "done"
                      /\ HasResult' /\ dem'[d].gen = state'.result.gen =>
                           /\ dem'[d].revision <= state'.result.revision
                           /\ dem'[d].revision = state'.result.revision => dem'[d].sort = state'.result.sort
  BY DEF DemandsInOrder
<1>2. CASE /\ DemandLive(d) /\ dem'[d].gen = dem[d].gen
           /\ dem'[d].revision = dem[d].revision /\ dem'[d].sort = dem[d].sort
  BY <1>2 DEF SameShown, OrderInv, DemandsInOrder, HasResult
<1>3. CASE /\ HasResult /\ dem'[d].gen = state.result.gen
           /\ dem'[d].revision = state.result.revision /\ dem'[d].sort = state.result.sort
  <2>1. state.result.revision \in Nat
    BY <1>3 DEF HasResult, Shapes, Typed, StateShape, ResultShape, RowsShape
  <2>2. QED
    BY <1>3, <2>1 DEF SameShown, OrderInv, RunsInOrder, HasResult
<1>4. QED
  BY <1>1, <1>2, <1>3 DEF DemandGoesOn

LEMMA SameIsShown == SameShown(state, state) /\ SameSorting(state, state)
  BY DEF SameShown, SameSorting

\* A note on the rows changes neither them nor the sort shown.
LEMMA NotesShown ==
    ASSUME NEW st \in StateShape, NEW e \in Errors
    PROVE  /\ SameShown(st, PageFailed(st, e)) /\ SameSorting(st, PageFailed(st, e))
           /\ st.result # NoResult => SameShown(st, Loading(st)) /\ SameSorting(st, Loading(st))
<1>a. st.current \in BOOLEAN
  BY DEF StateShape
<1>1. SameShown(st, PageFailed(st, e)) /\ SameSorting(st, PageFailed(st, e))
  BY <1>a, PageFailedDoes DEF SameShown, SameSorting, SameButNotes
<1>2. st.result # NoResult => SameShown(st, Loading(st)) /\ SameSorting(st, Loading(st))
  BY <1>a, LoadingDoes DEF SameShown, SameSorting, SameButNotes
<1>3. QED
  BY <1>1, <1>2

LEMMA RecountShown ==
    ASSUME NEW st \in StateShape, NEW n \in StateShape, NEW q, NEW d, Recounted(st, n, q, d)
    PROVE  SameShown(st, n) /\ SameSorting(st, n)
<1>1. n.result \in RowsShape => n.result # NoResult
  BY DEF RowsShape, NoResult, None, Queries
<1>2. (n = st => SameShown(st, n)) /\ SameSorting(st, n)
  BY DEF SameShown, SameSorting, Recounted
<1>3. CASE n # st
  <2>1. st.current \in BOOLEAN
    BY DEF StateShape
  <2>2. SameShown(st, n)
    BY <1>1, <1>3, <2>1 DEF SameShown, Recounted, Shows
  <2>3. QED
    BY <1>2, <2>2
<1>4. QED
  BY <1>2, <1>3

-----------------------------------------------------------------------------
(* Page demands.                                                             *)

\* The window a demand publishes is read from the view on display, under its revision.
DemandShows(d) ==
    /\ UNCHANGED <<base, view>> /\ DemandLive(d)
    /\ DemandActive(d) /\ view = dem[d].read.view
    /\ HasResult' /\ dem[d].gen = state.result.gen /\ dem[d].revision = state.result.revision
    /\ state'.result.gen = dem[d].gen /\ state'.result.window = view
    /\ state'.result.revision = dem[d].revision /\ state'.result.sort = dem[d].sort
    /\ state'.current = state.current /\ state'.sorting = state.sorting

DemandShowsSame ==
    /\ SameShown(state, state') /\ SameSorting(state, state')
    /\ UNCHANGED <<base, view>> \/ FamilyCloses

LEMMA DemandDoes ==
    ASSUME Assumptions, Shapes, NEW d \in Demands, Demand(d) \/ DemandStep(d)
    PROVE  /\ UNCHANGED <<queryGen, run, activeSort, srt>>
           /\ \A c \in Demands : DemandGoesOn(c)
           /\ DemandShowsSame \/ DemandShows(d)
<1> USE DEF SessionRest, sorterVars
<1>a. state \in StateShape /\ dem \in [Demands -> DemandShape]
  BY DEF Shapes, Typed
<1>1. UNCHANGED <<queryGen, run, activeSort, srt>>
  BY DEF Demand, LoadMore, RetryPage, LoadWindow, DemandStep, DemandFetched, DemandFetchFails, DemandRead,
         DemandViewer, DemandReadFails, DemandGivesUp
<1>b. /\ \A x : dem' = [dem EXCEPT ![d] = x] => dem'[d] = x /\ \A c \in Demands \ {d} : dem'[c] = dem[c]
      /\ \A c \in Demands : dem'[c] = dem[c] => DemandGoesOn(c)
  BY <1>a DEF DemandGoesOn, DemandLive
<1>c. dem' = [dem EXCEPT ![d] = [at |-> "done"]] => \A c \in Demands : DemandGoesOn(c)
  BY <1>b DEF DemandGoesOn, DemandLive
<1>d. DemandEnds(d) => \A c \in Demands : DemandGoesOn(c)
  BY <1>c DEF DemandEnds
<1>e. dem[d].at \notin {"no", "done"} => dem[d] \in DemandedShape
  BY <1>a, DemandUpdates
<1>f. UNCHANGED <<base, view>> /\ state' = state => DemandShowsSame
  BY SameIsShown DEF DemandShowsSame
<1>2. CASE Demand(d)
  <2>1. /\ MayDemand(d) /\ UNCHANGED <<base, view>> /\ (state' = state \/ state' = Loading(state))
        /\ \E kind \in {"more", "retry", "window"}, at \in {"fetch", "read"} : Demanded(d, kind, at)
    BY <1>2 DEF Demand, LoadMore, RetryPage, LoadWindow
  <2>2. DemandShowsSame
    <3>1. SameShown(state, Loading(state)) /\ SameSorting(state, Loading(state))
      <4>1. state.result # NoResult /\ "none" \in Errors
        BY <2>1 DEF MayDemand, Errors
      <4>2. QED
        BY <1>a, <4>1, NotesShown
    <3>2. QED
      BY <1>f, <2>1, <3>1 DEF DemandShowsSame
  <2>3. DemandGoesOn(d)
    <3>1. PICK kind \in {"more", "retry", "window"}, at \in {"fetch", "read"} : Demanded(d, kind, at)
      BY <2>1
    <3>2. /\ dem'[d].gen = state.result.gen /\ dem'[d].revision = state.result.revision
          /\ dem'[d].sort = state.result.sort
      BY <1>a, <3>1 DEF Demanded
    <3>3. QED
      BY <2>1, <3>2 DEF DemandGoesOn, MayDemand, HasResult
  <2>4. \A c \in Demands \ {d} : dem'[c] = dem[c]
    BY <1>a, <2>1 DEF Demanded
  <2>5. QED
    BY <1>1, <1>b, <2>2, <2>3, <2>4
<1>3. CASE DemandFetched(d)
  <2>1. DemandShowsSame
    BY <1>3, <1>f DEF DemandFetched
  <2>2. CASE DemandActive(d)
    <3>1. dem[d] \in DemandedShape
      BY <1>3, <1>e DEF DemandFetched
    <3>2. /\ dem' = [dem EXCEPT ![d] = dem'[d]] /\ dem'[d].gen = dem[d].gen
          /\ dem'[d].revision = state.result.revision /\ dem'[d].sort = state.result.sort
      BY <1>3, <1>a, <2>2, <3>1 DEF DemandFetched, DemandedShape
    <3>3. HasResult /\ dem[d].gen = state.result.gen
      BY <2>2 DEF DemandActive, IsActiveResult, Shows, HasResult
    <3>4. DemandGoesOn(d)
      BY <3>2, <3>3 DEF DemandGoesOn
    <3>5. QED
      BY <1>1, <1>b, <2>1, <3>2, <3>4
  <2>3. CASE ~DemandActive(d)
    BY <1>1, <1>3, <1>d, <2>1, <2>3 DEF DemandFetched
  <2>4. QED
    BY <2>2, <2>3
<1>4. CASE DemandFetchFails(d)
  <2>1. DemandShowsSame
    BY <1>4, <1>a, <1>f, NotesShown DEF DemandFetchFails, DemandShowsSame, Errors
  <2>2. QED
    BY <1>1, <1>4, <1>d, <2>1 DEF DemandFetchFails
<1>g. ASSUME DemandPublishes(d), dem[d].at \in {"read", "viewer"}, UNCHANGED <<base, view>>
      PROVE  DemandShowsSame \/ DemandShows(d)
  <2> DEFINE r == Paged(dem[d].gen, dem[d].read, dem[d].revision, dem[d].sort, dem[d].error)
  <2>1. CASE DemandActive(d) /\ view = dem[d].read.view
    <3>1. r \in RowsShape
      BY <1>e, <1>g DEF DemandedShape, Paged, RowsShape, ReadShape
    <3>2. /\ r.gen = dem[d].gen /\ r.window = view /\ r.revision = dem[d].revision
          /\ r.sort = dem[d].sort
      BY <2>1 DEF Paged
    <3>3. r # NoResult
      BY <3>1 DEF RowsShape, NoResult, None, Queries
    <3>4. state' = WindowUpdated(state, r)
      BY <1>g, <2>1 DEF DemandPublishes
    <3> HIDE DEF r
    <3>5. CASE state' = state
      BY <1>f, <1>g, <3>5
    <3>6. CASE state' # state
      <4>1. /\ state'.current = state.current /\ state'.sorting = state.sorting
            /\ state'.result = r /\ r.gen = state.result.gen /\ r.revision = state.result.revision
        BY <1>a, <3>1, <3>4, <3>6, WindowUpdatedDoes
      <4>2. QED
        BY <1>g, <2>1, <3>2, <3>3, <4>1 DEF DemandShows, DemandLive, HasResult
    <3>7. QED
      BY <3>5, <3>6
  <2>2. CASE ~(DemandActive(d) /\ view = dem[d].read.view)
    BY <1>f, <1>g, <2>2 DEF DemandPublishes
  <2>3. QED
    BY <2>1, <2>2
<1>5. CASE DemandRead(d)
  <2>1. CASE DemandPublishes(d)
    BY <1>1, <1>5, <1>d, <1>g, <2>1 DEF DemandRead, DemandPublishes
  <2>2. CASE dem' = [dem EXCEPT ![d].at = "viewer"] /\ state' = state
    <3>1. dem[d] \in DemandedShape
      BY <1>5, <1>e DEF DemandRead
    <3>2. /\ dem'[d].gen = dem[d].gen /\ dem'[d].revision = dem[d].revision /\ dem'[d].sort = dem[d].sort
          /\ \A c \in Demands \ {d} : dem'[c] = dem[c]
      BY <1>a, <2>2, <3>1 DEF DemandedShape
    <3>3. DemandGoesOn(d)
      BY <1>5, <3>2 DEF DemandGoesOn, DemandRead, DemandLive
    <3>4. QED
      BY <1>1, <1>5, <1>b, <1>f, <2>2, <3>2, <3>3 DEF DemandRead
  <2>3. CASE DemandEnds(d) /\ state' = state
    BY <1>1, <1>5, <1>d, <1>f, <2>3 DEF DemandRead
  <2>4. QED
    BY <1>5, <2>1, <2>2, <2>3 DEF DemandRead
<1>6. CASE DemandViewer(d)
  BY <1>1, <1>6, <1>d, <1>g DEF DemandViewer, DemandPublishes
<1>7. CASE DemandReadFails(d)
  <2>1. CASE DemandActive(d)
    <3>1. PageFailed(state, "final") \in StateShape
      BY <1>a, NoteEvents DEF Errors
    <3>2. SameShown(state, state') /\ SameSorting(state, state')
      <4>1. SameRows(PageFailed(state, "final"), state')
        BY <1>7, <2>1, <3>1, DownloadLeaves DEF DemandReadFails
      <4>2. SameShown(state, PageFailed(state, "final")) /\ SameSorting(state, PageFailed(state, "final"))
        BY <1>a, NotesShown DEF Errors
      <4>3. QED
        BY <4>1, <4>2 DEF SameRows, SameShown, SameSorting
    <3>3. dem[d] \in DemandedShape
      BY <1>7, <1>e DEF DemandReadFails
    <3>4. /\ dem'[d].gen = dem[d].gen /\ dem'[d].revision = dem[d].revision /\ dem'[d].sort = dem[d].sort
          /\ \A c \in Demands \ {d} : dem'[c] = dem[c]
      BY <1>a, <1>7, <2>1, <3>3 DEF DemandReadFails, DemandedShape
    <3>5. DemandGoesOn(d)
      BY <1>7, <3>4 DEF DemandGoesOn, DemandReadFails, DemandLive
    <3>6. QED
      BY <1>1, <1>7, <1>b, <3>2, <3>4, <3>5 DEF DemandReadFails, DemandShowsSame
  <2>2. CASE ~DemandActive(d)
    BY <1>1, <1>7, <1>c, <1>f, <2>2 DEF DemandReadFails
  <2>3. QED
    BY <2>1, <2>2
<1>8. CASE DemandGivesUp(d)
  BY <1>1, <1>8, <1>c, <1>f, CloseDoesOrder DEF DemandGivesUp, DemandShowsSame, FamilyCloses
<1>9. QED
  BY <1>2, <1>3, <1>4, <1>5, <1>6, <1>7, <1>8 DEF DemandStep

LEMMA DemandKeepsOrder ==
    ASSUME Assumptions, Shapes, Shapes', OrderInv, NEW d \in Demands, Demand(d) \/ DemandStep(d)
    PROVE  OrderInv'
<1>a. /\ UNCHANGED <<queryGen, run, activeSort, srt>>
      /\ \A c \in Demands : DemandGoesOn(c)
      /\ DemandShowsSame \/ DemandShows(d)
  BY DemandDoes
<1>1. CASE DemandShowsSame
  BY <1>a, <1>1, FamilyStays, SortsStay, DemandsStay DEF DemandShowsSame, OrderInv
<1>2. CASE DemandShows(d)
  <2>a. /\ queryGen \in 0..MaxQueries /\ HasResult' /\ HasResult
        /\ state'.result.gen = state.result.gen /\ state'.result.revision = state.result.revision
        /\ dem[d].sort = state.result.sort
        /\ UNCHANGED <<base, view>> /\ dem[d].gen = queryGen /\ base = dem[d].base
    BY <1>2 DEF DemandShows, DemandActive, IsActiveResult, IsCurrentQuery, Shows, HasResult, OrderInv,
                DemandsInOrder, Shapes, Typed
  <2>1. RunsInOrder'
    BY <1>a, <1>2, <2>a DEF DemandShows, OrderInv, RunsInOrder, RunOver
  <2>2. BaseInOrder'
    BY <1>a, <1>2, <2>a DEF DemandShows, OrderInv, BaseInOrder
  <2>3. RowsMatchOrder'
    <3>1. state.current => base = state.result.gen /\ view = <<state.result.gen, state.result.sort>>
      BY <1>2, <2>a DEF DemandShows, OrderInv, BaseInOrder, RowsMatchOrder
    <3>2. QED
      BY <1>2, <2>a, <3>1 DEF DemandShows, RowsMatchOrder
  <2>4. SortsInOrder' /\ SortIsShown' /\ SortReads'
    BY <1>a, <1>2, <2>a DEF DemandShows, OrderInv, SortsInOrder, SortIsShown, SortReads, SortLive, IsSorting,
                            SortedView
  <2>5. DemandsInOrder'
    <3>1. SUFFICES ASSUME NEW c \in Demands, DemandLive(c)'
                   PROVE  /\ run[dem'[c].gen].at = "done"
                          /\ dem'[c].gen = state'.result.gen =>
                               /\ dem'[c].revision <= state'.result.revision
                               /\ dem'[c].revision = state'.result.revision => dem'[c].sort = state'.result.sort
      BY <1>a DEF DemandsInOrder
    <3>2. state'.result.sort = state.result.sort /\ state.result.revision \in Nat
      BY <1>2, <2>a DEF DemandShows, Shapes, Typed, StateShape, ResultShape, RowsShape, HasResult
    <3>3. QED
      BY <1>a, <2>a, <3>1, <3>2 DEF DemandGoesOn, OrderInv, DemandsInOrder, RunsInOrder
  <2>6. QED
    BY <2>1, <2>2, <2>3, <2>4, <2>5 DEF OrderInv
<1>3. QED
  BY <1>a, <1>1, <1>2


-----------------------------------------------------------------------------
(* Sorts.                                                                  *)

\* Sort s alone moves, to w with view v, read r and demand d; what it was asked stays.
SortTo(s, w, v, r, d) ==
    /\ \A x \in Sorts \ {s} : srt'[x] = srt[x]
    /\ srt'[s].at = w /\ srt'[s].view = v /\ srt'[s].read = r /\ srt'[s].demand = d
    /\ srt'[s].kind = srt[s].kind /\ srt'[s].q = srt[s].q /\ srt'[s].from = srt[s].from
    /\ srt'[s].base = srt[s].base /\ srt'[s].downloads = srt[s].downloads

SortAt(s, w)  == SortTo(s, w, srt[s].view, srt[s].read, srt[s].demand)
SortIsDone(s) == srt'[s].at = "done" /\ \A x \in Sorts \ {s} : srt'[x] = srt[x]

LEMMA SortFields ==
    ASSUME NEW s \in Sorts, srt \in [Sorts -> SortShape], srt[s].at \notin {"no", "done"}
    PROVE  /\ \A w : srt' = [srt EXCEPT ![s].at = w] => SortAt(s, w)
           /\ \A e : SortThrows(s, e) => SortAt(s, "unwind")
           /\ \A d : srt' = [srt EXCEPT ![s].at = "demand", ![s].demand = d] =>
                       SortTo(s, "demand", srt[s].view, srt[s].read, d)
           /\ \A v : srt' = [srt EXCEPT ![s].at = "release", ![s].view = v] =>
                       SortTo(s, "release", v, srt[s].read, srt[s].demand)
           /\ \A v, r : srt' = [srt EXCEPT ![s].at = "read", ![s].view = v, ![s].read = r] =>
                          SortTo(s, "read", v, r, srt[s].demand)
           /\ \A v, w, e, r :
                srt' = [srt EXCEPT ![s].view = v, ![s].at = w, ![s].error = e, ![s].read = r] =>
                  SortTo(s, w, v, r, srt[s].demand)
           /\ srt' = [srt EXCEPT ![s] = [at |-> "done"]] => SortIsDone(s)
<1>a. srt[s] \in OrderingShape
  BY DEF SortShape, Over
<1>1. \A w : srt' = [srt EXCEPT ![s].at = w] => SortAt(s, w)
  BY <1>a DEF SortAt, SortTo, OrderingShape
<1>2. \A e : SortThrows(s, e) => SortAt(s, "unwind")
  BY <1>a DEF SortThrows, SortAt, SortTo, OrderingShape
<1>3. \A d : srt' = [srt EXCEPT ![s].at = "demand", ![s].demand = d] =>
               SortTo(s, "demand", srt[s].view, srt[s].read, d)
  BY <1>a DEF SortTo, OrderingShape
<1>4. \A v : srt' = [srt EXCEPT ![s].at = "release", ![s].view = v] =>
               SortTo(s, "release", v, srt[s].read, srt[s].demand)
  BY <1>a DEF SortTo, OrderingShape
<1>5. \A v, r : srt' = [srt EXCEPT ![s].at = "read", ![s].view = v, ![s].read = r] =>
                  SortTo(s, "read", v, r, srt[s].demand)
  BY <1>a DEF SortTo, OrderingShape
<1>6. \A v, w, e, r :
        srt' = [srt EXCEPT ![s].view = v, ![s].at = w, ![s].error = e, ![s].read = r] =>
          SortTo(s, w, v, r, srt[s].demand)
  BY <1>a DEF SortTo, OrderingShape
<1>7. srt' = [srt EXCEPT ![s] = [at |-> "done"]] => SortIsDone(s)
  BY DEF SortIsDone
<1>8. QED
  BY <1>1, <1>2, <1>3, <1>4, <1>5, <1>6, <1>7

\* Where a step of a sort leads, and what it found.
SortTurn(s) ==
    \/ /\ srt[s].at = "cleanup" /\ CleanedUp(srt[s].downloads) /\ IsCurrentSort(s)
       /\ SortTo(s, "demand", srt[s].view, srt[s].read, demand)
    \/ /\ srt[s].at = "demand" /\ DemandSettled(srt[s].demand) /\ IsCurrentSort(s)
       /\ \/ srt[s].kind = "restore" /\ SortTo(s, "read", Base(base), Reading(Base(base), db), srt[s].demand)
          \/ /\ srt[s].kind = "order" /\ state.result.error = "none"
             /\ \/ db[base].whole /\ SortAt(s, "create")
                \/ ~db[base].whole /\ SortAt(s, "drain")
    \/ srt[s].at = "drain" /\ IsCurrentSort(s) /\ (SortAt(s, "create") \/ SortAt(s, "drain"))
    \/ /\ srt[s].at = "create" /\ \E w \in {"read", "unwind"} :
            SortTo(s, w, SortedView(s), Reading(SortedView(s), db), srt[s].demand)
    \/ srt[s].at \in {"cleanup", "demand", "drain", "create", "read"} /\ SortAt(s, "unwind")
    \/ /\ srt[s].at = "read" /\ IsCurrentSort(s) /\ Readable(srt[s].view)
       /\ SortTo(s, "release", view, srt[s].read, srt[s].demand)
    \/ srt[s].at \in {"unwind", "release"} /\ SortIsDone(s)

LEMMA SortTurns ==
    ASSUME Assumptions, Shapes, NEW s \in Sorts, SortStep(s)
    PROVE  srt[s] \in OrderingShape /\ SortTurn(s)
<1>a. srt \in [Sorts -> SortShape]
  BY DEF Shapes, Typed
<1>b. srt[s].at \notin {"no", "done"}
  BY DEF SortStep, SortCleaned, SortJoined, SortDrained, SortDrainFails, SortCreated, SortCreateFails,
         SortRead, SortReadFails, SortReleased, SortUnwound
<1>c. srt[s] \in OrderingShape
  BY <1>a, <1>b, SortUpdates
<1>d. \A e : SortThrows(s, e) => SortAt(s, "unwind")
  BY <1>a, <1>b, SortFields
<1>1. CASE SortCleaned(s)
  <2>1. \A d : srt' = [srt EXCEPT ![s].at = "demand", ![s].demand = d] =>
                 SortTo(s, "demand", srt[s].view, srt[s].read, d)
    BY <1>a, <1>b, SortFields
  <2>2. QED
    BY <1>1, <1>c, <1>d, <2>1 DEF SortCleaned, SortTurn
<1>2. CASE SortJoined(s)
  <2>1. \A v, r : srt' = [srt EXCEPT ![s].at = "read", ![s].view = v, ![s].read = r] =>
                    SortTo(s, "read", v, r, srt[s].demand)
    BY <1>a, <1>b, SortFields
  <2>2. \A w : SortGoes(s, w) => SortAt(s, w)
    BY <1>a, <1>b, SortFields DEF SortGoes
  <2>3. srt[s].kind \in {"order", "restore"}
    BY <1>c DEF OrderingShape
  <2>4. QED
    BY <1>2, <1>c, <1>d, <2>1, <2>2, <2>3 DEF SortJoined, SortTurn
<1>3. CASE SortDrained(s) \/ SortDrainFails(s)
  <2>1. \A w : SortGoes(s, w) => SortAt(s, w)
    BY <1>a, <1>b, SortFields DEF SortGoes
  <2>2. QED
    BY <1>3, <1>c, <1>d, <2>1 DEF SortDrained, SortDrainFails, SortTurn
<1>4. CASE SortCreated(s)
  <2>1. \A v, w, e, r :
          srt' = [srt EXCEPT ![s].view = v, ![s].at = w, ![s].error = e, ![s].read = r] =>
            SortTo(s, w, v, r, srt[s].demand)
    BY <1>a, <1>b, SortFields
  <2>2. PICK w \in {"read", "unwind"}, e \in {"none", "abort"} :
          srt' = [srt EXCEPT ![s].view = SortedView(s), ![s].at = w, ![s].error = e,
                             ![s].read = Reading(SortedView(s), db)]
    BY <1>4 DEF SortCreated, SortedView
  <2>3. QED
    BY <1>4, <1>c, <2>1, <2>2 DEF SortCreated, SortTurn
<1>5. CASE SortCreateFails(s) \/ SortReadFails(s)
  BY <1>5, <1>c, <1>d DEF SortCreateFails, SortReadFails, SortTurn
<1>6. CASE SortRead(s)
  <2>1. \A v : srt' = [srt EXCEPT ![s].at = "release", ![s].view = v] =>
                 SortTo(s, "release", v, srt[s].read, srt[s].demand)
    BY <1>a, <1>b, SortFields
  <2>2. QED
    BY <1>6, <1>c, <1>d, <2>1 DEF SortRead, Commits, SortTurn
<1>7. CASE SortReleased(s) \/ SortUnwound(s)
  BY <1>7, <1>a, <1>b, <1>c, SortFields DEF SortReleased, SortUnwound, SortTurn
<1>8. QED
  BY <1>1, <1>2, <1>3, <1>4, <1>5, <1>6, <1>7 DEF SortStep


\* What a report of sort s does to the sort shown.
SortReports(s) ==
    \/ state'.sorting = state.sorting
    \/ state'.sorting = NoSorting /\ state.sorting.id = s /\ activeSort' # s
    \/ /\ state'.sorting # NoSorting /\ state'.sorting.id = s /\ s >= state.sorting.id
       /\ activeSort' = s => state'.sorting.phase # "failed"

SortShowsSame(s) ==
    /\ view' = view /\ SameShown(state, state') /\ SortReports(s)
    /\ activeSort' \in {activeSort, None} /\ (activeSort' # activeSort => activeSort = s)

SortCommits(s) ==
    /\ srt[s].at = "read" /\ IsCurrentSort(s)
    /\ srt[s].read.whole /\ srt[s].read.rows = state.result.rows
    /\ Commits(s)

LEMMA ProgressShown ==
    ASSUME NEW s \in Sorts, srt \in [Sorts -> SortShape],
           NEW st \in StateShape, NEW phase \in SortPhases
    PROVE  LET n == Progress(st, s, phase) IN
           /\ SameShown(st, n) /\ n.result = st.result /\ n.current = st.current
           /\ n.sorting # st.sorting =>
                n.sorting.id = s /\ n.sorting # NoSorting /\ n.sorting.phase = phase /\ s >= st.sorting.id
<1> DEFINE n == Progress(st, s, phase)
<1>1. st.current \in BOOLEAN
  BY DEF StateShape
<1>2. /\ n.result = st.result /\ n.current = st.current
      /\ n.sorting \in {st.sorting, [id |-> s, phase |-> phase]}
      /\ n.sorting # st.sorting => s >= st.sorting.id
  BY SortEventsDo DEF Progress
<1>3. [id |-> s, phase |-> phase] # NoSorting
  BY DEF NoSorting, None, Sorts
<1> HIDE DEF n
<1>4. SameShown(st, n)
  BY <1>1, <1>2 DEF SameShown
<1>5. n.sorting # st.sorting =>
        n.sorting.id = s /\ n.sorting # NoSorting /\ n.sorting.phase = phase /\ s >= st.sorting.id
  BY <1>2, <1>3
<1>6. QED
  BY <1>2, <1>4, <1>5 DEF n

LEMMA SortStateDoes ==
    ASSUME Assumptions, Shapes, Shapes', NEW s \in Sorts, SortStep(s)
    PROVE  /\ UNCHANGED <<queryGen, base, run, dem>>
           /\ SortShowsSame(s) \/ SortCommits(s)
<1> USE DEF SorterRest
<1>a. /\ srt \in [Sorts -> SortShape] /\ state \in StateShape
      /\ db \in [Queries -> DbShape] /\ db' \in [Queries -> DbShape] /\ state.current \in BOOLEAN
  BY DEF Shapes, Typed, StateShape
<1>1. UNCHANGED <<queryGen, base, run, dem>>
  BY DEF SortStep, SortCleaned, SortJoined, SortDrained, SortDrainFails, SortCreated, SortCreateFails,
         SortRead, SortReadFails, SortReleased, SortUnwound
<1>b. state' = state => SameShown(state, state') /\ SortReports(s)
  BY SameIsShown DEF SortReports
<1>2. CASE SortCleaned(s) \/ SortJoined(s) \/ SortCreated(s) \/ SortCreateFails(s) \/ SortReadFails(s)
           \/ SortReleased(s)
  BY <1>1, <1>2, <1>b
     DEF SortCleaned, SortJoined, SortCreated, SortCreateFails, SortReadFails, SortReleased, SortShowsSame
<1>3. CASE SortDrained(s)
  <2>1. CASE IsCurrentSort(s)
    <3> DEFINE st == RefreshCounts(state, srt[s].q, state.result.revision, db')
    <3>1. Recounted(state, st, srt[s].q, db') /\ st \in StateShape
      BY <1>a, CountsDo, CountsShape
    <3>2. state' = Progress(st, s, "loading") /\ view' = view /\ activeSort' = activeSort
      BY <1>3, <2>1 DEF SortDrained
    <3> HIDE DEF st
    <3>3. SameShown(state, st) /\ st.sorting = state.sorting
      BY <1>a, <3>1, RecountShown DEF Recounted
    <3>4. "loading" \in SortPhases
      BY DEF SortPhases
    <3>5. /\ SameShown(st, state')
          /\ state'.sorting # st.sorting =>
               /\ state'.sorting.id = s /\ state'.sorting # NoSorting
               /\ state'.sorting.phase = "loading" /\ s >= st.sorting.id
      BY <1>a, <3>1, <3>2, <3>4, ProgressShown
    <3>6. SameShown(state, state')
      BY <3>3, <3>5 DEF SameShown
    <3>7. SortReports(s)
      BY <3>3, <3>5 DEF SortReports
    <3>8. QED
      BY <1>1, <3>2, <3>6, <3>7 DEF SortShowsSame
  <2>2. CASE ~IsCurrentSort(s)
    BY <1>1, <1>3, <1>b, <2>2 DEF SortDrained, SortShowsSame
  <2>3. QED
    BY <2>1, <2>2
<1>4. CASE SortDrainFails(s)
  <2>1. \A e \in Errors : SameShown(state, PageFailed(state, e)) /\ PageFailed(state, e).sorting = state.sorting
    BY <1>a, NotesShown, PageFailedDoes
  <2>2. SameShown(state, state') /\ state'.sorting = state.sorting
    BY <1>4, <1>b, <2>1 DEF SortDrainFails, Errors
  <2>3. QED
    BY <1>1, <1>4, <2>2 DEF SortDrainFails, SortShowsSame, SortReports
<1>5. CASE SortRead(s)
  BY <1>1, <1>5, <1>b DEF SortRead, SortCommits, SortShowsSame
<1>6. CASE SortUnwound(s)
  <2>1. activeSort' # s /\ activeSort' \in {activeSort, None} /\ (activeSort' # activeSort => activeSort = s)
    BY <1>6 DEF SortUnwound, None, Sorts
  <2>2. CASE state' = state
    BY <1>1, <1>6, <1>b, <2>1, <2>2 DEF SortUnwound, SortShowsSame
  <2>3. CASE state' = Progress(state, s, "failed")
    <3>1. "failed" \in SortPhases
      BY DEF SortPhases
    <3>2. /\ SameShown(state, state')
          /\ state'.sorting # state.sorting =>
               state'.sorting.id = s /\ state'.sorting # NoSorting /\ s >= state.sorting.id
      BY <1>a, <2>3, <3>1, ProgressShown
    <3>3. QED
      BY <1>1, <1>6, <2>1, <3>2 DEF SortUnwound, SortShowsSame, SortReports
  <2>4. CASE state' = SortEnded(state, srt[s].q, s)
    <3>1. /\ state'.result = state.result /\ state'.current = state.current
          /\ state'.sorting \in {state.sorting, NoSorting}
          /\ state'.sorting # state.sorting => state.sorting.id = s
      BY <1>a, <2>4, SortEndedDoes
    <3>2. SameShown(state, state')
      BY <1>a, <3>1 DEF SameShown
    <3>3. SortReports(s)
      BY <2>1, <3>1 DEF SortReports
    <3>4. QED
      BY <1>1, <1>6, <2>1, <3>2, <3>3 DEF SortUnwound, SortShowsSame
  <2>5. QED
    BY <1>6, <2>2, <2>3, <2>4 DEF SortUnwound, Outcome
<1>7. QED
  BY <1>2, <1>3, <1>4, <1>5, <1>6 DEF SortStep


\* Where the sorts are after a step of one of them.
LEMMA SortMoves ==
    ASSUME Assumptions, Shapes, OrderInv, NEW s \in Sorts, SortStep(s)
    PROVE  /\ SortLive(s) /\ srt'[s].at # "no"
           /\ \A x \in Sorts \ {s} : srt'[x] = srt[x]
           /\ SortLive(s)' =>
                /\ srt'[s].kind = srt[s].kind /\ srt'[s].q = srt[s].q
                /\ srt'[s].from = srt[s].from /\ srt'[s].base = srt[s].base
           /\ SortReads'
<1>1. srt[s] \in OrderingShape /\ SortTurn(s)
  BY SortTurns
<1>2. SortLive(s) /\ srt'[s].at # "no"
  BY <1>1 DEF SortTurn, SortLive, SortTo, SortAt, SortIsDone, OrderingShape
<1>3. \A x \in Sorts \ {s} : srt'[x] = srt[x]
  BY <1>1 DEF SortTurn, SortTo, SortAt, SortIsDone
<1>4. SortLive(s)' =>
        /\ srt'[s].kind = srt[s].kind /\ srt'[s].q = srt[s].q
        /\ srt'[s].from = srt[s].from /\ srt'[s].base = srt[s].base
  BY <1>1 DEF SortTurn, SortTo, SortAt, SortIsDone, SortLive
<1>5. SortReads'
  <2> DEFINE Reads(x) ==
        /\ srt[x].at \in {"cleanup", "demand", "drain", "create"} => srt[x].view = NoView
        /\ srt[x].at \in {"drain", "create"} => srt[x].kind = "order"
        /\ srt[x].at = "read" =>
             /\ srt[x].read.view = srt[x].view
             /\ srt[x].view = IF srt[x].kind = "order" THEN SortedView(x) ELSE Base(srt[x].base)
        /\ srt[x].at = "unwind" => srt[x].view \in {NoView, SortedView(x), Base(srt[x].base)}
  <2>1. \A x \in Sorts : Reads(x)
    BY DEF OrderInv, SortReads
  <2>2. \A x \in Sorts \ {s} : Reads(x)'
    BY <1>3, <2>1 DEF SortedView
  <2>3. \A v, d : Reading(v, d).view = v
    BY DEF Reading
  <2>4. Reads(s)'
    <3>1. IsCurrentSort(s) => base = srt[s].base
      BY DEF IsCurrentSort
    <3>2. CASE \E w \in {"read", "unwind"} :
                 srt[s].at = "create" /\ SortTo(s, w, SortedView(s), Reading(SortedView(s), db), srt[s].demand)
      BY <2>1, <2>3, <3>2 DEF SortTo, SortedView
    <3>3. CASE srt[s].at = "demand" /\ IsCurrentSort(s)
                 /\ srt[s].kind = "restore" /\ SortTo(s, "read", Base(base), Reading(Base(base), db), srt[s].demand)
      BY <2>1, <2>3, <3>1, <3>3 DEF SortTo, SortedView
    <3>4. CASE srt[s].at \in {"cleanup", "demand", "drain", "create", "read"} /\ SortAt(s, "unwind")
      BY <2>1, <3>4 DEF SortAt, SortTo, SortedView
    <3>5. CASE srt[s].at \in {"unwind", "release"} /\ SortIsDone(s)
      BY <3>5 DEF SortIsDone
    <3>6. CASE srt[s].at = "read" /\ SortTo(s, "release", view, srt[s].read, srt[s].demand)
      BY <3>6 DEF SortTo
    <3>7. CASE srt[s].at = "cleanup" /\ SortTo(s, "demand", srt[s].view, srt[s].read, demand)
      BY <2>1, <3>7 DEF SortTo
    <3>8. CASE /\ srt[s].at = "drain" \/ (srt[s].at = "demand" /\ srt[s].kind = "order")
               /\ SortAt(s, "create") \/ SortAt(s, "drain")
      BY <2>1, <3>8 DEF SortAt, SortTo
    <3>9. QED
      BY <1>1, <3>2, <3>3, <3>4, <3>5, <3>6, <3>7, <3>8 DEF SortTurn
  <2>5. QED
    BY <2>2, <2>4 DEF SortReads, SortedView
<1>6. QED
  BY <1>2, <1>3, <1>4, <1>5

LEMMA SortKeepsOrder ==
    ASSUME Assumptions, Shapes, Shapes', OrderInv, NEW s \in Sorts, SortStep(s)
    PROVE  OrderInv'
<1>a. /\ UNCHANGED <<queryGen, base, run, dem>>
      /\ SortShowsSame(s) \/ SortCommits(s)
  BY SortStateDoes
<1>b. /\ SortLive(s) /\ srt'[s].at # "no"
      /\ \A x \in Sorts \ {s} : srt'[x] = srt[x]
      /\ SortLive(s)' =>
           /\ srt'[s].kind = srt[s].kind /\ srt'[s].q = srt[s].q
           /\ srt'[s].from = srt[s].from /\ srt'[s].base = srt[s].base
      /\ SortReads'
  BY SortMoves
<1>c. /\ activeSort \in {None} \cup Sorts /\ s \in Nat /\ s # None
      /\ queryGen \in 0..MaxQueries /\ base \in {None} \cup Queries
      /\ state.current \in BOOLEAN /\ state'.current \in BOOLEAN
      /\ HasResult => state.result \in RowsShape /\ state.result.gen \in Queries
  BY DEF Shapes, Typed, StateShape, ResultShape, RowsShape, HasResult, Sorts, None
<1>d. \A x \in Sorts : SortLive(x)' =>
        /\ srt'[x].base <= srt'[x].q /\ srt'[x].q <= queryGen
        /\ srt'[x].base = queryGen => run[queryGen].at = "done"
  <2>1. \A x \in Sorts : SortLive(x)' =>
          SortLive(x) /\ srt'[x].base = srt[x].base /\ srt'[x].q = srt[x].q
    BY <1>b DEF SortLive
  <2>2. QED
    BY <2>1 DEF OrderInv, SortsInOrder
<1>e. /\ \A r, x \in Sorts : r < x /\ srt'[x].at # "no" => srt'[r].at # "no"
      /\ \A x \in Sorts : srt[x].at = "no" => srt'[x].at = "no" /\ x # s
  BY <1>b DEF OrderInv, SortsInOrder, SortLive
<1>1. CASE SortShowsSame(s)
  <2>1. RunsInOrder' /\ BaseInOrder' /\ RowsMatchOrder'
    BY <1>a, <1>1, FamilyStays DEF SortShowsSame
  <2>2. DemandsInOrder'
    <3>1. \A d \in Demands : DemandGoesOn(d)
      BY <1>a DEF DemandGoesOn, DemandLive
    <3>2. QED
      BY <1>a, <1>1, <3>1, DemandsStay DEF SortShowsSame
  <2>3. SortsInOrder'
    <3>1. activeSort' # None => \A x \in Sorts : x > activeSort' => srt'[x].at = "no"
      BY <1>1, <1>e DEF SortShowsSame, OrderInv, SortsInOrder
    <3>2. state'.sorting # NoSorting => srt'[state'.sorting.id].at # "no"
      <4>1. state.sorting # NoSorting => state.sorting.id \in Sorts
        BY DEF Shapes, Typed, StateShape, SortingShape
      <4>2. state.sorting # NoSorting => srt'[state.sorting.id].at # "no"
        BY <1>b, <4>1 DEF OrderInv, SortsInOrder
      <4>3. QED
        BY <1>1, <1>b, <4>2 DEF SortShowsSame, SortReports
    <3>3. QED
      BY <1>a, <1>d, <1>e, <3>1, <3>2 DEF SortsInOrder
  <2>4. SortIsShown'
    <3>1. SUFFICES ASSUME activeSort' # None, srt'[activeSort'].base = queryGen, state'.current
                   PROVE  /\ state'.sorting.id = activeSort' /\ IsSorting(state')
                          /\ state'.result.revision = srt'[activeSort'].from
      BY <1>a DEF SortIsShown, IsSorting
    <3>2. activeSort' = activeSort /\ activeSort \in Sorts /\ SortLive(activeSort)'
      BY <1>1, <1>c, <3>1 DEF SortShowsSame, Shapes, HeldIsLive
    <3>3. srt[activeSort].base = queryGen /\ srt'[activeSort].from = srt[activeSort].from
      BY <1>b, <3>1, <3>2
    <3>4. state.current
      BY <1>1, <3>1 DEF SortShowsSame, SameShown
    <3>5. /\ state.sorting.id = activeSort /\ IsSorting(state)
          /\ state.result.revision = srt[activeSort].from
      BY <3>2, <3>3, <3>4 DEF OrderInv, SortIsShown, Sorts, None
    <3>6. state'.result.revision = state.result.revision
      BY <1>1, <3>1, <3>4 DEF SortShowsSame, SameShown, OrderInv, BaseInOrder, HasResult
    <3>7. state'.sorting.id = activeSort' /\ IsSorting(state')
      <4>1. CASE s = activeSort
        BY <1>1, <3>2, <3>5, <4>1 DEF SortShowsSame, SortReports, IsSorting
      <4>2. CASE s # activeSort
        <5>1. s < activeSort
          <6>1. ~(s > activeSort)
            BY <1>b, <3>1, <3>2 DEF OrderInv, SortsInOrder, SortLive
          <6>2. QED
            BY <1>c, <3>2, <4>2, <6>1 DEF Sorts
        <5>2. state'.sorting = state.sorting
          BY <1>1, <1>c, <3>2, <3>5, <5>1 DEF SortShowsSame, SortReports, Sorts
        <5>3. QED
          BY <3>2, <3>5, <5>2 DEF IsSorting
      <4>3. QED
        BY <4>1, <4>2
    <3>8. QED
      BY <3>2, <3>3, <3>5, <3>6, <3>7
  <2>5. QED
    BY <1>b, <2>1, <2>2, <2>3, <2>4 DEF OrderInv
<1>2. CASE SortCommits(s)
  <2>a. /\ HasResult /\ state.result.gen = queryGen /\ srt[s].q = queryGen /\ srt[s].base = base
        /\ activeSort = s /\ base = queryGen /\ run[queryGen].at = "done" /\ queryGen \in Queries
        /\ activeSort' = None /\ view' = srt[s].view /\ srt[s].at = "read"
    <3>1. /\ HasResult /\ state.result.gen = queryGen /\ srt[s].q = queryGen /\ srt[s].base = base
          /\ activeSort = s /\ activeSort' = None /\ view' = srt[s].view /\ srt[s].at = "read"
      BY <1>2 DEF SortCommits, Commits, IsCurrentSort, Shows, HasResult
    <3>2. srt[s].base \in Queries
      BY <1>b DEF SortLive, Shapes, Typed, SortShape, Over, OrderingShape
    <3>3. QED
      BY <1>c, <3>1, <3>2 DEF OrderInv, BaseInOrder, RunsInOrder, None, Queries
  <2>b. /\ srt[s].read.view = srt[s].view
        /\ srt[s].view = IF srt[s].kind = "order" THEN <<base, s>> ELSE Base(base)
    BY <2>a DEF OrderInv, SortReads, SortedView
  <2>c. state.current => IsSortRequest(state, queryGen, s) /\ state.result.revision = srt[s].from
    BY <1>c, <2>a DEF OrderInv, SortIsShown, IsSortRequest, Shows, HasResult, IsSorting
  <2> DEFINE r == Paged(srt[s].q, srt[s].read, srt[s].from + 1, IF srt[s].kind = "order" THEN s ELSE None, "none")
  <2>d. /\ r.gen = queryGen /\ r.window = srt[s].view /\ r.revision = srt[s].from + 1
        /\ r.sort = (IF srt[s].kind = "order" THEN s ELSE None)
        /\ r.complete /\ r.rows = state.result.rows
    BY <1>2, <2>a, <2>b DEF Paged, SortCommits
  <2>e. /\ state' = OrderCommitted(state, queryGen, s, srt[s].from, r)
        /\ r \in RowsShape
    <3>1. state' = OrderCommitted(state, queryGen, s, srt[s].from, r)
      BY <1>2, <2>a DEF SortCommits, Commits
    <3>2. srt[s] \in OrderingShape
      BY SortTurns
    <3>3. r \in RowsShape
      BY <2>a, <3>2 DEF Paged, OrderingShape, ReadShape, RowsShape, Errors, None
    <3>4. QED
      BY <3>1, <3>3
  <2> HIDE DEF r
  <2>f. IF state.current
        THEN /\ HasResult' /\ state'.current /\ state'.sorting = NoSorting
             /\ state'.result.gen = queryGen /\ state'.result.window = srt[s].view
             /\ state'.result.revision = state.result.revision + 1
             /\ state'.result.sort = (IF srt[s].kind = "order" THEN s ELSE None)
        ELSE state' = state
    <3>1. CASE state.current
      <4>1. state' = [state EXCEPT !.result = [r EXCEPT !.error = "none"], !.sorting = NoSorting]
        BY <2>a, <2>c, <2>d, <2>e, <3>1 DEF OrderCommitted
      <4>2. state \in StateShape
        BY DEF Shapes, Typed
      <4>3. /\ state'.current = state.current /\ state'.sorting = NoSorting
            /\ state'.result.gen = r.gen /\ state'.result.window = r.window
            /\ state'.result.revision = r.revision /\ state'.result.sort = r.sort
        BY <2>e, <4>1, <4>2 DEF StateShape, RowsShape
      <4>4. state'.result # NoResult
        BY <2>a, <2>d, <4>3 DEF NoResult, None, Queries
      <4>5. QED
        BY <2>c, <2>d, <3>1, <4>3, <4>4 DEF HasResult
    <3>2. CASE ~state.current
      BY <2>e, <3>2 DEF OrderCommitted, IsSortRequest
    <3>3. QED
      BY <3>1, <3>2
  <2>g. HasResult' /\ state'.result.gen = queryGen /\ state'.current = state.current
    BY <2>a, <2>f, <1>c DEF HasResult
  <2>1. RunsInOrder'
    BY <1>a, <2>a, <2>g DEF OrderInv, RunsInOrder, RunOver
  <2>2. BaseInOrder'
    BY <1>a, <2>a, <2>g DEF OrderInv, BaseInOrder
  <2>3. RowsMatchOrder'
    BY <1>a, <2>a, <2>b, <2>f, <2>g DEF OrderInv, RowsMatchOrder, Base, None
  <2>4. SortsInOrder'
    <3>1. state'.sorting # NoSorting => srt'[state'.sorting.id].at # "no"
      <4>1. state'.sorting # NoSorting => state'.sorting = state.sorting /\ state.sorting.id \in Sorts
        BY <2>f DEF Shapes, Typed, StateShape, SortingShape
      <4>2. QED
        BY <1>b, <4>1 DEF OrderInv, SortsInOrder
    <3>2. QED
      BY <1>a, <1>d, <1>e, <2>a, <3>1 DEF SortsInOrder
  <2>5. SortIsShown'
    BY <2>a DEF SortIsShown
  <2>6. DemandsInOrder'
    <3>1. SUFFICES ASSUME NEW d \in Demands, DemandLive(d)
                   PROVE  /\ run[dem[d].gen].at = "done"
                          /\ dem[d].gen = queryGen =>
                               /\ dem[d].revision <= state'.result.revision
                               /\ dem[d].revision = state'.result.revision => dem[d].sort = state'.result.sort
      BY <1>a, <2>g DEF DemandsInOrder, DemandLive
    <3>2. /\ run[dem[d].gen].at = "done"
          /\ dem[d].gen = queryGen =>
               /\ dem[d].revision <= state.result.revision
               /\ dem[d].revision = state.result.revision => dem[d].sort = state.result.sort
      BY <2>a, <3>1 DEF OrderInv, DemandsInOrder
    <3>3. dem[d].revision \in Nat /\ state.result.revision \in Nat
      BY <1>c, <2>a, <3>1, DemandUpdates DEF DemandLive, Shapes, Typed, DemandedShape, RowsShape
    <3>4. QED
      BY <2>f, <3>2, <3>3
  <2>7. QED
    BY <1>b, <2>1, <2>2, <2>3, <2>4, <2>5, <2>6 DEF OrderInv
<1>3. QED
  BY <1>a, <1>1, <1>2


-----------------------------------------------------------------------------
(* The other calls, and what they withdraw.                                   *)

\* A step that neither moves the generations nor shows other rows.
QuietStep ==
    /\ UNCHANGED <<run, queryGen, activeSort, srt, dem>>
    /\ SameShown(state, state') /\ SameSorting(state, state')
    /\ UNCHANGED <<base, view>> \/ FamilyCloses

LEMMA QuietKeepsOrder ==
    ASSUME Assumptions, Shapes, Shapes', OrderInv, QuietStep
    PROVE  OrderInv'
<1>1. \A d \in Demands : DemandGoesOn(d)
  BY DEF QuietStep, DemandGoesOn, DemandLive
<1>2. QED
  BY <1>1, FamilyStays, SortsStay, DemandsStay DEF QuietStep, OrderInv

\* An event that changes only the download shows the same.
LEMMA SameRowsShown ==
    ASSUME NEW st \in StateShape, NEW n, SameRows(st, n)
    PROVE  SameShown(st, n) /\ SameSorting(st, n)
<1>1. st.current \in BOOLEAN
  BY DEF StateShape
<1>2. QED
  BY <1>1 DEF SameRows, SameShown, SameSorting

LEMMA SameShownThen ==
    ASSUME NEW st \in StateShape, NEW m \in StateShape, NEW n \in StateShape,
           SameShown(st, m), SameSorting(st, m), SameRows(m, n)
    PROVE  SameShown(st, n) /\ SameSorting(st, n)
  BY DEF SameRows, SameShown, SameSorting, StateShape

LEMMA ExportIsQuiet ==
    ASSUME Assumptions, Shapes, NEW e \in Exports, ExportStep(e) \/ ExportProgresses(e)
    PROVE  QuietStep
<1> USE DEF ExporterRest, sorterVars
<1>a. /\ state \in StateShape /\ db \in [Queries -> DbShape] /\ db' \in [Queries -> DbShape]
  BY ExportStateShape DEF Shapes, Typed
<1>b. SameShown(state, state) /\ SameSorting(state, state)
  BY SameIsShown
<1>c. \A phase \in DownloadPhases :
        SameShown(state, Report(state, e, phase)) /\ SameSorting(state, Report(state, e, phase))
  BY <1>a, ReportShape, SameRowsShown
<1>d. ASSUME NEW d \in [Queries -> DbShape]
      PROVE  LET st == RefreshCounts(state, exp[e].gen, exp[e].revision, d) IN
             /\ SameShown(state, st) /\ SameSorting(state, st)
             /\ \A phase \in DownloadPhases :
                  SameShown(state, Report(st, e, phase)) /\ SameSorting(state, Report(st, e, phase))
  <2> DEFINE st == RefreshCounts(state, exp[e].gen, exp[e].revision, d)
  <2>1. st \in StateShape /\ Recounted(state, st, exp[e].gen, d)
    BY <1>a, CountsShape, CountsDo
  <2> HIDE DEF st
  <2>2. SameShown(state, st) /\ SameSorting(state, st)
    BY <1>a, <2>1, RecountShown
  <2>3. \A phase \in DownloadPhases : Report(st, e, phase) \in StateShape /\ SameRows(st, Report(st, e, phase))
    BY <2>1, ReportShape
  <2>4. \A phase \in DownloadPhases :
          SameShown(state, Report(st, e, phase)) /\ SameSorting(state, Report(st, e, phase))
    BY <1>a, <2>1, <2>2, <2>3, SameShownThen
  <2>5. QED
    BY <2>2, <2>4 DEF st
<1>1. SameShown(state, state') /\ SameSorting(state, state')
  <2>1. CASE ExportPicked(e) \/ ExportPickFails(e) \/ ExportEncoded(e) \/ ExportEncodeFails(e)
             \/ ExportCommitFails(e) \/ ExportFinishFails(e) \/ ExportProgresses(e)
             \/ ExportCommitted(e) \/ ExportFinished(e) \/ ExportUnwound(e)
    BY <2>1, <1>b, <1>c
       DEF ExportPicked, ExportPickFails, ExportEncoded, ExportEncodeFails, ExportCommitFails,
           ExportFinishFails, ExportProgresses, ExportCommitted, ExportFinished, ExportUnwound, ExportEnds,
           DownloadPhases
  <2>2. CASE ExportJoined(e) \/ ExportDrained(e)
    <3>1. CASE state' = state
      BY <1>b, <3>1
    <3>2. CASE state' # state
      <4>1. PICK d \in {db, db'} :
              LET st == RefreshCounts(state, exp[e].gen, exp[e].revision, d) IN
              state' = st \/ state' = Report(st, e, "encoding")
        BY <2>2, <3>2 DEF ExportJoined, ExportDrained, Encodes
      <4>2. QED
        BY <1>a, <1>d, <4>1 DEF DownloadPhases
    <3>3. QED
      BY <3>1, <3>2
  <2>3. CASE ExportDrainFails(e)
    BY <2>3, <1>a, <1>b, NotesShown DEF ExportDrainFails, Errors
  <2>4. QED
    BY <2>1, <2>2, <2>3 DEF ExportStep
<1>2. UNCHANGED <<run, queryGen, activeSort, srt, dem, base, view>>
  <2>1. CASE ExportStep(e)
    BY <2>1, ExportGoesOn
  <2>2. CASE ExportProgresses(e)
    BY <2>2 DEF ExportProgresses
  <2>3. QED
    BY <2>1, <2>2
<1>3. QED
  BY <1>1, <1>2 DEF QuietStep

\* A call of the exporter changes nothing of the state but the download.
LEMMA DownloadCallShows ==
    ASSUME Assumptions, Shapes,
           (\E e \in Exports : Download(e))
             \/ DownloadRefused \/ CancelDownload \/ SaveDownload \/ DismissDownload
    PROVE  SameRows(state, state')
<1>a. /\ state \in StateShape /\ {exportGen, activeExport, retained} \subseteq {None} \cup Exports
      /\ WithoutDownload(state) \in StateShape /\ SameRows(state, WithoutDownload(state))
  BY DownloadLeaves DEF Shapes, Typed
<1>b. \A phase \in DownloadPhases, g \in 1..(MaxExports + 1) : [gen |-> g, phase |-> phase] \in DownloadShape
  BY DEF DownloadShape
<1>c. Refused \in 1..(MaxExports + 1) /\ Refused \in Nat
      /\ \A e \in Exports : e \in 1..(MaxExports + 1) /\ e \in Nat
  BY DEF Refused, Exports, Assumptions, FamilyAssumption
<1>d. ASSUME NEW st \in {state, WithoutDownload(state)}, NEW phase \in DownloadPhases,
             NEW g \in 1..(MaxExports + 1), state' = DownloadUpdated(st, g, [gen |-> g, phase |-> phase])
      PROVE  SameRows(state, state')
  <2>1. st \in StateShape /\ SameRows(state, st)
    BY <1>a DEF SameRows
  <2>2. SameRows(st, state')
    BY <1>b, <1>d, <2>1, DownloadEvents
  <2>3. QED
    BY <2>1, <2>2 DEF SameRows
<1>1. CASE (\E e \in Exports : Download(e)) \/ DownloadRefused
  BY <1>1, <1>c, <1>d DEF Download, DownloadRefused, DownloadPhases
<1>2. CASE CancelDownload
  <2>1. activeExport \in Exports /\ "cancelling" \in DownloadPhases
    BY <1>2, <1>a DEF CancelDownload, DownloadPhases
  <2>2. QED
    BY <1>2, <1>a, <2>1, ReportShape DEF CancelDownload
<1>3. CASE SaveDownload
  <2>1. retained \in Exports
    BY <1>3, <1>a DEF SaveDownload
  <2>2. QED
    BY <1>3, <1>c, <1>d, <2>1 DEF SaveDownload, DownloadPhases
<1>4. CASE DismissDownload
  BY <1>4, <1>a DEF DismissDownload
<1>5. QED
  BY <1>1, <1>2, <1>3, <1>4

\* Withdrawing, closing and opening are quiet as well, and so are the exporter's calls.
LEMMA CallIsQuiet ==
    ASSUME Assumptions, Shapes,
           \/ (\E e \in Exports : Download(e))
                \/ DownloadRefused \/ CancelDownload \/ SaveDownload \/ DismissDownload
           \/ (\E c \in closes : CloseStep(c)) \/ (\E q \in Queries : SessionCloses(q))
           \/ (\E q \in Queries : StopCloses(q) \/ StopEnds(q)) \/ Planned \/ Opened
    PROVE  QuietStep
<1> USE DEF sorterVars, storeVars, sessionVars, familyVars
<1>a. state \in StateShape /\ SameShown(state, state) /\ SameSorting(state, state)
  BY SameIsShown DEF Shapes, Typed
<1>1. CASE (\E e \in Exports : Download(e))
             \/ DownloadRefused \/ CancelDownload \/ SaveDownload \/ DismissDownload
  <2>1. UNCHANGED <<run, queryGen, activeSort, srt, dem, base, view>>
    BY <1>1 DEF Download, DownloadRefused, CancelDownload, SaveDownload, DismissDownload, ExporterRest
  <2>2. QED
    BY <1>1, <1>a, <2>1, DownloadCallShows, SameRowsShown DEF QuietStep
<1>2. CASE (\E c \in closes : CloseStep(c)) \/ (\E q \in Queries : SessionCloses(q))
  BY <1>2, <1>a DEF CloseStep, ReleasesView, CloseEnds, SessionCloses, QuietStep
<1>3. ASSUME NEW q \in Queries, StopCloses(q) \/ StopEnds(q)
      PROVE  QuietStep
  <2>1. CASE StopCloses(q)
    BY <2>1, CloseDoesOrder DEF StopCloses, QuietStep, FamilyCloses
  <2>2. CASE StopEnds(q)
    BY <1>a, <2>2 DEF StopEnds, QuietStep
  <2>3. QED
    BY <1>3, <2>1, <2>2
<1>4. CASE Planned \/ Opened
  <2>1. \A n \in {Opening(state), Failed(state), Ready(state)} : SameShown(state, n) /\ SameSorting(state, n)
    BY <1>a DEF SameShown, SameSorting, Opening, Failed, Ready, InitialState, StateShape
  <2>2. QED
    BY <1>4, <1>a, <2>1 DEF Planned, Opened, QuietStep
<1>5. QED
  BY <1>1, <1>2, <1>3, <1>4


\* A sort is asked for: it becomes the active one and the one shown.
LEMMA SortCallKeepsOrder ==
    ASSUME Assumptions, Shapes, Shapes', OrderInv, NEW s \in Sorts, Sort(s)
    PROVE  OrderInv'
<1> USE DEF SorterRest
<1>a. /\ UNCHANGED <<queryGen, base, view, run, dem>> /\ activeSort' = s
      /\ srt[s].at = "no" /\ \A r \in Sorts : r < s => srt[r].at # "no"
      /\ HasResult /\ state.current /\ base # None /\ state.sorting.id \in Nat
      /\ state \in StateShape /\ queryGen \in Nat /\ s \in Nat \ {0} /\ base \in Queries
  BY DEF Sort, SortBlocked, HasResult, Shapes, Typed, StateShape, SortingShape, NoSorting, None, Sorts
<1>b. PICK kind \in {"order", "restore"}, phase \in {"loading", "storing"} :
        /\ srt' = [srt EXCEPT ![s] =
             [at |-> "cleanup", kind |-> kind, q |-> queryGen, session |-> storeGen,
              from |-> state.result.revision, base |-> base, aborted |-> FALSE,
              view |-> NoView, read |-> Reading(view, db), demand |-> None,
              downloads |-> LastExport, error |-> "none"]]
        /\ state' = WithoutDownload(
             SortUpdated(state, queryGen, state.result.revision, [id |-> s, phase |-> phase]))
  BY DEF Sort
<1>c. /\ srt'[s].at = "cleanup" /\ srt'[s].q = queryGen /\ srt'[s].from = state.result.revision
      /\ srt'[s].base = base /\ srt'[s].view = NoView
      /\ \A x \in Sorts \ {s} : srt'[x] = srt[x]
  BY <1>b DEF Shapes, Typed
<1> DEFINE shown == SortUpdated(state, queryGen, state.result.revision, [id |-> s, phase |-> phase])
<1>d. /\ shown \in StateShape /\ shown.result = state.result /\ shown.current = state.current
      /\ shown.sorting \in {state.sorting, [id |-> s, phase |-> phase]}
      /\ Shows(state, queryGen) => shown.sorting = [id |-> s, phase |-> phase]
  <2>1. phase \in SortPhases
    BY DEF SortPhases
  <2>2. /\ shown \in StateShape /\ shown.result = state.result /\ shown.current = state.current
        /\ shown.sorting \in {state.sorting, [id |-> s, phase |-> phase]}
    <3>1. shown \in StateShape
      BY <1>a, <2>1, SortEvents
    <3>2. /\ shown.result = state.result /\ shown.current = state.current
          /\ shown.sorting \in {state.sorting, [id |-> s, phase |-> phase]}
      BY <1>a DEF SortUpdated, StateShape
    <3>3. QED
      BY <3>1, <3>2
  <2>3. s >= state.sorting.id
    <3>1. state.sorting # NoSorting => state.sorting.id \in Sorts /\ srt[state.sorting.id].at # "no"
      BY <1>a DEF OrderInv, SortsInOrder, StateShape, SortingShape
    <3>2. ASSUME state.sorting # NoSorting PROVE ~(s < state.sorting.id)
      BY <1>a, <3>1, <3>2 DEF OrderInv, SortsInOrder
    <3>3. QED
      BY <1>a, <3>2 DEF NoSorting, None
  <2>4. Shows(state, queryGen) => shown.sorting = [id |-> s, phase |-> phase]
    BY <1>a, <2>3 DEF SortUpdated, StateShape
  <2>5. QED
    BY <2>2, <2>4
<1> HIDE DEF shown
<1>e. /\ state' \in StateShape /\ state'.result = state.result /\ state'.current = state.current
      /\ state'.sorting = shown.sorting /\ SameShown(state, state')
  <2>1. state' \in StateShape /\ SameRows(shown, state')
    BY <1>b, <1>d, DownloadLeaves DEF shown
  <2>2. QED
    BY <1>a, <1>d, <2>1 DEF SameRows, SameShown
<1>1. RunsInOrder' /\ BaseInOrder' /\ RowsMatchOrder'
  BY <1>a, <1>e, FamilyStays
<1>2. DemandsInOrder'
  <2>1. \A d \in Demands : DemandGoesOn(d)
    BY <1>a DEF DemandGoesOn, DemandLive
  <2>2. QED
    BY <1>a, <1>e, <2>1, DemandsStay
<1>3. SortsInOrder'
  <2>1. \A r, x \in Sorts : r < x /\ srt'[x].at # "no" => srt'[r].at # "no"
    BY <1>a, <1>c DEF OrderInv, SortsInOrder
  <2>2. \A x \in Sorts : x > s => srt'[x].at = "no"
    BY <1>a, <1>c DEF OrderInv, SortsInOrder, Sorts
  <2>3. state'.sorting # NoSorting => srt'[state'.sorting.id].at # "no"
    <3>1. state.sorting # NoSorting => state.sorting.id \in Sorts /\ srt[state.sorting.id].at # "no"
      BY <1>a DEF OrderInv, SortsInOrder, StateShape, SortingShape
    <3>2. QED
      BY <1>c, <1>d, <1>e, <3>1
  <2>4. base <= queryGen /\ (base = queryGen => run[queryGen].at = "done")
    BY <1>a DEF OrderInv, BaseInOrder, RunsInOrder, Queries, None
  <2>5. \A x \in Sorts : SortLive(x)' =>
          /\ srt'[x].base <= srt'[x].q /\ srt'[x].q <= queryGen
          /\ srt'[x].base = queryGen => run[queryGen].at = "done"
    <3>1. /\ srt'[s].base <= srt'[s].q /\ srt'[s].q <= queryGen
          /\ srt'[s].base = queryGen => run[queryGen].at = "done"
      BY <1>a, <1>c, <2>4
    <3>2. \A x \in Sorts \ {s} : SortLive(x)' =>
            /\ srt'[x].base <= srt'[x].q /\ srt'[x].q <= queryGen
            /\ srt'[x].base = queryGen => run[queryGen].at = "done"
      <4>1. \A x \in Sorts \ {s} : SortLive(x)' => SortLive(x) /\ srt'[x] = srt[x]
        BY <1>c DEF SortLive
      <4>2. QED
        BY <4>1 DEF OrderInv, SortsInOrder
    <3>3. QED
      BY <3>1, <3>2
  <2>6. QED
    BY <1>a, <2>1, <2>2, <2>3, <2>5 DEF SortsInOrder
<1>4. SortIsShown'
  <2>1. SUFFICES ASSUME base = queryGen
                 PROVE  /\ state'.sorting.id = s /\ IsSorting(state')
                        /\ state'.result.revision = srt'[s].from
    BY <1>a, <1>c DEF SortIsShown, IsSorting
  <2>2. Shows(state, queryGen)
    BY <1>a, <2>1 DEF OrderInv, BaseInOrder, Shows, HasResult, Queries
  <2>3. QED
    BY <1>a, <1>c, <1>d, <1>e, <2>2 DEF IsSorting, NoSorting, None
<1>5. SortReads'
  BY <1>a, <1>c DEF OrderInv, SortReads, SortedView
<1>6. QED
  BY <1>1, <1>2, <1>3, <1>4, <1>5 DEF OrderInv

\* A sort is cancelled: only its report changes.
LEMMA CancelSortKeepsOrder ==
    ASSUME Assumptions, Shapes, Shapes', OrderInv, CancelSort
    PROVE  OrderInv'
<1> USE DEF SorterRest
<1>a. /\ UNCHANGED <<queryGen, base, view, run, dem, activeSort>> /\ activeSort \in Sorts
      /\ state \in StateShape /\ srt \in [Sorts -> SortShape]
      /\ srt' = [srt EXCEPT ![activeSort].aborted = TRUE]
      /\ state' = Progress(state, activeSort, "cancelling")
  BY DEF CancelSort, SortPending, Shapes, Typed
<1>b. srt[activeSort] \in OrderingShape
  <2>1. srt[activeSort].at \notin {"no", "done"}
    BY <1>a DEF Shapes, HeldIsLive, SortLive, None, Sorts
  <2>2. QED
    BY <1>a, <2>1, SortUpdates
<1>c. \A x \in Sorts : SortLive(x) =>
        /\ srt'[x].at = srt[x].at /\ srt'[x].kind = srt[x].kind /\ srt'[x].q = srt[x].q
        /\ srt'[x].from = srt[x].from /\ srt'[x].base = srt[x].base /\ srt'[x].view = srt[x].view
        /\ srt'[x].read = srt[x].read
  BY <1>a, <1>b DEF OrderingShape
<1>d. \A x \in Sorts : srt'[x].at = srt[x].at
  BY <1>a, <1>b DEF OrderingShape
<1>e. /\ SameShown(state, state') /\ state'.result = state.result /\ state'.current = state.current
      /\ state'.sorting # state.sorting =>
           state'.sorting.id = activeSort /\ state'.sorting # NoSorting /\ state'.sorting.phase = "cancelling"
  BY <1>a, ProgressShown DEF SortPhases
<1>1. RunsInOrder' /\ BaseInOrder' /\ RowsMatchOrder'
  BY <1>a, <1>e, FamilyStays
<1>2. DemandsInOrder'
  <2>1. \A d \in Demands : DemandGoesOn(d)
    BY <1>a DEF DemandGoesOn, DemandLive
  <2>2. QED
    BY <1>a, <1>e, <2>1, DemandsStay
<1>3. SortsInOrder'
  <2>1. state'.sorting # NoSorting => srt'[state'.sorting.id].at # "no"
    <3>1. state.sorting # NoSorting => state.sorting.id \in Sorts /\ srt[state.sorting.id].at # "no"
      BY <1>a DEF OrderInv, SortsInOrder, StateShape, SortingShape
    <3>2. srt[activeSort].at # "no"
      BY <1>b DEF OrderingShape
    <3>3. QED
      BY <1>a, <1>d, <1>e, <3>1, <3>2
  <2>2. QED
    BY <1>a, <1>c, <1>d, <2>1 DEF OrderInv, SortsInOrder, SortLive
<1>4. SortIsShown'
  <2>1. SortLive(activeSort)
    BY <1>a DEF Shapes, HeldIsLive, None, Sorts
  <2>2. srt'[activeSort].base = srt[activeSort].base /\ srt'[activeSort].from = srt[activeSort].from
    BY <1>a, <1>c, <2>1
  <2>3. state'.sorting.id = state.sorting.id /\ IsSorting(state) => state'.sorting.id = activeSort \/ IsSorting(state')
    BY <1>e DEF IsSorting
  <2>4. state.sorting.id = activeSort /\ IsSorting(state) => state'.sorting.id = activeSort /\ IsSorting(state')
    BY <1>e DEF IsSorting
  <2>5. QED
    BY <1>a, <1>e, <2>2, <2>4 DEF OrderInv, SortIsShown, IsSorting
<1>5. SortReads'
  BY <1>c, <1>d DEF OrderInv, SortReads, SortedView, SortLive
<1>6. QED
  BY <1>1, <1>2, <1>3, <1>4, <1>5 DEF OrderInv

\* The calls that move the generations: no sort is active, and nothing of the new
\* generation has begun.
MovesOn ==
    /\ queryGen' = queryGen + 1 /\ queryGen < MaxQueries
    /\ SupersedeSort /\ SupersedeExport
    /\ UNCHANGED <<base, view, dem>>
    /\ SameShown(state, state') /\ SameSorting(state, state')
    /\ \/ UNCHANGED run
       \/ /\ ~state'.current
          /\ run'[queryGen'].at = "cleanup"
          /\ \A q \in Queries : q # queryGen' => run'[q] = run[q]

LEMMA CallMovesOn ==
    ASSUME Assumptions, Shapes, RunQuery \/ OpenFiles \/ Cancel \/ Dispose
    PROVE  MovesOn
<1> USE DEF CallsRest
<1>a. /\ queryGen' = queryGen + 1 /\ queryGen < MaxQueries /\ SupersedeSort /\ SupersedeExport
      /\ UNCHANGED <<base, view, dem>>
  BY DEF RunQuery, OpenFiles, Cancel, Dispose, Withdraw
<1> DEFINE shown == WithoutDownload(state)
<1>b. /\ state \in StateShape /\ shown \in StateShape /\ SameRows(state, shown)
      /\ SameShown(state, shown) /\ SameSorting(state, shown)
  BY DownloadLeaves, SameRowsShown DEF Shapes, Typed
<1> HIDE DEF shown
<1>c. /\ QueryStarted(shown).current = FALSE /\ QueryStarted(shown).result = shown.result
      /\ QueryStarted(shown).sorting = NoSorting
  BY <1>b DEF QueryStarted, StateShape
<1>1. CASE RunQuery
  <2>1. state' = QueryStarted(shown)
    BY <1>1 DEF RunQuery, shown
  <2>2. SameShown(state, state') /\ SameSorting(state, state') /\ ~state'.current
    BY <1>b, <1>c, <2>1 DEF SameShown, SameSorting, SameRows
  <2>3. run'[queryGen'].at = "cleanup" /\ \A q \in Queries : q # queryGen' => run'[q] = run[q]
    <3>1. queryGen' \in Queries
      BY <1>a DEF Queries, Assumptions, FamilyAssumption, Shapes, Typed
    <3>2. QED
      BY <1>1, <3>1 DEF RunQuery, Shapes, Typed
  <2>4. QED
    BY <1>a, <2>2, <2>3 DEF MovesOn
<1>2. CASE OpenFiles
  BY <1>2, <1>a, <1>b DEF OpenFiles, MovesOn, shown
<1>3. CASE Cancel
  <2> DEFINE noted == PageFailed(shown, "final")
  <2>1. noted \in StateShape /\ SameShown(shown, noted) /\ SameSorting(shown, noted)
    BY <1>b, NoteEvents, NotesShown DEF Errors
  <2>2. PICK st \in {shown, noted} : state' = Cancelled(st)
    BY <1>3 DEF Cancel, shown
  <2> HIDE DEF noted
  <2>3. st \in StateShape /\ SameShown(state, st)
    BY <1>b, <2>1, <2>2 DEF SameShown, SameRows
  <2>4. /\ Cancelled(st).current = FALSE /\ Cancelled(st).sorting = NoSorting
        /\ Cancelled(st).result \in {st.result, NoResult}
    BY <2>3 DEF Cancelled, InitialState, StateShape
  <2>5. SameShown(state, state') /\ SameSorting(state, state')
    BY <2>2, <2>3, <2>4 DEF SameShown, SameSorting
  <2>6. QED
    BY <1>a, <1>3, <2>5 DEF MovesOn, Cancel
<1>4. CASE Dispose
  <2>1. SameShown(state, state') /\ SameSorting(state, state')
    BY <1>4 DEF Dispose, SameShown, SameSorting, InitialState
  <2>2. QED
    BY <1>a, <1>4, <2>1 DEF MovesOn, Dispose
<1>5. QED
  BY <1>1, <1>2, <1>3, <1>4

LEMMA MovingOnKeepsOrder ==
    ASSUME Assumptions, Shapes, Shapes', OrderInv, MovesOn
    PROVE  OrderInv'
<1>a. /\ queryGen \in 0..MaxQueries /\ queryGen' \in Queries /\ queryGen \in Nat
      /\ base \in {None} \cup Queries /\ state.current \in BOOLEAN /\ state'.current \in BOOLEAN
      /\ queryGen' = queryGen + 1
  BY DEF MovesOn, Shapes, Typed, StateShape, Queries, Assumptions, FamilyAssumption
<1>b. HasResult => state.result.gen \in Queries /\ state.result.revision \in Nat
  BY DEF Shapes, Typed, StateShape, ResultShape, RowsShape, HasResult
<1>c. /\ run[queryGen'].at = "no"
      /\ HasResult => state.result.gen # queryGen'
      /\ \A q \in Queries : q # queryGen' => run'[q] = run[q]
  <2>1. run[queryGen'].at = "no"
    BY <1>a DEF OrderInv, RunsInOrder
  <2>2. QED
    BY <1>b, <2>1 DEF OrderInv, RunsInOrder, MovesOn
<1>d. /\ HasResult' => HasResult /\ state'.result.gen = state.result.gen
      /\ state'.current => state.current /\ HasResult'
  BY DEF MovesOn, SameShown, HasResult, OrderInv, BaseInOrder
<1>1. RunsInOrder'
  <2>1. \A q \in Queries : run'[q].at # "no" => q <= queryGen'
    BY <1>a, <1>c DEF OrderInv, RunsInOrder, Queries
  <2>2. HasResult' => run'[state'.result.gen].at = "done"
    BY <1>b, <1>c, <1>d DEF OrderInv, RunsInOrder
  <2>3. ~RunOver(queryGen)' => ~state'.current
    BY <1>c DEF MovesOn, RunOver
  <2>4. QED
    BY <2>1, <2>2, <2>3 DEF RunsInOrder
<1>2. BaseInOrder'
  <2>1. base' # None => base' < queryGen'
    BY <1>a DEF OrderInv, BaseInOrder, MovesOn, Queries, None
  <2>2. HasResult' => state'.result.gen # queryGen'
    BY <1>c, <1>d
  <2>3. \A q \in Queries : run'[q].at \in {"fetch", "read", "viewer"} /\ base' = q => view' = Base(q)
    BY <1>a, <1>c, <2>1 DEF OrderInv, BaseInOrder, MovesOn, Queries, None
  <2>4. base' # queryGen'
    BY <1>a, <2>1 DEF Queries, None
  <2>5. base' # None => base' <= queryGen'
    BY <1>a, <2>1 DEF Shapes, Typed, MovesOn, Queries
  <2>6. QED
    BY <1>d, <2>2, <2>3, <2>4, <2>5 DEF BaseInOrder
<1>3. /\ activeSort' = None
      /\ \A s \in Sorts : /\ srt'[s].at = srt[s].at
                          /\ SortLive(s) =>
                               /\ srt'[s].view = srt[s].view /\ srt'[s].base = srt[s].base
                               /\ srt'[s].kind = srt[s].kind /\ srt'[s].q = srt[s].q
                               /\ srt'[s].read = srt[s].read
  BY SupersedeShapes DEF MovesOn
<1>4. SortsInOrder'
  <2>1. state'.sorting # NoSorting => srt'[state'.sorting.id].at # "no"
    <3>1. state'.sorting # NoSorting => state'.sorting = state.sorting /\ state.sorting.id \in Sorts
      BY DEF MovesOn, SameSorting, Shapes, Typed, StateShape, SortingShape
    <3>2. QED
      BY <1>3, <3>1 DEF OrderInv, SortsInOrder
  <2>2. \A s \in Sorts : SortLive(s)' =>
          srt'[s].base <= srt'[s].q /\ srt'[s].q <= queryGen' /\ srt'[s].base # queryGen'
    <3>1. TAKE s \in Sorts
    <3>2. HAVE SortLive(s)'
    <3>3. SortLive(s) /\ srt'[s].base = srt[s].base /\ srt'[s].q = srt[s].q
      BY <1>3, <3>2 DEF SortLive
    <3>4. srt[s].base <= srt[s].q /\ srt[s].q <= queryGen
      BY <3>3 DEF OrderInv, SortsInOrder
    <3>5. srt[s].base \in Nat /\ srt[s].q \in Nat
      BY <3>3 DEF SortLive, Shapes, Typed, SortShape, Over, OrderingShape, Queries
    <3>6. QED
      BY <1>a, <3>3, <3>4, <3>5
  <2>3. \A r, s \in Sorts : r < s /\ srt'[s].at # "no" => srt'[r].at # "no"
    BY <1>3 DEF OrderInv, SortsInOrder
  <2>4. QED
    BY <1>3, <2>1, <2>2, <2>3 DEF SortsInOrder
<1>5. SortIsShown'
  BY <1>3 DEF SortIsShown
<1>6. SortReads'
  BY <1>3 DEF OrderInv, SortReads, SortedView, SortLive
<1>7. DemandsInOrder'
  <2>1. SUFFICES ASSUME NEW d \in Demands, DemandLive(d)
                 PROVE  /\ run'[dem[d].gen].at = "done"
                        /\ HasResult' /\ dem[d].gen = state'.result.gen =>
                             /\ dem[d].revision <= state'.result.revision
                             /\ dem[d].revision = state'.result.revision => dem[d].sort = state'.result.sort
    BY DEF DemandsInOrder, DemandLive, MovesOn
  <2>2. dem[d].gen \in Queries /\ run[dem[d].gen].at = "done"
    BY <2>1, DemandUpdates DEF DemandLive, OrderInv, DemandsInOrder, Shapes, Typed, DemandedShape
  <2>3. run'[dem[d].gen].at = "done"
    BY <1>c, <2>2
  <2>4. QED
    BY <2>1, <2>3 DEF MovesOn, SameShown, HasResult, OrderInv, DemandsInOrder
<1>8. RowsMatchOrder'
  BY <1>d DEF MovesOn, SameShown, HasResult, OrderInv, RowsMatchOrder
<1>9. QED
  BY <1>1, <1>2, <1>4, <1>5, <1>6, <1>7, <1>8 DEF OrderInv

LEMMA InitOrder ==
    ASSUME Assumptions, Init
    PROVE  OrderInv
<1>1. /\ state.result = NoResult /\ state.current = FALSE /\ state.sorting = NoSorting
  BY DEF Init, FamilyInit, Ready, InitialState
<1>2. /\ base = None /\ activeSort = None /\ queryGen = 0
      /\ \A q \in Queries : run[q].at = "no"
      /\ \A d \in Demands : dem[d].at = "no"
      /\ \A s \in Sorts : srt[s].at = "no"
  BY DEF Init, FamilyInit
<1>3. QED
  BY <1>1, <1>2
     DEF OrderInv, RunsInOrder, BaseInOrder, SortsInOrder, SortIsShown, SortReads, DemandsInOrder,
         RowsMatchOrder, HasResult, RunOver, SortLive, DemandLive

LEMMA OrderKept ==
    ASSUME Assumptions, Shapes, Shapes', OrderInv, [Next]_vars
    PROVE  OrderInv'
<1>1. CASE Next
  BY <1>1, Steps, RunKeepsOrder, DemandKeepsOrder, SortKeepsOrder, SortCallKeepsOrder, CancelSortKeepsOrder,
     ExportIsQuiet, CallIsQuiet, QuietKeepsOrder, CallMovesOn, MovingOnKeepsOrder
<1>2. CASE UNCHANGED vars
  <2>1. QuietStep
    BY <1>2, SameIsShown DEF vars, familyVars, storeVars, sessionVars, sorterVars, QuietStep
  <2>2. QED
    BY <2>1, QuietKeepsOrder
<1>3. QED
  BY <1>1, <1>2

\* The rows on screen are those of the query and the order the state names, and of the
\* view further reads go to (result-session.ts:349-363).
THEOREM RowsAreOfTheirOrder ==
    ASSUME Assumptions
    PROVE  Spec => []WindowMatchesOrder
<1>1. Init => OrderInv
  BY InitOrder
<1>2. Shapes /\ Shapes' /\ OrderInv /\ [Next]_vars => OrderInv'
  BY OrderKept
<1>3. OrderInv => WindowMatchesOrder
  BY DEF OrderInv, RowsMatchOrder, WindowMatchesOrder
<1>4. QED
  BY <1>1, <1>2, <1>3, ShapesHold, PTL DEF Spec


-----------------------------------------------------------------------------
(* What is offered has its family behind it: the base is open until a close      *)
(* forgets it, and the sorted view on display is kept, because a sort lets go     *)
(* only of its own view or of the one its commit replaced.                        *)

OpenInv == BaseIsOpen /\ ViewsAreKept

LEMMA ViewFields ==
    /\ \A q : Base(q)[1] = q /\ Base(q)[2] = 0
    /\ \A s \in Sorts : SortedView(s)[1] = srt[s].base /\ SortedView(s)[2] = s
  BY DEF Base, SortedView

LEMMA AnswersKeepSessions ==
    ASSUME Shapes, NEW q \in Queries, NEW e, FetchOk(q) \/ RetryOk(q) \/ FetchFails(q, e)
    PROVE  \A p \in Queries : db'[p].at = db[p].at
<1>a. db \in [Queries -> DbShape]
  BY DEF Shapes, Typed
<1>1. CASE FetchOk(q)
  <2>1. PICK n \in {0, 1}, w \in BOOLEAN : db' = [db EXCEPT ![q].rows = @ + n, ![q].whole = w]
    BY <1>1 DEF FetchOk
  <2>2. db'[q].at = db[q].at
    BY <1>a, <2>1 DEF DbShape
  <2>3. QED
    BY <1>a, <2>1, <2>2
<1>2. CASE RetryOk(q)
  <2>1. PICK w \in BOOLEAN :
          db' = [db EXCEPT ![q].rows = @ + 1, ![q].whole = w, ![q].fetches = "open"]
    BY <1>2 DEF RetryOk
  <2>2. db'[q].at = db[q].at
    BY <1>a, <2>1 DEF DbShape
  <2>3. QED
    BY <1>a, <2>1, <2>2
<1>3. CASE FetchFails(q, e)
  BY <1>a, <1>3 DEF FetchFails, DbShape
<1>4. QED
  BY <1>1, <1>2, <1>3

\* The sorts that have let their view go stay so, and none lets a view go.
SortsHold ==
    \A s \in Sorts :
      /\ srt[s].at \in {"release", "done"} => srt'[s].at \in {"release", "done"}
      /\ srt'[s].at = "release" => srt[s].at = "release" /\ srt'[s].view = srt[s].view

LEMMA OpenStays ==
    ASSUME Shapes, OpenInv, UNCHANGED <<base, view, closes>>, SortsHold,
           base # None => db'[base].at = "open",
           view[2] # 0 /\ view \in views => view \in views'
    PROVE  OpenInv'
<1>1. BaseIsOpen'
  BY DEF OpenInv, BaseIsOpen
<1>2. view[2] # 0 => view[2] \in Sorts
  BY DEF Shapes, Typed, AnyView, Views, NoView
<1>3. \A s \in Sorts : srt'[s].at = "release" /\ srt'[s].view[2] # 0 =>
        srt'[s].view # view /\ srt'[srt'[s].view[2]].at \in {"release", "done"}
  <2>1. TAKE s \in Sorts
  <2>2. HAVE srt'[s].at = "release" /\ srt'[s].view[2] # 0
  <2>3. srt[s].at = "release" /\ srt'[s].view = srt[s].view
    BY <2>2 DEF SortsHold
  <2>4. srt[s].view # view /\ srt[srt[s].view[2]].at \in {"release", "done"}
    BY <2>2, <2>3 DEF OpenInv, ViewsAreKept
  <2>5. srt[s].view[2] \in Sorts
    BY <2>2, <2>3 DEF Shapes, Typed, SortShape, Over, OrderingShape, AnyView, Views, NoView
  <2>6. QED
    BY <2>3, <2>4, <2>5 DEF SortsHold
<1>4. view[2] # 0 => view \in views' /\ srt'[view[2]].at \in {"release", "done"}
  BY <1>2 DEF OpenInv, ViewsAreKept, SortsHold
<1>5. QED
  BY <1>1, <1>3, <1>4 DEF OpenInv, ViewsAreKept

\* The same where there is no base, or the new base is on display.
LEMMA BaseShown ==
    ASSUME Shapes, OpenInv, UNCHANGED srt, view'[2] = 0, BaseIsOpen'
    PROVE  OpenInv'
<1>1. \A s \in Sorts : srt'[s].at = "release" /\ srt'[s].view[2] # 0 =>
        srt'[s].view # view' /\ srt'[srt'[s].view[2]].at \in {"release", "done"}
  BY DEF OpenInv, ViewsAreKept
<1>2. QED
  BY <1>1 DEF OpenInv, ViewsAreKept

LEMMA CloseKeepsOpen ==
    ASSUME Shapes, OpenInv, NEW by, Close(by, state, queryGen), UNCHANGED srt
    PROVE  OpenInv'
<1>1. base' = None /\ view'[2] = 0
  BY DEF Close, NoView
<1>2. QED
  BY <1>1, BaseShown DEF BaseIsOpen

LEMMA RunKeepsOpen ==
    ASSUME Assumptions, Shapes, OpenInv, NEW q \in Queries, RunStep(q)
    PROVE  OpenInv'
<1> USE DEF SessionRest, sorterVars, dbVars
<1>a. srt' = srt
  BY RunDoes
<1>b. SortsHold
  BY <1>a DEF SortsHold
<1>c. base \in {None} \cup Queries /\ (base # None => db[base].at = "open") /\ db \in [Queries -> DbShape]
  BY DEF OpenInv, BaseIsOpen, Shapes, Typed
<1>1. CASE RunCleaned(q)
  BY <1>1, <1>a, CloseKeepsOpen DEF RunCleaned
<1>2. CASE RunClosed(q) \/ RunDropped(q) \/ RunRead(q) \/ RunViewer(q) \/ RunFailed(q)
  <2>1. UNCHANGED <<base, view, closes, db, views>>
    BY <1>2 DEF RunClosed, RunDropped, RunRead, RunViewer, RunFailed
  <2>2. QED
    BY <1>b, <1>c, <2>1, OpenStays
<1>3. CASE StartOk(q)
  <2>1. CASE IsCurrentQuery(q)
    <3>1. base' = q /\ view' = Base(q) /\ db'[q].at = "open" /\ closes' = {} /\ views' = views
      <4>1. base' = q /\ view' = Base(q) /\ db' = [db EXCEPT ![q].at = "open"]
        BY <1>3, <2>1 DEF StartOk
      <4>2. closes = {} /\ closes' = closes /\ views' = views
        BY <1>3 DEF StartOk
      <4>3. db'[q].at = "open"
        BY <1>c, <4>1 DEF DbShape
      <4>4. QED
        BY <4>1, <4>2, <4>3
    <3>2. BaseIsOpen'
      BY <3>1 DEF BaseIsOpen
    <3>3. view'[2] = 0
      BY <3>1, ViewFields
    <3>4. QED
      BY <1>a, <3>1, <3>2, <3>3, BaseShown
  <2>2. CASE ~IsCurrentQuery(q)
    <3>1. UNCHANGED <<base, view, closes, views>> /\ db' = [db EXCEPT ![q].at = "closing"] /\ db[q].at = "none"
      BY <1>3, <2>2 DEF StartOk
    <3>2. base # None => db'[base].at = "open"
      BY <1>c, <3>1
    <3>3. QED
      BY <1>b, <3>1, <3>2, OpenStays
  <2>3. QED
    BY <2>1, <2>2
<1>4. CASE StartFails(q) \/ RunFetchFails(q) \/ RunReadFails(q)
  <2>1. RunThrows(q)
    BY <1>4 DEF StartFails, RunFetchFails, RunReadFails
  <2>2. CASE IsCurrentQuery(q)
    BY <1>a, <2>1, <2>2, CloseKeepsOpen DEF RunThrows
  <2>3. CASE ~IsCurrentQuery(q)
    BY <1>b, <1>c, <2>1, <2>3, OpenStays DEF RunThrows
  <2>4. QED
    BY <2>2, <2>3
<1>5. CASE RunFetched(q)
  <2>1. UNCHANGED <<base, view, closes, views>> /\ FetchOk(q)
    BY <1>5 DEF RunFetched
  <2>2. base # None => db'[base].at = "open"
    BY <1>c, <2>1, AnswersKeepSessions
  <2>3. QED
    BY <1>b, <2>1, <2>2, OpenStays
<1>6. QED
  BY <1>1, <1>2, <1>3, <1>4, <1>5 DEF RunStep

LEMMA DemandKeepsOpen ==
    ASSUME Assumptions, Shapes, OpenInv, NEW d \in Demands, Demand(d) \/ DemandStep(d)
    PROVE  OpenInv'
<1> USE DEF SessionRest, dbVars
<1>a. srt' = srt
  BY DemandDoes
<1>b. SortsHold
  BY <1>a DEF SortsHold
<1>c. base \in {None} \cup Queries /\ (base # None => db[base].at = "open")
  BY DEF OpenInv, BaseIsOpen, Shapes, Typed
<1>1. CASE Demand(d) \/ DemandRead(d) \/ DemandViewer(d) \/ DemandReadFails(d)
  <2>1. UNCHANGED <<base, view, closes, db, views>>
    BY <1>1 DEF Demand, LoadMore, RetryPage, LoadWindow, DemandRead, DemandViewer, DemandReadFails
  <2>2. QED
    BY <1>b, <1>c, <2>1, OpenStays
<1>2. CASE DemandFetched(d) \/ DemandFetchFails(d)
  <2>1. UNCHANGED <<base, view, closes, views>> /\ dem[d].at = "fetch"
        /\ (FetchOk(dem[d].base) \/ RetryOk(dem[d].base) \/ \E e : FetchFails(dem[d].base, e))
    BY <1>2 DEF DemandFetched, DemandFetchFails
  <2>2. dem[d].base \in Queries
    BY <2>1, DemandUpdates DEF Shapes, Typed, DemandedShape
  <2>3. base # None => db'[base].at = "open"
    BY <1>c, <2>1, <2>2, AnswersKeepSessions
  <2>4. QED
    BY <1>b, <2>1, <2>3, OpenStays
<1>3. CASE DemandGivesUp(d)
  <2>1. CASE DemandActive(d)
    BY <1>3, <1>a, <2>1, CloseKeepsOpen DEF DemandGivesUp
  <2>2. CASE ~DemandActive(d)
    BY <1>3, <1>b, <1>c, <2>2, OpenStays DEF DemandGivesUp
  <2>3. QED
    BY <2>1, <2>2
<1>4. QED
  BY <1>1, <1>2, <1>3 DEF DemandStep

LEMMA SortKeepsOpen ==
    ASSUME Assumptions, Shapes, OrderInv, OpenInv, NEW s \in Sorts, SortStep(s)
    PROVE  OpenInv'
<1> USE DEF SorterRest, dbVars
<1>a. /\ srt[s] \in OrderingShape /\ SortTurn(s)
      /\ base \in {None} \cup Queries /\ (base # None => db[base].at = "open")
  BY SortTurns DEF OpenInv, BaseIsOpen, Shapes, Typed
<1>b. \A x \in Sorts \ {s} : srt'[x] = srt[x]
  BY <1>a DEF SortTurn, SortTo, SortAt, SortIsDone
<1>c. UNCHANGED <<base, closes>> /\ (base # None => db'[base].at = "open")
  <2>1. CASE SortDrained(s) \/ SortDrainFails(s)
    <3>1. FetchOk(srt[s].base) \/ \E e : FetchFails(srt[s].base, e)
      BY <2>1 DEF SortDrained, SortDrainFails
    <3>2. srt[s].base \in Queries
      BY <1>a DEF OrderingShape
    <3>3. UNCHANGED <<base, closes>>
      BY <2>1 DEF SortDrained, SortDrainFails
    <3>4. QED
      BY <1>a, <3>1, <3>2, <3>3, AnswersKeepSessions
  <2>2. CASE ~(SortDrained(s) \/ SortDrainFails(s))
    <3>1. UNCHANGED <<base, closes, db>>
      BY <2>2 DEF SortStep, SortCleaned, SortJoined, SortCreated, SortCreateFails, SortRead, SortReadFails,
                  SortReleased, SortUnwound
    <3>2. QED
      BY <1>a, <3>1
  <2>3. QED
    BY <2>1, <2>2
<1>1. CASE SortRead(s) /\ view' # view
  <2>a. /\ srt[s].at = "read" /\ view' = srt[s].view /\ Readable(view') /\ views' = views
        /\ srt'[s].at = "release" /\ srt'[s].view = view
    <3>1. srt' = [srt EXCEPT ![s].at = "release", ![s].view = view]
          /\ srt[s].at = "read" /\ view' = srt[s].view /\ Readable(srt[s].view) /\ views' = views
      BY <1>1 DEF SortRead, Commits
    <3>2. srt'[s].at = "release" /\ srt'[s].view = view
      BY <3>1, <1>a DEF Shapes, Typed, OrderingShape
    <3>3. QED
      BY <3>1, <3>2
  <2>b. view' = SortedView(s) \/ view'[2] = 0
    <3>1. view' \in {SortedView(s), Base(srt[s].base)}
      BY <2>a DEF OrderInv, SortReads
    <3>2. QED
      BY <3>1, ViewFields
  <2>c. view[2] # 0 => view[2] \in Sorts \ {s} /\ srt'[view[2]].at \in {"release", "done"} /\ view # SortedView(s)
    <3>1. view[2] # 0 => view[2] \in Sorts
      BY DEF Shapes, Typed, AnyView, Views, NoView
    <3>2. view[2] # 0 => srt[view[2]].at \in {"release", "done"}
      BY DEF OpenInv, ViewsAreKept
    <3>3. QED
      BY <1>b, <2>a, <3>1, <3>2 DEF SortedView
  <2>1. view'[2] # 0 => view' \in views' /\ srt'[view'[2]].at \in {"release", "done"}
    BY <2>a, <2>b DEF Readable, SortedView
  <2>2. \A x \in Sorts : srt'[x].at = "release" /\ srt'[x].view[2] # 0 =>
          srt'[x].view # view' /\ srt'[srt'[x].view[2]].at \in {"release", "done"}
    <3>1. TAKE x \in Sorts
    <3>2. HAVE srt'[x].at = "release" /\ srt'[x].view[2] # 0
    <3>3. CASE x = s
      BY <2>a, <2>b, <2>c, <3>2, <3>3
    <3>4. CASE x # s
      <4>1. srt'[x] = srt[x]
        BY <1>b, <3>4
      <4>2. srt[srt[x].view[2]].at \in {"release", "done"}
        BY <3>2, <4>1 DEF OpenInv, ViewsAreKept
      <4>3. srt[x].view[2] \in Sorts
        BY <3>2, <4>1 DEF Shapes, Typed, SortShape, Over, OrderingShape, AnyView, Views, NoView
      <4>4. srt[x].view[2] # s
        BY <2>a, <4>2
      <4>5. srt'[srt[x].view[2]] = srt[srt[x].view[2]]
        BY <1>b, <4>3, <4>4
      <4>6. QED
        BY <2>b, <3>2, <4>1, <4>2, <4>4, <4>5 DEF SortedView
    <3>5. QED
      BY <3>3, <3>4
  <2>3. QED
    BY <1>c, <2>1, <2>2 DEF OpenInv, BaseIsOpen, ViewsAreKept
<1>2. CASE SortRead(s) /\ view' = view
  <2>1. views' = views
    BY <1>2 DEF SortRead
  <2>2. CASE SortAt(s, "unwind")
    <3>1. SortsHold
      BY <1>2, <1>b, <2>2 DEF SortAt, SortTo, SortsHold, SortRead
    <3>2. QED
      BY <1>2, <1>c, <2>1, <3>1, OpenStays
  <2>3. CASE ~SortAt(s, "unwind")
    <3>1. Commits(s)
      BY <1>2, <1>a, <2>3, SortFields DEF SortRead, OrderingShape, Shapes, Typed
    <3>2. srt[s].at = "read" /\ view = srt[s].view /\ srt'[s].at = "release" /\ srt'[s].view = view
      BY <1>2, <1>a, <3>1 DEF SortRead, Commits, Shapes, Typed, OrderingShape
    <3>3. view[2] = 0
      <4>1. view = SortedView(s) \/ view[2] = 0
        <5>1. view \in {SortedView(s), Base(srt[s].base)}
          BY <3>2 DEF OrderInv, SortReads
        <5>2. QED
          BY <5>1, ViewFields
      <4>2. view[2] # 0 => srt[view[2]].at \in {"release", "done"}
        BY DEF OpenInv, ViewsAreKept
      <4>3. view = SortedView(s) => view[2] = s
        BY DEF SortedView
      <4>4. QED
        BY <3>2, <4>1, <4>2, <4>3
    <3>4. \A x \in Sorts : srt'[x].at = "release" /\ srt'[x].view[2] # 0 =>
            srt'[x].view # view' /\ srt'[srt'[x].view[2]].at \in {"release", "done"}
      <4>1. TAKE x \in Sorts
      <4>2. HAVE srt'[x].at = "release" /\ srt'[x].view[2] # 0
      <4>3. x # s /\ srt'[x] = srt[x]
        BY <1>b, <3>2, <3>3, <4>2
      <4>4. srt[srt[x].view[2]].at \in {"release", "done"}
        BY <4>2, <4>3 DEF OpenInv, ViewsAreKept
      <4>5. srt[x].view[2] \in Sorts
        BY <4>2, <4>3 DEF Shapes, Typed, SortShape, Over, OrderingShape, AnyView, Views, NoView
      <4>6. srt'[srt[x].view[2]] = srt[srt[x].view[2]]
        BY <1>b, <3>2, <4>4, <4>5
      <4>7. QED
        BY <1>2, <3>3, <4>2, <4>3, <4>4, <4>6
    <3>5. QED
      BY <1>2, <1>c, <3>3, <3>4 DEF OpenInv, BaseIsOpen, ViewsAreKept
  <2>4. QED
    BY <2>2, <2>3
<1>3. CASE ~SortRead(s)
  <2>1. view' = view
    BY <1>3 DEF SortStep, SortCleaned, SortJoined, SortDrained, SortDrainFails, SortCreated, SortCreateFails,
                SortReadFails, SortReleased, SortUnwound
  <2>2. SortsHold
    <3>1. srt[s].at \notin {"release", "done"} => srt'[s].at # "release"
      <4>1. CASE srt[s].at = "read"
        <5>1. SortThrows(s, "error")
          BY <1>3, <4>1 DEF SortStep, SortCleaned, SortJoined, SortDrained, SortDrainFails, SortCreated,
                            SortCreateFails, SortReadFails, SortReleased, SortUnwound
        <5>2. QED
          BY <1>a, <4>1, <5>1, SortFields DEF SortAt, SortTo, Shapes, Typed
      <4>2. CASE srt[s].at # "read"
        BY <1>a, <4>2 DEF SortTurn, SortTo, SortAt, SortIsDone
      <4>3. QED
        BY <4>1, <4>2
    <3>2. srt[s].at = "release" => srt'[s].at = "done"
      BY <1>a DEF SortTurn, SortIsDone
    <3>3. srt[s].at # "done"
      BY <1>a DEF OrderingShape
    <3>4. QED
      BY <1>b, <3>1, <3>2, <3>3 DEF SortsHold
  <2>3. view[2] # 0 /\ view \in views => view \in views'
    <3>1. CASE SortReleased(s)
      <4>1. srt[s].at = "release" /\ views' = views \ {srt[s].view}
        BY <3>1 DEF SortReleased
      <4>2. QED
        BY <4>1 DEF OpenInv, ViewsAreKept
    <3>2. CASE SortUnwound(s)
      <4>1. srt[s].at = "unwind" /\ views' = views \ {srt[s].view}
        BY <3>2 DEF SortUnwound
      <4>2. srt[s].view \in {NoView, SortedView(s), Base(srt[s].base)}
        BY <4>1 DEF OrderInv, SortReads
      <4>3. view[2] # 0 => view # srt[s].view
        BY <4>1, <4>2 DEF OpenInv, ViewsAreKept, NoView, SortedView, Base
      <4>4. QED
        BY <4>1, <4>3
    <3>3. CASE ~SortReleased(s) /\ ~SortUnwound(s)
      BY <1>3, <3>3 DEF SortStep, SortCleaned, SortJoined, SortDrained, SortDrainFails, SortCreated,
                        SortCreateFails, SortReadFails
    <3>4. QED
      BY <3>1, <3>2, <3>3
  <2>4. QED
    BY <1>c, <2>1, <2>2, <2>3, OpenStays
<1>4. QED
  BY <1>1, <1>2, <1>3


LEMMA ExportKeepsOpen ==
    ASSUME Assumptions, Shapes, OpenInv, NEW e \in Exports, ExportStep(e) \/ ExportProgresses(e)
    PROVE  OpenInv'
<1> USE DEF ExporterRest, sorterVars, dbVars
<1>1. UNCHANGED <<base, view, closes, srt, views>>
  <2>1. CASE ExportStep(e)
    BY <2>1, ExportGoesOn
  <2>2. CASE ExportProgresses(e)
    BY <2>2 DEF ExportProgresses
  <2>3. QED
    BY <2>1, <2>2
<1>2. base # None => db'[base].at = "open"
  <2>a. base \in {None} \cup Queries /\ (base # None => db[base].at = "open")
    BY DEF OpenInv, BaseIsOpen, Shapes, Typed
  <2>1. CASE ExportDrained(e) \/ ExportDrainFails(e)
    <3>1. FetchOk(exp[e].base) \/ \E k : FetchFails(exp[e].base, k)
      BY <2>1 DEF ExportDrained, ExportDrainFails
    <3>2. exp[e].base \in Queries
      BY <2>1, ExportUpdates DEF ExportDrained, ExportDrainFails, ExportingShape, Shapes, Typed
    <3>3. QED
      BY <2>a, <3>1, <3>2, AnswersKeepSessions
  <2>2. CASE ~(ExportDrained(e) \/ ExportDrainFails(e))
    <3>1. db' = db
      BY <2>2 DEF ExportStep, ExportPicked, ExportPickFails, ExportJoined, ExportEncoded, ExportEncodeFails,
                  ExportCommitted, ExportCommitFails, ExportFinished, ExportFinishFails, ExportUnwound,
                  ExportProgresses
    <3>2. QED
      BY <2>a, <3>1
  <2>3. QED
    BY <2>1, <2>2
<1>3. SortsHold
  BY <1>1 DEF SortsHold
<1>4. QED
  BY <1>1, <1>2, <1>3, OpenStays

LEMMA CallKeepsOpen ==
    ASSUME Assumptions, Shapes, OpenInv,
           \/ \E s \in Sorts : Sort(s)
           \/ CancelSort
           \/ (\E e \in Exports : Download(e))
                \/ DownloadRefused \/ CancelDownload \/ SaveDownload \/ DismissDownload
           \/ RunQuery \/ OpenFiles \/ Cancel \/ Dispose \/ Planned \/ Opened
           \/ \E q \in Queries : StopEnds(q)
           \/ UNCHANGED vars
    PROVE  OpenInv'
<1> USE DEF SorterRest, ExporterRest, CallsRest, sorterVars, exportVars, dbVars, sessionVars, storeVars,
            familyVars, vars
<1>a. base # None => db[base].at = "open"
  BY DEF OpenInv, BaseIsOpen
<1>1. UNCHANGED <<base, view, closes, db, views>>
  BY DEF Sort, CancelSort, Download, DownloadRefused, CancelDownload, SaveDownload, DismissDownload,
         RunQuery, OpenFiles, Cancel, Dispose, Planned, Opened, StopEnds
<1>2. SortsHold
  <2>1. CASE UNCHANGED srt
    BY <2>1 DEF SortsHold
  <2>2. CASE RunQuery \/ OpenFiles \/ Cancel \/ Dispose
    <3>1. SupersedeSort /\ SupersedeExport
      BY <2>2 DEF RunQuery, OpenFiles, Cancel, Dispose, Withdraw
    <3>2. QED
      BY <3>1, SupersedeShapes DEF SortsHold, SortLive
  <2>3. ASSUME NEW s \in Sorts, Sort(s)
        PROVE  SortsHold
    <3>1. srt[s].at = "no" /\ srt'[s].at = "cleanup" /\ \A x \in Sorts \ {s} : srt'[x] = srt[x]
      BY <2>3 DEF Sort, Shapes, Typed
    <3>2. QED
      BY <3>1 DEF SortsHold
  <2>4. CASE CancelSort
    <3>1. activeSort \in Sorts /\ srt[activeSort].at \notin {"no", "done"} /\ srt \in [Sorts -> SortShape]
      BY <2>4 DEF CancelSort, SortPending, Shapes, Typed, HeldIsLive, SortLive
    <3>2. srt[activeSort] \in OrderingShape
      BY <3>1, SortUpdates
    <3>3. \A s \in Sorts : srt'[s].at = srt[s].at /\ (SortLive(s) => srt'[s].view = srt[s].view)
      BY <2>4, <3>1, <3>2 DEF CancelSort, OrderingShape, SortLive
    <3>4. QED
      BY <3>3 DEF SortsHold, SortLive
  <2>5. QED
    BY <2>1, <2>2, <2>3, <2>4 DEF Download, DownloadRefused, CancelDownload, SaveDownload, DismissDownload,
                                  Planned, Opened, StopEnds
<1>3. QED
  BY <1>a, <1>1, <1>2, OpenStays

LEMMA ClosingKeepsOpen ==
    ASSUME Assumptions, Shapes, OpenInv,
           \/ (\E c \in closes : CloseStep(c)) \/ (\E q \in Queries : SessionCloses(q))
           \/ \E q \in Queries : StopCloses(q)
    PROVE  OpenInv'
<1> USE DEF sorterVars, exportVars, sessionVars, storeVars
<1>a. /\ base \in {None} \cup Queries /\ (base # None => db[base].at = "open")
      /\ db \in [Queries -> DbShape]
  BY DEF OpenInv, BaseIsOpen, Shapes, Typed
<1>1. ASSUME NEW c \in closes, CloseStep(c)
      PROVE  OpenInv'
  <2>1. base = None /\ view = NoView
    BY DEF OpenInv, BaseIsOpen, Shapes, ViewOfBase
  <2>2. UNCHANGED <<base, view, srt>>
    BY <1>1 DEF CloseStep, ReleasesView, CloseEnds
  <2>3. view'[2] = 0
    BY <2>1, <2>2 DEF NoView
  <2>4. BaseIsOpen'
    BY <2>1, <2>2 DEF BaseIsOpen
  <2>5. QED
    BY <2>2, <2>3, <2>4, BaseShown
<1>2. ASSUME NEW q \in Queries, SessionCloses(q)
      PROVE  OpenInv'
  <2>1. db[q].at = "closing" /\ UNCHANGED <<base, view, closes, srt>>
        /\ db' = [db EXCEPT ![q].at = "closed"] /\ views' = {v \in views : v[1] # q}
    BY <1>2 DEF SessionCloses
  <2>2. base # q
    BY <1>a, <2>1 DEF None, Queries
  <2>3. view[2] # 0 => view[1] = base /\ base # None
    BY DEF Shapes, ViewOfBase, NoView
  <2>4. base # None => db'[base].at = "open"
    BY <1>a, <2>1, <2>2
  <2>5. view[2] # 0 /\ view \in views => view \in views'
    BY <2>1, <2>2, <2>3
  <2>6. SortsHold
    BY <2>1 DEF SortsHold
  <2>7. QED
    BY <2>1, <2>4, <2>5, <2>6, OpenStays
<1>3. ASSUME NEW q \in Queries, StopCloses(q)
      PROVE  OpenInv'
  BY <1>3, CloseKeepsOpen DEF StopCloses
<1>4. QED
  BY <1>1, <1>2, <1>3

LEMMA OpenKept ==
    ASSUME Assumptions, Shapes, OrderInv, OpenInv, [Next]_vars
    PROVE  OpenInv'
<1>1. CASE Next
  BY <1>1, Steps, RunKeepsOpen, DemandKeepsOpen, SortKeepsOpen, ExportKeepsOpen, CallKeepsOpen,
      ClosingKeepsOpen
<1>2. CASE UNCHANGED vars
  BY <1>2, CallKeepsOpen
<1>3. QED
  BY <1>1, <1>2


-----------------------------------------------------------------------------
(* A file offered for saving exists: only the commit of the latest download       *)
(* offers one, and what replaces the file takes the offer away.                   *)

DownloadStays == state'.download = state.download /\ UNCHANGED <<exportGen, retained>>
DownloadGoes  == state'.download = NoDownload

LEMMA FilesStay ==
    ASSUME FilesAreKept, DownloadStays \/ DownloadGoes
    PROVE  FilesAreKept'
  BY DEF FilesAreKept, DownloadStays, DownloadGoes, NoDownload

LEMMA DownloadUntouched ==
    ASSUME NEW st \in StateShape
    PROVE  /\ Opening(st).download = NoDownload /\ Ready(st).download = st.download
           /\ Failed(st).download = st.download /\ QueryStarted(st).download = st.download
           /\ QueryFailed(st).download = st.download
           /\ \A r : QuerySucceeded(st, r).download = st.download /\ WindowUpdated(st, r).download = st.download
           /\ \A q, s, f, r : OrderCommitted(st, q, s, f, r).download = st.download
           /\ \A q, f, x : SortUpdated(st, q, f, x).download = st.download
           /\ Cancelled(st).download \in {st.download, NoDownload}
           /\ \A x : PageFailed(st, x).download = st.download
           /\ Loading(st).download = st.download
<1>1. /\ Opening(st).download = NoDownload /\ Ready(st).download = st.download
      /\ Failed(st).download = st.download /\ QueryStarted(st).download = st.download
      /\ QueryFailed(st).download = st.download
      /\ Cancelled(st).download \in {st.download, NoDownload}
  BY DEF Opening, Ready, Failed, QueryStarted, QueryFailed, Cancelled, InitialState, StateShape
<1>2. \A r : QuerySucceeded(st, r).download = st.download /\ WindowUpdated(st, r).download = st.download
  BY DEF QuerySucceeded, WindowUpdated, StateShape
<1>3. \A q, s, f, r : OrderCommitted(st, q, s, f, r).download = st.download
  BY DEF OrderCommitted, StateShape
<1>4. \A q, f, x : SortUpdated(st, q, f, x).download = st.download
  BY DEF SortUpdated, StateShape
<1>5. \A r : [st EXCEPT !.result = r].download = st.download
  BY DEF StateShape
<1>6. \A x : PageFailed(st, x).download = st.download
  BY <1>5 DEF PageFailed
<1>7. Loading(st).download = st.download
  BY <1>5 DEF Loading
<1>8. QED
  BY <1>1, <1>2, <1>3, <1>4, <1>6, <1>7

LEMMA CountsKeepDownload ==
    ASSUME NEW st \in StateShape, NEW q, NEW revision, NEW d
    PROVE  RefreshCounts(st, q, revision, d).download = st.download
  BY DownloadUntouched DEF RefreshCounts

LEMMA RunKeepsFiles ==
    ASSUME Assumptions, Shapes, FilesAreKept, NEW q \in Queries, RunStep(q)
    PROVE  FilesAreKept'
<1> USE DEF exportVars
<1>a. state \in StateShape
  BY DEF Shapes, Typed
<1>1. UNCHANGED exportVars
  BY DEF RunStep, RunCleaned, RunClosed, StartOk, StartFails, RunDropped, RunFetched, RunFetchFails, RunRead,
         RunReadFails, RunViewer, RunFailed, RunThrows
<1>2. state'.download = state.download
  <2>1. CASE \E by : Close(by, state, queryGen)
    BY <2>1, CloseDoes
  <2>2. CASE ~\E by : Close(by, state, queryGen)
    BY <1>a, <2>2, DownloadUntouched
       DEF RunStep, RunCleaned, RunClosed, StartOk, StartFails, RunDropped, RunFetched, RunFetchFails,
           RunRead,
           RunReadFails, RunViewer, RunFailed, RunThrows, Succeeds
  <2>3. QED
    BY <2>1, <2>2
<1>3. QED
  BY <1>1, <1>2, FilesStay DEF DownloadStays

LEMMA DemandKeepsFiles ==
    ASSUME Assumptions, Shapes, FilesAreKept, NEW d \in Demands, Demand(d) \/ DemandStep(d)
    PROVE  FilesAreKept'
<1> USE DEF exportVars
<1>a. state \in StateShape
  BY DEF Shapes, Typed
<1>1. CASE DemandReadFails(d) /\ DemandActive(d)
  <2>1. PageFailed(state, "final") \in StateShape
    BY <1>a, NoteEvents DEF Errors
  <2>2. DownloadGoes
    BY <1>1, <2>1, DownloadLeaves DEF DemandReadFails, DownloadGoes
  <2>3. QED
    BY <2>2, FilesStay
<1>2. CASE ~(DemandReadFails(d) /\ DemandActive(d))
  <2>1. UNCHANGED exportVars
    BY <1>2 DEF Demand, LoadMore, RetryPage, LoadWindow, DemandStep, DemandFetched, DemandFetchFails,
      DemandRead,
                DemandViewer, DemandReadFails, DemandGivesUp
  <2>2. state'.download = state.download
    <3>1. CASE \E by : Close(by, state, queryGen)
      BY <3>1, CloseDoes
    <3>2. CASE ~\E by : Close(by, state, queryGen)
      BY <1>2, <1>a, <3>2, DownloadUntouched
         DEF Demand, LoadMore, RetryPage, LoadWindow, DemandStep, DemandFetched, DemandFetchFails, DemandRead,
             DemandViewer, DemandReadFails, DemandGivesUp, DemandPublishes
    <3>3. QED
      BY <3>1, <3>2
  <2>3. QED
    BY <2>1, <2>2, FilesStay DEF DownloadStays
<1>3. QED
  BY <1>1, <1>2

LEMMA SortKeepsFiles ==
    ASSUME Assumptions, Shapes, FilesAreKept,
           CancelSort \/ \E s \in Sorts : Sort(s) \/ SortStep(s)
    PROVE  FilesAreKept'
<1> USE DEF exportVars
<1>a. state \in StateShape /\ db \in [Queries -> DbShape] /\ srt \in [Sorts -> SortShape]
  BY DEF Shapes, Typed
<1>1. CASE CancelSort
  BY <1>1, <1>a, DownloadUntouched, FilesStay DEF CancelSort, Progress, DownloadStays
<1>2. ASSUME NEW s \in Sorts, Sort(s)
      PROVE  FilesAreKept'
  <2>1. PICK phase \in {"loading", "storing"} :
          state' = WithoutDownload(SortUpdated(state, queryGen, state.result.revision, [id |-> s, phase |-> phase]))
    BY <1>2 DEF Sort
  <2>2. SortUpdated(state, queryGen, state.result.revision, [id |-> s, phase |-> phase]) \in StateShape
    BY <1>a, SortEvents DEF SortPhases
  <2>3. QED
    BY <2>1, <2>2, DownloadLeaves, FilesStay DEF DownloadGoes
<1>3. ASSUME NEW s \in Sorts, SortStep(s)
      PROVE  FilesAreKept'
  <2>1. UNCHANGED exportVars
    BY <1>3 DEF SortStep, SortCleaned, SortJoined, SortDrained, SortDrainFails, SortCreated, SortCreateFails,
                SortRead, SortReadFails, SortReleased, SortUnwound
  <2>2. state'.download = state.download
    <3>1. CASE SortDrained(s)
      <4>1. srt[s].base \in Queries
        BY <1>a, <3>1, SortUpdates DEF SortDrained, OrderingShape
      <4>2. db' \in [Queries -> DbShape]
        BY <3>1, <4>1, FetchShapes DEF SortDrained
      <4> DEFINE st == RefreshCounts(state, srt[s].q, state.result.revision, db')
      <4>3. st \in StateShape /\ st.download = state.download
        BY <1>a, <4>2, CountsShape, CountsKeepDownload
      <4>4. state' = state \/ state' = Progress(st, s, "loading")
        BY <3>1 DEF SortDrained
      <4> HIDE DEF st
      <4>5. QED
        BY <4>3, <4>4, DownloadUntouched DEF Progress
    <3>2. CASE ~SortDrained(s)
      <4>1. \A q : SortEnded(state, q, s).download = state.download
        BY <1>a DEF SortEnded, StateShape
      <4>2. Outcome(s).download = state.download
        <5>1. Progress(state, s, "failed").download = state.download
          BY <1>a, DownloadUntouched DEF Progress
        <5>2. QED
          BY <4>1, <5>1 DEF Outcome
      <4>3. Commits(s) => state'.download = state.download
        BY <1>a, DownloadUntouched DEF Commits
      <4>4. \A e : PageFailed(state, e).download = state.download
        BY <1>a, DownloadUntouched
      <4>5. QED
        BY <1>3, <3>2, <4>2, <4>3, <4>4
           DEF SortStep, SortCleaned, SortJoined, SortDrainFails, SortCreated, SortCreateFails, SortRead,
               SortReadFails, SortReleased, SortUnwound
    <3>3. QED
      BY <3>1, <3>2
  <2>3. QED
    BY <2>1, <2>2, FilesStay DEF DownloadStays
<1>4. QED
  BY <1>1, <1>2, <1>3

\* A report of the latest download is shown, and no other is.
LEMMA Reported ==
    ASSUME Assumptions, Shapes, FilesAreKept, NEW e \in Exports, NEW phase \in DownloadPhases,
           NEW st \in StateShape, st.download = state.download
    PROVE  Report(st, e, phase).download =
             IF exportGen = e THEN [gen |-> e, phase |-> phase] ELSE state.download
<1>1. exportGen = e => state.download = NoDownload \/ state.download.gen = e
  BY DEF FilesAreKept, Exports, None
<1>2. QED
  BY <1>1 DEF Report, DownloadUpdated, StateShape

LEMMA ExportKeepsFiles ==
    ASSUME Assumptions, Shapes, FilesAreKept, NEW e \in Exports, ExportStep(e) \/ ExportProgresses(e)
    PROVE  FilesAreKept'
<1>a. /\ state \in StateShape /\ db \in [Queries -> DbShape] /\ db' \in [Queries -> DbShape]
  BY ExportStateShape DEF Shapes, Typed
<1>b. exportGen' = exportGen
  <2>1. CASE ExportStep(e)
    BY <2>1, ExportGoesOn
  <2>2. CASE ExportProgresses(e)
    BY <2>2 DEF ExportProgresses, exportVars
  <2>3. QED
    BY <2>1, <2>2
<1>c. [gen |-> e, phase |-> "none"] # NoDownload /\ e # None
  BY DEF NoDownload, None, Exports
<1> DEFINE Reports(phase) == state'.download = IF exportGen = e THEN [gen |-> e, phase |-> phase] ELSE state.download
<1>1. ASSUME retained' = retained, NEW phase \in DownloadPhases \ {"ready-to-save"}, Reports(phase)
      PROVE  FilesAreKept'
  BY <1>b, <1>1 DEF FilesAreKept
<1>2. ASSUME retained' = retained, state'.download = state.download
      PROVE  FilesAreKept'
  BY <1>b, <1>2, FilesStay DEF DownloadStays
<1>3. ASSUME NEW phase \in DownloadPhases, state' = Report(state, e, phase)
      PROVE  Reports(phase)
  BY <1>a, <1>3, Reported
<1>4. ASSUME NEW d \in {db, db'}, state' = Report(RefreshCounts(state, exp[e].gen, exp[e].revision, d), e, "encoding")
      PROVE  Reports("encoding")
  <2> DEFINE st == RefreshCounts(state, exp[e].gen, exp[e].revision, d)
  <2>1. st \in StateShape /\ st.download = state.download
    BY <1>a, CountsShape, CountsKeepDownload
  <2>2. state' = Report(st, e, "encoding")
    BY <1>4
  <2> HIDE DEF st
  <2>3. QED
    BY <2>1, <2>2, Reported DEF DownloadPhases
<1> HIDE DEF Reports
<1>5. CASE ExportPicked(e) \/ ExportPickFails(e) \/ ExportEncoded(e) \/ ExportEncodeFails(e)
           \/ ExportCommitFails(e) \/ ExportFinishFails(e) \/ ExportProgresses(e) \/ ExportFinished(e)
           \/ ExportUnwound(e)
  <2>1. retained' = retained
    BY <1>5 DEF ExportPicked, ExportPickFails, ExportEncoded, ExportEncodeFails, ExportCommitFails,
                ExportFinishFails, ExportProgresses, ExportFinished, ExportUnwound, exportVars
  <2>2. state' = state \/ \E phase \in DownloadPhases \ {"ready-to-save"} : state' = Report(state, e, phase)
    BY <1>5 DEF ExportPicked, ExportPickFails, ExportEncoded, ExportEncodeFails, ExportCommitFails,
      ExportEnds,
                ExportFinishFails, ExportProgresses, ExportFinished, ExportUnwound, DownloadPhases
  <2>3. QED
    BY <1>1, <1>2, <1>3, <2>1, <2>2
<1>6. CASE ExportJoined(e) \/ ExportDrained(e) \/ ExportDrainFails(e)
  <2>1. retained' = retained
    BY <1>6 DEF ExportJoined, ExportDrained, ExportDrainFails
  <2>2. \/ state' = state
        \/ \E d \in {db, db'} : LET st == RefreshCounts(state, exp[e].gen, exp[e].revision, d) IN
                                state' = st \/ state' = Report(st, e, "encoding")
        \/ \E k \in {"retry", "final"} : state' = PageFailed(state, k)
    BY <1>6 DEF ExportJoined, ExportDrained, ExportDrainFails, Encodes
  <2>3. CASE \E d \in {db, db'} : state' = Report(RefreshCounts(state, exp[e].gen, exp[e].revision, d), e, "encoding")
    BY <1>1, <1>4, <2>1, <2>3 DEF DownloadPhases
  <2>4. CASE state' = state \/ (\E d \in {db, db'} : state' = RefreshCounts(state, exp[e].gen, exp[e].revision, d))
             \/ \E k \in {"retry", "final"} : state' = PageFailed(state, k)
    BY <1>a, <1>2, <2>1, <2>4, CountsKeepDownload, DownloadUntouched
  <2>5. QED
    BY <2>2, <2>3, <2>4
<1>7. CASE ExportCommitted(e)
  <2>1. CASE UNCHANGED <<state, retained>>
    BY <1>2, <2>1
  <2>2. CASE ~UNCHANGED <<state, retained>>
    <3>1. exportGen = e /\ retained' = e /\ state' = Report(state, e, "ready-to-save")
      BY <1>7, <2>2 DEF ExportCommitted, ExportEnds, MayGoOn, IsCurrentExport
    <3>2. state'.download = [gen |-> e, phase |-> "ready-to-save"]
      BY <1>a, <3>1, Reported DEF DownloadPhases
    <3>3. QED
      BY <1>b, <3>1, <3>2 DEF FilesAreKept
  <2>3. QED
    BY <2>1, <2>2
<1>8. QED
  BY <1>5, <1>6, <1>7 DEF ExportStep

LEMMA CallKeepsFiles ==
    ASSUME Assumptions, Shapes, FilesAreKept,
           \/ (\E e \in Exports : Download(e))
                \/ DownloadRefused \/ CancelDownload \/ SaveDownload \/ DismissDownload
           \/ RunQuery \/ OpenFiles \/ Cancel \/ Dispose \/ Planned \/ Opened
           \/ (\E c \in closes : CloseStep(c)) \/ (\E q \in Queries : SessionCloses(q))
           \/ \E q \in Queries : StopCloses(q) \/ StopEnds(q)
           \/ UNCHANGED vars
    PROVE  FilesAreKept'
<1> USE DEF exportVars, storeVars, familyVars, vars
<1>a. /\ state \in StateShape /\ {exportGen, activeExport, retained} \subseteq {None} \cup Exports
      /\ WithoutDownload(state) \in StateShape /\ WithoutDownload(state).download = NoDownload
  BY DownloadLeaves DEF Shapes, Typed
<1>1. ASSUME NEW e \in Exports, Download(e)
      PROVE  FilesAreKept'
  <2>1. state' = [WithoutDownload(state) EXCEPT !.download = [gen |-> e, phase |-> "picking"]] /\ exportGen' = e
    BY <1>a, <1>1 DEF Download, DownloadUpdated
  <2>2. state'.download = [gen |-> e, phase |-> "picking"]
    BY <1>a, <2>1 DEF StateShape
  <2>3. QED
    BY <2>1, <2>2 DEF FilesAreKept
<1>2. CASE DownloadRefused
  <2>1. state' = [WithoutDownload(state) EXCEPT !.download = [gen |-> Refused, phase |-> "failed"]] /\ exportGen' = None
    BY <1>a, <1>2 DEF DownloadRefused, DownloadUpdated
  <2>2. state'.download = [gen |-> Refused, phase |-> "failed"]
    BY <1>a, <2>1 DEF StateShape
  <2>3. QED
    BY <2>1, <2>2 DEF FilesAreKept
<1>3. CASE CancelDownload
  <2>1. activeExport \in Exports /\ UNCHANGED <<exportGen, retained>> /\ state' = Report(state, activeExport, "cancelling")
    BY <1>3, <1>a DEF CancelDownload
  <2>2. state'.download = IF exportGen = activeExport THEN [gen |-> activeExport, phase |-> "cancelling"]
                                                      ELSE state.download
    BY <1>a, <2>1, Reported DEF DownloadPhases
  <2>3. QED
    BY <2>1, <2>2 DEF FilesAreKept
<1>4. CASE SaveDownload
  <2>1. PICK phase \in {"saved", "failed"} :
          state' = DownloadUpdated(state, retained, [gen |-> retained, phase |-> phase])
    BY <1>4 DEF SaveDownload
  <2>2. UNCHANGED <<exportGen, retained>> /\ retained # None /\ state.download.gen = retained
    BY <1>4 DEF SaveDownload
  <2>3. state'.download = [gen |-> retained, phase |-> phase]
    BY <1>a, <2>1, <2>2 DEF DownloadUpdated, StateShape
  <2>4. state.download # NoDownload
    BY <2>2 DEF NoDownload
  <2>5. QED
    BY <2>2, <2>3, <2>4 DEF FilesAreKept
<1>5. CASE DismissDownload \/ RunQuery \/ OpenFiles \/ Cancel \/ Dispose
  <2>1. CASE Cancel
    <3> DEFINE shown == WithoutDownload(state)
    <3>1. PageFailed(shown, "final") \in StateShape /\ PageFailed(shown, "final").download = NoDownload
      BY <1>a, NoteEvents, DownloadUntouched DEF Errors
    <3>2. PICK st \in {shown, PageFailed(shown, "final")} : state' = Cancelled(st)
      BY <2>1 DEF Cancel
    <3>3. st \in StateShape /\ st.download = NoDownload
      BY <1>a, <3>1, <3>2
    <3>4. DownloadGoes
      BY <3>2, <3>3, DownloadUntouched DEF DownloadGoes
    <3>5. QED
      BY <3>4, FilesStay
  <2>2. CASE DismissDownload \/ RunQuery \/ OpenFiles \/ Dispose
    <3>1. DownloadGoes
      BY <1>a, <2>2, DownloadUntouched DEF DismissDownload, RunQuery, OpenFiles, Dispose, InitialState,
        DownloadGoes
    <3>2. QED
      BY <3>1, FilesStay
  <2>3. QED
    BY <1>5, <2>1, <2>2
<1>6. CASE Planned \/ Opened
  <2>1. UNCHANGED <<exportGen, retained>>
    BY <1>6 DEF Planned, Opened
  <2>2. state'.download \in {state.download, NoDownload}
    BY <1>6, <1>a, DownloadUntouched DEF Planned, Opened
  <2>3. QED
    BY <2>1, <2>2, FilesStay DEF DownloadStays, DownloadGoes
<1>7. CASE \/ (\E c \in closes : CloseStep(c)) \/ (\E q \in Queries : SessionCloses(q))
           \/ \E q \in Queries : StopCloses(q) \/ StopEnds(q)
           \/ UNCHANGED vars
  <2>1. UNCHANGED exportVars
    BY <1>7 DEF CloseStep, ReleasesView, CloseEnds, SessionCloses, StopCloses, StopEnds
  <2>2. state'.download = state.download
    <3>1. CASE \E q \in Queries : StopCloses(q)
      BY <3>1, CloseDoes DEF StopCloses
    <3>2. CASE ~\E q \in Queries : StopCloses(q)
      BY <1>7, <3>2 DEF CloseStep, ReleasesView, CloseEnds, SessionCloses, StopEnds
    <3>3. QED
      BY <3>1, <3>2
  <2>3. QED
    BY <2>1, <2>2, FilesStay DEF DownloadStays
<1>8. QED
  BY <1>1, <1>2, <1>3, <1>4, <1>5, <1>6, <1>7

LEMMA FilesKept ==
    ASSUME Assumptions, Shapes, FilesAreKept, [Next]_vars
    PROVE  FilesAreKept'
<1>1. CASE Next
  BY <1>1, Steps, RunKeepsFiles, DemandKeepsFiles, SortKeepsFiles, ExportKeepsFiles, CallKeepsFiles
<1>2. CASE UNCHANGED vars
  BY <1>2, CallKeepsFiles
<1>3. QED
  BY <1>1, <1>2

\* A current result has its family behind it, sorted view included, and a file offered
\* for saving exists (result-session.ts:229-233, result-exporter.ts:368-375).
THEOREM WhatIsOfferedIsThere ==
    ASSUME Assumptions
    PROVE  Spec => []OffersAreBacked
<1>1. Init => OrderInv /\ OpenInv /\ FilesAreKept
  <2>1. ASSUME Init PROVE OpenInv /\ FilesAreKept
    <3>1. /\ state.download = NoDownload /\ base = None /\ view = NoView /\ closes = {} /\ exportGen = None
          /\ \A s \in Sorts : srt[s].at = "no"
      BY <2>1 DEF Init, FamilyInit, Ready, InitialState
    <3>2. QED
      BY <3>1 DEF OpenInv, BaseIsOpen, ViewsAreKept, FilesAreKept, NoView, NoDownload
  <2>2. QED
    BY <2>1, InitOrder
<1>2. Shapes /\ Shapes' /\ (OrderInv /\ OpenInv /\ FilesAreKept) /\ [Next]_vars
        => (OrderInv /\ OpenInv /\ FilesAreKept)'
  BY OrderKept, OpenKept, FilesKept
<1>3. Shapes /\ OrderInv /\ OpenInv /\ FilesAreKept => OffersAreBacked
  <2>1. SUFFICES ASSUME Shapes, OrderInv, OpenInv, FilesAreKept PROVE OffersAreBacked
    OBVIOUS
  <2>2. TypeOK
    <3>1. /\ state.sorting = NoSorting \/ state.sorting.phase \in SortPhases
          /\ state.download = NoDownload \/ state.download.phase \in DownloadPhases
          /\ state.phase \in {"idle", "opening", "ready", "querying", "failed"}
      BY <2>1 DEF Shapes, Typed, StateShape, SortingShape, DownloadShape
    <3>2. QED
      BY <2>1, <3>1 DEF Shapes, Typed, TypeOK
  <2>3. ASSUME state.current, state.result.gen = queryGen
        PROVE  base = state.result.gen /\ db[base].at = "open" /\ (view # Base(base) => view \in views)
    <3>1. base = queryGen /\ HasResult
      BY <2>1, <2>3 DEF OrderInv, BaseInOrder
    <3>2. base # None
      BY <2>1, <2>3, <3>1 DEF HasResult, Shapes, Typed, StateShape, ResultShape, RowsShape, Queries, None
    <3>3. view = <<base, view[2]>>
      BY <2>1, <3>2 DEF Shapes, Typed, ViewOfBase, AnyView, Views, NoView, Queries, None
    <3>4. view # Base(base) => view[2] # 0
      BY <3>3 DEF Base
    <3>5. QED
      BY <2>1, <2>3, <3>1, <3>2, <3>4 DEF OpenInv, BaseIsOpen, ViewsAreKept
  <2>4. ASSUME state.download.phase = "ready-to-save"
        PROVE  retained = state.download.gen /\ exp[retained].sink = "committed"
    <3>1. state.download \in [gen : 1..(MaxExports + 1), phase : DownloadPhases]
      BY <2>1, <2>4 DEF Shapes, Typed, StateShape, DownloadShape, NoDownload
    <3>2. retained = state.download.gen /\ retained # None
      BY <2>1, <2>4, <3>1 DEF FilesAreKept, None
    <3>3. QED
      BY <2>1, <3>2 DEF Shapes, HeldIsLive
  <2>5. QED
    BY <2>2, <2>3, <2>4 DEF OffersAreBacked
<1>4. QED
  BY <1>1, <1>2, <1>3, ShapesHold, PTL DEF Spec
=============================================================================
