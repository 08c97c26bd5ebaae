----------------------------- MODULE ResultFamily ----------------------------
(***************************************************************************)
(* What ResultSession, ResultSorter and ResultExporter share: the fields they *)
(* read of each other, the fences, the operations by which one invalidates    *)
(* another, and the database as they use it (Database and QuerySession model   *)
(* it in full).  Their actions are in the modules that extend this one.        *)
(*                                                                         *)
(* A step runs from one await to the next.                                   *)
(***************************************************************************)
EXTENDS ResultState, FiniteSets

CONSTANTS
    MaxQueries,  \* bound: query generations
    MaxSorts,    \* bound: sort requests
    MaxExports,  \* bound: downloads
    MaxDemands,  \* bound: page demands
    MaxRows      \* bound: rows of a query's result

\* Of the constants; assumed by the module that instantiates this one.
FamilyAssumption ==
    /\ {MaxQueries, MaxSorts, MaxExports, MaxDemands} \subseteq Nat
    /\ MaxRows \in Nat \ {0}

Queries == 1..MaxQueries
Sorts   == 1..MaxSorts
Exports == 1..MaxExports
Demands == 1..MaxDemands

Base(q) == <<q, 0>>

VARIABLES
    state,        \* SessionStore.current
    storeGen,     \* the session generation
    disposed,
    \* ResultSession
    queryGen,     \* queryGeneration
    base,         \* activeQuery
    view,         \* activeResultView
    viewer,       \* the query whose table viewers receive has been materialized
    demand,       \* resultDemand
    suspendedBy,  \* resultFetchSuspendedBy
    run,          \* per query, its execute()
    dem,          \* per demand, its operation
    closes,       \* the close() calls under way
    \* ResultSorter
    activeSort,
    srt,          \* per request, its run()
    \* ResultExporter
    exportGen,    \* the download of the latest export generation, or None
    activeExport,
    retained,     \* retainedExport
    exp,          \* per download, its performDownload()
    \* the database
    db,           \* per query, its session
    views         \* the sorted views not disposed of

storeVars   == <<state, storeGen, disposed>>
sessionVars == <<queryGen, base, view, viewer, demand, suspendedBy, run, dem, closes>>
sorterVars  == <<activeSort, srt>>
exportVars  == <<exportGen, activeExport, retained, exp>>
dbVars      == <<db, views>>
familyVars  == <<storeVars, sessionVars, sorterVars, exportVars, dbVars>>

FamilyInit ==
    /\ state = Ready(InitialState) /\ storeGen = 1 /\ disposed = FALSE
    /\ queryGen = 0 /\ base = None /\ view = NoView /\ viewer = None
    /\ demand = None /\ suspendedBy = None
    /\ run = [q \in Queries |-> [at |-> "no"]]
    /\ dem = [d \in Demands |-> [at |-> "no"]]
    /\ closes = {}
    /\ activeSort = None /\ srt = [s \in Sorts |-> [at |-> "no"]]
    /\ exportGen = None /\ activeExport = None /\ retained = None
    /\ exp = [e \in Exports |-> [at |-> "no"]]
    /\ db = [q \in Queries |-> [at |-> "none", rows |-> 0, whole |-> FALSE, fetches |-> "open"]]
    /\ views = {}

-----------------------------------------------------------------------------
(* The fences.                                                             *)

\* isCurrentQuery: the session generation never moves without the query's.
IsCurrentQuery(q) == ~disposed /\ q = queryGen

\* isActiveResult.
IsActiveResult(b, q) == base = b /\ Shows(state, q) /\ IsCurrentQuery(q)

\* ResultBusy.
SortPending == activeSort # None

Settled(e) == exp[e].at \in {"no", "done"}

\* exportCleanup: every download up to the n-th has been detached and has settled.
CleanedUp(n) == \A e \in Exports : e <= n => Settled(e)
SortSettled(s) == s # None => srt[s].at = "done"

\* The page demand a sort or a download found in flight has settled.
DemandSettled(d) == d # None => dem[d].at \in {"cleanup", "done"}

LastExport == Cardinality({e \in Exports : exp[e].at # "no"})

-----------------------------------------------------------------------------
(* Invalidating one another.                                               *)

\* ResultSorter.supersede.
SupersedeSort ==
    /\ activeSort' = None
    /\ srt' = IF activeSort = None THEN srt ELSE [srt EXCEPT ![activeSort].aborted = TRUE]

\* A destination being abandoned: its sink is aborted unless it has committed.
AbortSink(sink) == IF sink \in {"open", "committing"} THEN "aborted" ELSE sink

\* detachResources: what the download held is aborted or disposed of.
Detach ==
    /\ activeExport' = None /\ retained' = None
    /\ exp' = [e \in Exports |->
                 IF e = activeExport
                 THEN [exp[e] EXCEPT !.aborted = TRUE, !.sink = AbortSink(@)]
                 ELSE IF e = retained THEN [exp[e] EXCEPT !.sink = "disposed"] ELSE exp[e]]

\* The download leaves the state.
WithoutDownload(st) == DownloadUpdated(st, st.download.gen, NoDownload)

\* ResultExporter.supersede; the state it leaves is WithoutDownload.
SupersedeExport == exportGen' = None /\ Detach

-----------------------------------------------------------------------------
(* close().                                                                *)

\* closeQuery: the session is cancelled unless complete, and disposed of.
CloseSession(q) ==
    db' = [db EXCEPT ![q].at = IF @ = "open" THEN "closing" ELSE @]

\* ByteqlDatabase.cancelQuery: a query being started is cancelled; without one, the
\* open one is closed.
Starting == {q \in Queries : run[q].at = "start" /\ db[q].at \in {"none", "cancelled"}}
CancelQuery ==
    db' = [q \in Queries |->
             IF q \in Starting THEN [db[q] EXCEPT !.at = "cancelled"]
             ELSE IF Starting = {} /\ db[q].at = "open" THEN [db[q] EXCEPT !.at = "closing"]
             ELSE db[q]]

\* Its first turn, from state st under query generation q: the family is withdrawn
\* before its resources go, a sorted view first.
Close(by, st, q) ==
    /\ base' = None /\ view' = NoView /\ viewer' = None
    /\ state' = IF base # None THEN Unavailable(st, q) ELSE st
    /\ closes' = closes \cup
         {[by |-> by, view |-> view, base |-> base,
           at |-> CASE base # None /\ view # Base(base) -> "view"
                    [] base = None /\ Starting = {} -> "nothing"
                    [] OTHER -> "base"]}
    /\ IF base = None THEN CancelQuery
       ELSE IF view = Base(base) THEN CloseSession(base) ELSE db' = db

Closing(by) == \E c \in closes : c.by = by

\* A fetch of session q has not answered.
FetchInFlight(q) ==
    \/ run[q].at = "fetch"
    \/ \E d \in Demands : dem[d].at = "fetch" /\ dem[d].base = q
    \/ \E s \in Sorts : srt[s].at = "drain" /\ srt[s].base = q
    \/ \E e \in Exports : exp[e].at = "drain" /\ exp[e].base = q

\* releaseView has disposed of the sorted view that was on display.
ReleasesView(c) ==
    /\ c.at = "view"
    /\ views' = views \ {c.view}
    /\ CloseSession(c.base)
    /\ closes' = (closes \ {c}) \cup {[c EXCEPT !.at = "base"]}
    /\ UNCHANGED <<storeVars, queryGen, base, view, viewer, demand, suspendedBy, run, dem,
                   sorterVars, exportVars>>

\* A session's dispose() waits for its fetch, and retires the views derived from it.
SessionCloses(q) ==
    /\ db[q].at = "closing" /\ ~FetchInFlight(q)
    /\ db' = [db EXCEPT ![q].at = "closed"]
    /\ views' = {v \in views : v[1] # q}
    /\ UNCHANGED <<storeVars, sessionVars, sorterVars, exportVars>>

\* close() settles, and its finally forgets the demand.
CloseEnds(c) ==
    /\ c.at # "view"
    /\ c.base # None => db[c.base].at = "closed"
    /\ closes' = closes \ {c}
    /\ demand' = None
    /\ UNCHANGED <<storeVars, queryGen, base, view, viewer, suspendedBy, run, dem,
                   sorterVars, exportVars, dbVars>>

CloseStep(c) == ReleasesView(c) \/ CloseEnds(c)

-----------------------------------------------------------------------------
(* The sessions' answers.                                                  *)

\* fetchNext(q) resolves: rows more, and whether the result is complete.
FetchOk(q) ==
    /\ db[q].at = "open"
    /\ db[q].fetches = "open"
    /\ \E n \in {0, 1}, w \in BOOLEAN :
         /\ db[q].rows + n <= MaxRows
         /\ db[q].whole => n = 0
         /\ (n = 0 \/ db[q].rows + n = MaxRows) => w
         /\ db' = [db EXCEPT ![q].rows = @ + n, ![q].whole = w]

\* It rejects: a page that did not fit is kept for a retry, any other failure ends
\* the fetches.
FetchFails(q, e) ==
    \/ db[q].at # "open" /\ e = "final" /\ db' = db
    \/ /\ db[q].at = "open" /\ ~db[q].whole
       /\ e = "retry" => db[q].fetches # "terminal"
       /\ e = "final" => db[q].fetches # "retry"
       /\ db' = [db EXCEPT ![q].fetches = IF e = "retry" THEN "retry" ELSE "terminal"]

\* retryPending(q) resolves: the page kept is stored.
RetryOk(q) ==
    /\ db[q].at = "open" /\ db[q].fetches = "retry" /\ db[q].rows < MaxRows
    /\ \E w \in BOOLEAN :
         /\ db[q].rows + 1 = MaxRows => w
         /\ db' = [db EXCEPT ![q].rows = @ + 1, ![q].whole = w, ![q].fetches = "open"]

\* A view can be read: the base of an open session, or a view derived from it.
Readable(v) == db[v[1]].at = "open" /\ (v[2] = 0 \/ v \in views)

\* readResultWindow begins: the counts it captures with the view.
Reading(v, d) == [view |-> v, rows |-> d[v[1]].rows, whole |-> d[v[1]].whole]

\* The state a window becomes.
Paged(q, r, revision, sort, error) ==
    [gen |-> q, rows |-> r.rows, complete |-> r.whole, loading |-> FALSE,
     window |-> r.view, revision |-> revision, sort |-> sort, error |-> error]

=============================================================================
