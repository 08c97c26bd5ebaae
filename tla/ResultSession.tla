---------------------------- MODULE ResultSession ----------------------------
(***************************************************************************)
(* The current query's result family (result-session.ts): execute() of each   *)
(* query, the page demands against its base, and close().                     *)
(***************************************************************************)
EXTENDS ResultFamily

CONSTANT Viewer  \* whether the format opened has a viewer for its tables

\* Of the constants; assumed by the module that instantiates this one.
ViewerAssumption == Viewer \in BOOLEAN

SessionRest == <<storeGen, disposed, queryGen, suspendedBy, sorterVars>>

RunGoes(q, where) == run' = [run EXCEPT ![q].at = where]
RunEnds(q)        == run' = [run EXCEPT ![q] = [at |-> "done"]]

\* The viewer's table is materialized once per base, of a complete result.
NeedsViewer(q, r) == Viewer /\ r.whole /\ viewer # q

-----------------------------------------------------------------------------
(* execute().                                                              *)

\* The turn after priorCleanup closes what is open, without asking whether this
\* query is still the current one.
RunCleaned(q) ==
    /\ run[q].at = "cleanup"
    /\ SortSettled(run[q].sort) /\ CleanedUp(run[q].downloads)
    /\ Close(<<"run", q>>, state, queryGen)
    /\ RunGoes(q, "closing")
    /\ UNCHANGED <<SessionRest, demand, dem, exportVars, views>>

\* The rows that stay on screen of an incomplete result are marked as stopped.
RunClosed(q) ==
    /\ run[q].at = "closing" /\ ~Closing(<<"run", q>>)
    /\ IF IsCurrentQuery(q)
       THEN /\ state' = IF /\ run[q].prior # NoResult /\ ~run[q].prior.complete
                           /\ state.result = run[q].prior
                        THEN PageFailed(state, "final") ELSE state
            /\ RunGoes(q, "start")
       ELSE state' = state /\ RunEnds(q)
    /\ UNCHANGED <<SessionRest, base, view, viewer, demand, dem, closes, exportVars, dbVars>>

\* startQuery resolves, after the sessions before it have closed and those closing
\* them have learnt it.  A query superseded meanwhile is closed at once.
StartOk(q) ==
    /\ run[q].at = "start" /\ db[q].at = "none"
    /\ closes = {}
    /\ \A p \in Queries \ {q} : db[p].at \in {"none", "closed", "cancelled"}
    /\ IF IsCurrentQuery(q)
       THEN /\ base' = q /\ view' = Base(q) /\ viewer' = None
            /\ db' = [db EXCEPT ![q].at = "open"]
            /\ RunGoes(q, "fetch")
       ELSE /\ db' = [db EXCEPT ![q].at = "closing"]
            /\ RunGoes(q, "drop")
            /\ UNCHANGED <<base, view, viewer>>
    /\ UNCHANGED <<SessionRest, state, demand, dem, closes, exportVars, views>>

RunDropped(q) ==
    /\ run[q].at = "drop" /\ db[q].at = "closed"
    /\ RunEnds(q)
    /\ UNCHANGED <<SessionRest, state, base, view, viewer, demand, dem, closes, exportVars, dbVars>>

\* The catch block of execute: the family is closed before the error is shown.  None
\* of the database's errors is an AbortError, a cancelled start's included.
RunThrows(q) ==
    /\ IF IsCurrentQuery(q)
       THEN /\ Close(<<"fail", q>>, state, queryGen)
            /\ RunGoes(q, "fail")
       ELSE /\ RunEnds(q)
            /\ UNCHANGED <<state, base, view, viewer, closes, db>>
    /\ UNCHANGED <<SessionRest, demand, dem, exportVars, views>>

StartFails(q) == run[q].at = "start" /\ RunThrows(q)

RunFetched(q) ==
    /\ run[q].at = "fetch" /\ FetchOk(q)
    /\ run' = IF IsCurrentQuery(q) /\ base = q
              THEN [run EXCEPT ![q].at = "read", ![q].read = Reading(view, db')]
              ELSE [run EXCEPT ![q] = [at |-> "done"]]
    /\ UNCHANGED <<SessionRest, state, base, view, viewer, demand, dem, closes, exportVars, views>>

RunFetchFails(q) == run[q].at = "fetch" /\ RunThrows(q)
RunReadFails(q)  == run[q].at = "read" /\ RunThrows(q)

\* A bug to be caught: the first window is published whoever is current.
SucceedsUnfenced(q) ==
    /\ RunEnds(q)
    /\ state' = QuerySucceeded(state, Paged(q, run[q].read, 0, None, "none"))

\* querySucceeded, of a window read from the view still on display.
Succeeds(q) ==
    /\ RunEnds(q)
    /\ state' = IF IsCurrentQuery(q) /\ base = q /\ view = run[q].read.view
                THEN QuerySucceeded(state, Paged(q, run[q].read, 0, None, "none"))
                ELSE state

RunRead(q) ==
    /\ run[q].at = "read" /\ Readable(run[q].read.view)
    /\ IF IsCurrentQuery(q) /\ base = q /\ NeedsViewer(q, run[q].read)
       THEN RunGoes(q, "viewer") /\ state' = state
       ELSE Succeeds(q)
    /\ UNCHANGED <<SessionRest, base, view, viewer, demand, dem, closes, exportVars, dbVars>>

\* materialize() answers, with the table or without.
RunViewer(q) ==
    /\ run[q].at = "viewer"
    /\ viewer' = IF IsCurrentQuery(q) /\ base = q THEN q ELSE viewer
    /\ Succeeds(q)
    /\ UNCHANGED <<SessionRest, base, view, demand, dem, closes, exportVars, dbVars>>

\* The family is closed and the error is shown, again without asking whether this
\* query is still the current one.
RunFailed(q) ==
    /\ run[q].at = "fail" /\ ~Closing(<<"fail", q>>)
    /\ state' = QueryFailed(state)
    /\ RunEnds(q)
    /\ UNCHANGED <<SessionRest, base, view, viewer, demand, dem, closes, exportVars, dbVars>>

RunStep(q) ==
    \/ RunCleaned(q) \/ RunClosed(q) \/ StartOk(q) \/ StartFails(q) \/ RunDropped(q)
    \/ RunFetched(q) \/ RunFetchFails(q) \/ RunRead(q) \/ RunReadFails(q)
    \/ RunViewer(q) \/ RunFailed(q)

-----------------------------------------------------------------------------
(* Page demands: one at a time, and none while a sort holds the result.      *)

\* A bug to be caught: a sort that holds the result does not refuse page demands.
MayDemandAnyway(d) ==
    /\ ~disposed
    /\ dem[d].at = "no" /\ \A c \in Demands : c < d => dem[c].at # "no"
    /\ state.result # NoResult
    /\ demand = None /\ base # None

MayDemand(d) ==
    /\ ~disposed
    /\ dem[d].at = "no" /\ \A c \in Demands : c < d => dem[c].at # "no"
    /\ state.result # NoResult
    /\ ~SortPending
    /\ demand = None /\ base # None

Demanded(d, kind, where) ==
    /\ demand' = d
    /\ dem' = [dem EXCEPT ![d] =
                 [at |-> where, kind |-> kind, gen |-> state.result.gen, base |-> base,
                  read |-> Reading(view, db), revision |-> state.result.revision,
                  sort |-> state.result.sort, error |-> state.result.error, downloads |-> 0]]

Loading(st) == [st EXCEPT !.result.loading = TRUE, !.result.error = "none"]

\* loadMore: the grid asks at the end of the rows, and not while it is loading.
LoadMore(d) ==
    /\ MayDemand(d)
    /\ ~state.result.complete /\ state.result.error = "none" /\ suspendedBy = None
    /\ ~state.result.loading
    /\ Demanded(d, "more", "fetch")
    /\ state' = Loading(state)
    /\ UNCHANGED <<SessionRest, base, view, viewer, run, closes, exportVars, dbVars>>

RetryPage(d) ==
    /\ MayDemand(d)
    /\ state.result.error = "retry"
    /\ Demanded(d, "retry", "fetch")
    /\ state' = Loading(state)
    /\ UNCHANGED <<SessionRest, base, view, viewer, run, closes, exportVars, dbVars>>

\* loadWindow: another window of the rows stored, which changes nothing until read.
LoadWindow(d) ==
    /\ MayDemand(d)
    /\ state.result.rows > 0
    /\ IsActiveResult(base, state.result.gen)
    /\ Demanded(d, "window", "read")
    /\ UNCHANGED <<SessionRest, state, base, view, viewer, run, closes, exportVars, dbVars>>

DemandActive(d) == IsActiveResult(dem[d].base, dem[d].gen)

\* The demand settles: resultDemand is cleared if it is still this one.
DemandEnds(d) ==
    /\ dem' = [dem EXCEPT ![d] = [at |-> "done"]]
    /\ demand' = IF demand = d THEN None ELSE demand

\* publishWindow begins: what buildResultState captures before it reads.
DemandFetched(d) ==
    /\ dem[d].at = "fetch"
    /\ IF dem[d].kind = "retry" THEN RetryOk(dem[d].base) ELSE FetchOk(dem[d].base)
    /\ IF DemandActive(d)
       THEN /\ dem' = [dem EXCEPT ![d].at = "read", ![d].read = Reading(view, db'),
                                  ![d].revision = state.result.revision,
                                  ![d].sort = state.result.sort,
                                  ![d].error = state.result.error]
            /\ demand' = demand
       ELSE DemandEnds(d)
    /\ UNCHANGED <<SessionRest, state, base, view, viewer, run, closes, exportVars, views>>

DemandFetchFails(d) ==
    /\ dem[d].at = "fetch"
    /\ \E e \in {"retry", "final"} :
         /\ FetchFails(dem[d].base, e)
         /\ state' = IF DemandActive(d) THEN PageFailed(state, e) ELSE state
    /\ DemandEnds(d)
    /\ UNCHANGED <<SessionRest, base, view, viewer, run, closes, exportVars, views>>

\* queryWindowUpdated, under the identity, the view and the order it was read with.
DemandPublishes(d) ==
    /\ DemandEnds(d)
    /\ state' = IF DemandActive(d) /\ view = dem[d].read.view
                THEN WindowUpdated(state, Paged(dem[d].gen, dem[d].read, dem[d].revision,
                                                dem[d].sort, dem[d].error))
                ELSE state

DemandRead(d) ==
    /\ dem[d].at = "read" /\ Readable(dem[d].read.view)
    /\ IF /\ DemandActive(d) /\ view = dem[d].read.view
          /\ state.result.revision = dem[d].revision
       THEN IF NeedsViewer(dem[d].gen, dem[d].read)
            THEN dem' = [dem EXCEPT ![d].at = "viewer"] /\ UNCHANGED <<state, demand>>
            ELSE DemandPublishes(d)
       ELSE DemandEnds(d) /\ state' = state
    /\ UNCHANGED <<SessionRest, base, view, viewer, run, closes, exportVars, dbVars>>

DemandViewer(d) ==
    /\ dem[d].at = "viewer"
    /\ viewer' = IF IsCurrentQuery(dem[d].gen) /\ base = dem[d].base THEN base ELSE viewer
    /\ DemandPublishes(d)
    /\ UNCHANGED <<SessionRest, base, view, run, closes, exportVars, dbVars>>

\* A window that cannot be read ends the family, once the download it may have is
\* cleaned up; the demand itself settles now.
DemandReadFails(d) ==
    /\ dem[d].at = "read"
    /\ demand' = IF demand = d THEN None ELSE demand
    /\ IF DemandActive(d)
       THEN /\ state' = WithoutDownload(PageFailed(state, "final"))
            /\ SupersedeExport
            /\ dem' = [dem EXCEPT ![d].at = "cleanup", ![d].downloads = LastExport]
       ELSE /\ dem' = [dem EXCEPT ![d] = [at |-> "done"]]
            /\ UNCHANGED <<state, exportVars>>
    /\ UNCHANGED <<SessionRest, base, view, viewer, run, closes, dbVars>>

DemandGivesUp(d) ==
    /\ dem[d].at = "cleanup" /\ CleanedUp(dem[d].downloads)
    /\ dem' = [dem EXCEPT ![d] = [at |-> "done"]]
    /\ IF DemandActive(d) THEN Close(<<"demand", d>>, state, queryGen)
                          ELSE UNCHANGED <<state, base, view, viewer, closes, db>>
    /\ UNCHANGED <<SessionRest, demand, run, exportVars, views>>

DemandStep(d) ==
    \/ DemandFetched(d) \/ DemandFetchFails(d) \/ DemandRead(d) \/ DemandViewer(d)
    \/ DemandReadFails(d) \/ DemandGivesUp(d)

Demand(d) == LoadMore(d) \/ RetryPage(d) \/ LoadWindow(d)

\* refreshCounts: the rows a sort or a download has fetched, under the window shown.
RefreshCounts(st, q, revision, d) ==
    IF Shows(st, q) /\ st.result.revision = revision
    THEN WindowUpdated(st, [st.result EXCEPT !.rows = d[q].rows, !.complete = d[q].whole,
                                             !.loading = FALSE])
    ELSE st

=============================================================================
