----------------------------- MODULE ResultState -----------------------------
(***************************************************************************)
(* The part of the session state that shows a query result, and the events    *)
(* of the pure reducer that change it (state.ts).  An event is an operator    *)
(* from a state to a state; one the reducer ignores returns the state it was   *)
(* given.                                                                    *)
(*                                                                         *)
(* A view is <<q, s>>: the rows of query q in the order sort request s gave    *)
(* them, or as the query returned them when s is 0.  The window on screen is    *)
(* known by the view it was read from.                                       *)
(***************************************************************************)
EXTENDS Naturals

None == 0

NoView   == <<0, 0>>
NoResult == [gen |-> None, rows |-> 0, complete |-> FALSE, loading |-> FALSE,
             window |-> NoView, revision |-> 0, sort |-> None, error |-> "none"]
NoSorting  == [id |-> None, phase |-> "none"]
NoDownload == [gen |-> None, phase |-> "none"]

SortPhases     == {"loading", "storing", "cancelling", "failed"}
DownloadPhases == {"picking", "loading", "encoding", "saving", "cancelling",
                   "ready-to-save", "saved", "cancelled", "failed"}

InitialState == [phase |-> "idle", result |-> NoResult, current |-> FALSE,
                 sorting |-> NoSorting, download |-> NoDownload]

-----------------------------------------------------------------------------
(* Reading the state.                                                      *)

\* result?.generation === g.
Shows(st, g) == st.result # NoResult /\ st.result.gen = g

\* isResultSorting.
IsSorting(st) == st.sorting # NoSorting /\ st.sorting.phase # "failed"

\* hasActiveDownload.
ActiveDownload(st) ==
    st.download.phase \in {"picking", "loading", "encoding", "saving", "cancelling"}

\* resultSortInteractionBlocked.
SortBlocked(st) ==
    ~st.current \/ st.phase # "ready" \/ IsSorting(st) \/ ActiveDownload(st)

\* resultSortDisabledReason, of a result whose columns can be ordered.
SortDisabled(st) ==
    st.result.error # "none" \/ (st.result.complete /\ st.result.rows <= 1)

\* isValidPagedUpdate: a window of the same query and order, never of fewer rows.
ValidUpdate(old, new) ==
    /\ new.gen = old.gen
    /\ new.revision = old.revision
    /\ new.rows >= old.rows
    /\ old.complete => new.complete

\* isCurrentSortRequest.
IsSortRequest(st, q, id) ==
    Shows(st, q) /\ st.current /\ st.sorting # NoSorting /\ st.sorting.id = id

-----------------------------------------------------------------------------
(* The events of a query and its pages.                                    *)

Opening(st) == [InitialState EXCEPT !.phase = "opening"]

Ready(st) == [st EXCEPT !.phase = "ready"]

Failed(st) ==
    [st EXCEPT !.phase = "failed", !.result = NoResult, !.sorting = NoSorting,
               !.current = FALSE]

Cancelled(st) ==
    IF st.phase = "querying"
    THEN [st EXCEPT !.phase = "ready", !.sorting = NoSorting, !.current = FALSE]
    ELSE InitialState

QueryStarted(st) ==
    [st EXCEPT !.phase = "querying", !.sorting = NoSorting, !.current = FALSE]

QuerySucceeded(st, r) ==
    [st EXCEPT !.phase = "ready", !.result = [r EXCEPT !.revision = 0, !.sort = None],
               !.sorting = NoSorting, !.current = TRUE]

QueryFailed(st) ==
    [st EXCEPT !.phase = "ready", !.sorting = NoSorting, !.current = FALSE]

WindowUpdated(st, r) ==
    IF st.result # NoResult /\ ValidUpdate(st.result, r) THEN [st EXCEPT !.result = r]
                                                         ELSE st

\* queryPageFailed; e says whether the page can be retried.
PageFailed(st, e) ==
    IF st.result = NoResult THEN st
    ELSE [st EXCEPT !.result.loading = FALSE, !.result.error = e]

\* A bug to be caught: the rows of a closing family go on offering its actions.
UnavailableIgnored(st, q) == st

\* resultUnavailable: the family of query q is closing.
Unavailable(st, q) ==
    IF Shows(st, q) THEN [st EXCEPT !.current = FALSE, !.sorting = NoSorting] ELSE st

-----------------------------------------------------------------------------
(* The events of a sort and of a download.                                 *)

\* Request ids only move forward: a late report never revives an older request.
SortUpdated(st, q, from, sorting) ==
    IF /\ Shows(st, q) /\ st.current
       /\ from = st.result.revision
       /\ sorting.id >= st.sorting.id
    THEN [st EXCEPT !.sorting = sorting]
    ELSE st

SortEnded(st, q, id) ==
    IF IsSortRequest(st, q, id) THEN [st EXCEPT !.sorting = NoSorting] ELSE st

OrderCommitted(st, q, id, from, r) ==
    IF /\ IsSortRequest(st, q, id)
       /\ from = st.result.revision /\ r.revision = from + 1
       /\ r.gen = st.result.gen
       /\ r.complete /\ r.rows = st.result.rows
    THEN [st EXCEPT !.result = [r EXCEPT !.error = "none"], !.sorting = NoSorting]
    ELSE st

\* A download event is of the download on display, or of none.
DownloadUpdated(st, g, d) ==
    IF (d # NoDownload /\ d.gen # g) \/ (st.download # NoDownload /\ st.download.gen # g)
    THEN st ELSE [st EXCEPT !.download = d]

=============================================================================
