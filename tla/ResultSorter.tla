----------------------------- MODULE ResultSorter ----------------------------
(***************************************************************************)
(* Reordering the current result and restoring its order (result-sorter.ts).  *)
(* A request is known by its id; every one of kind "order" asks for an order   *)
(* not on display.                                                           *)
(***************************************************************************)
EXTENDS ResultSession

SorterRest == <<storeGen, disposed, queryGen, base, viewer, demand, suspendedBy, run, dem, closes>>

\* isCurrent(token).
IsCurrentSort(s) ==
    /\ ~disposed
    /\ activeSort = s /\ ~srt[s].aborted
    /\ storeGen = srt[s].session /\ queryGen = srt[s].q
    /\ base = srt[s].base
    /\ Shows(state, srt[s].q)

Progress(st, s, phase) ==
    SortUpdated(st, srt[s].q, srt[s].from, [id |-> s, phase |-> phase])

SortGoes(s, where) == srt' = [srt EXCEPT ![s].at = where]

\* sort(): published in the turn of the call, which goes on to release the download.
Sort(s) ==
    /\ ~disposed
    /\ srt[s].at = "no" /\ \A r \in Sorts : r < s => srt[r].at # "no"
    /\ state.result # NoResult /\ ~SortBlocked(state)
    /\ base # None /\ view # NoView
    /\ \E kind \in {"order", "restore"} :
         /\ IF kind = "order" THEN ~SortDisabled(state) ELSE state.result.sort # None
         /\ srt' = [srt EXCEPT ![s] =
              [at |-> "cleanup", kind |-> kind, q |-> queryGen, session |-> storeGen,
               from |-> state.result.revision, base |-> base, aborted |-> FALSE,
               view |-> NoView, read |-> Reading(view, db), demand |-> None,
               downloads |-> LastExport, error |-> "none"]]
         /\ state' = WithoutDownload(
              SortUpdated(state, queryGen, state.result.revision,
                          [id |-> s, phase |-> IF kind = "order" THEN "loading" ELSE "storing"]))
    /\ activeSort' = s
    /\ SupersedeExport
    /\ UNCHANGED <<SorterRest, view, dbVars>>

\* The catch block: the candidate is released before the outcome is reported.
SortThrows(s, error) ==
    srt' = [srt EXCEPT ![s].at = "unwind", ![s].error = error]

SortCleaned(s) ==
    /\ srt[s].at = "cleanup" /\ CleanedUp(srt[s].downloads)
    /\ IF IsCurrentSort(s)
       THEN srt' = [srt EXCEPT ![s].at = "demand", ![s].demand = demand]
       ELSE SortThrows(s, "abort")
    /\ UNCHANGED <<SorterRest, state, view, activeSort, exportVars, dbVars>>

\* The page demand in flight has settled: what is missing is loaded, then sorted.
SortJoined(s) ==
    /\ srt[s].at = "demand" /\ DemandSettled(srt[s].demand)
    /\ IF ~IsCurrentSort(s) THEN SortThrows(s, "abort")
       ELSE IF state.result.error # "none" THEN SortThrows(s, "error")
       ELSE IF srt[s].kind = "restore"
       THEN srt' = [srt EXCEPT ![s].at = "read", ![s].view = Base(base), ![s].read = Reading(Base(base), db)]
       ELSE SortGoes(s, IF db[base].whole THEN "create" ELSE "drain")
    /\ UNCHANGED <<SorterRest, state, view, activeSort, exportVars, dbVars>>

SortDrained(s) ==
    /\ srt[s].at = "drain" /\ FetchOk(srt[s].base)
    /\ IF IsCurrentSort(s)
       THEN /\ state' = Progress(RefreshCounts(state, srt[s].q, state.result.revision, db'),
                                 s, "loading")
            /\ SortGoes(s, IF db'[srt[s].base].whole THEN "create" ELSE "drain")
       ELSE state' = state /\ SortThrows(s, "abort")
    /\ UNCHANGED <<SorterRest, view, activeSort, exportVars, views>>

SortDrainFails(s) ==
    /\ srt[s].at = "drain"
    /\ \E e \in {"retry", "final"} :
         /\ FetchFails(srt[s].base, e)
         /\ state' = IF IsCurrentSort(s) THEN PageFailed(state, e) ELSE state
    /\ SortThrows(s, "error")
    /\ UNCHANGED <<SorterRest, view, activeSort, exportVars, views>>

\* A bug to be caught: the first window of the new order is read from the view still on
\* display.
SortCreatedReadsShown(s) ==
    /\ srt[s].at = "create" /\ ~srt[s].aborted
    /\ db[srt[s].base].at = "open"
    /\ views' = views \cup {<<srt[s].base, s>>}
    /\ srt' = [srt EXCEPT ![s].view = <<srt[s].base, s>>, ![s].at = "read",
                          ![s].read = Reading(view, db)]
    /\ UNCHANGED <<SorterRest, state, view, activeSort, exportVars, db>>

\* createSortedView resolves, never once its signal has aborted.
SortCreated(s) ==
    LET sorted == <<srt[s].base, s>> IN
    /\ srt[s].at = "create" /\ ~srt[s].aborted
    /\ db[srt[s].base].at = "open"
    /\ views' = views \cup {sorted}
    /\ srt' = [srt EXCEPT ![s].view = sorted,
                          ![s].at = IF IsCurrentSort(s) THEN "read" ELSE "unwind",
                          ![s].error = IF IsCurrentSort(s) THEN "none" ELSE "abort",
                          ![s].read = Reading(sorted, db)]
    /\ UNCHANGED <<SorterRest, state, view, activeSort, exportVars, db>>

SortCreateFails(s) ==
    /\ srt[s].at = "create"
    /\ SortThrows(s, IF srt[s].aborted THEN "abort" ELSE "error")
    /\ UNCHANGED <<SorterRest, state, view, activeSort, exportVars, dbVars>>

\* The commit: the view is adopted and the order published in one turn.
Commits(s) ==
    /\ view' = srt[s].view
    /\ activeSort' = None
    /\ state' = OrderCommitted(state, srt[s].q, s, srt[s].from,
                  Paged(srt[s].q, srt[s].read, srt[s].from + 1,
                        IF srt[s].kind = "order" THEN s ELSE None, "none"))
    /\ srt' = [srt EXCEPT ![s].at = "release", ![s].view = view]

SortRead(s) ==
    /\ srt[s].at = "read" /\ Readable(srt[s].view)
    /\ IF ~IsCurrentSort(s)
       THEN SortThrows(s, "abort") /\ UNCHANGED <<state, view, activeSort>>
       ELSE IF ~(srt[s].read.whole /\ srt[s].read.rows = state.result.rows)
       THEN SortThrows(s, "error") /\ UNCHANGED <<state, view, activeSort>>
       ELSE Commits(s)
    /\ UNCHANGED <<SorterRest, exportVars, dbVars>>

SortReadFails(s) ==
    /\ srt[s].at = "read"
    /\ SortThrows(s, "error")
    /\ UNCHANGED <<SorterRest, state, view, activeSort, exportVars, dbVars>>

\* releaseView: a sorted view the display has left; never the base.
SortReleased(s) ==
    /\ srt[s].at = "release"
    /\ views' = views \ {srt[s].view}
    /\ srt' = [srt EXCEPT ![s] = [at |-> "done"]]
    /\ UNCHANGED <<SorterRest, state, view, activeSort, exportVars, db>>

\* reportOutcome: a cancellation is not a failure.
Outcome(s) ==
    IF Shows(state, srt[s].q) /\ storeGen = srt[s].session /\ ~disposed
    THEN IF srt[s].error = "abort" THEN SortEnded(state, srt[s].q, s)
                                   ELSE Progress(state, s, "failed")
    ELSE state

\* A bug to be caught: the sorted view of a sort that was superseded is left behind.
SortUnwoundLeaks(s) ==
    /\ srt[s].at = "unwind"
    /\ activeSort' = IF activeSort = s THEN None ELSE activeSort
    /\ state' = Outcome(s)
    /\ srt' = [srt EXCEPT ![s] = [at |-> "done"]]
    /\ UNCHANGED <<SorterRest, view, exportVars, dbVars>>

SortUnwound(s) ==
    /\ srt[s].at = "unwind"
    /\ views' = views \ {srt[s].view}
    /\ activeSort' = IF activeSort = s THEN None ELSE activeSort
    /\ state' = Outcome(s)
    /\ srt' = [srt EXCEPT ![s] = [at |-> "done"]]
    /\ UNCHANGED <<SorterRest, view, exportVars, db>>

SortStep(s) ==
    \/ SortCleaned(s) \/ SortJoined(s) \/ SortDrained(s) \/ SortDrainFails(s)
    \/ SortCreated(s) \/ SortCreateFails(s) \/ SortRead(s) \/ SortReadFails(s)
    \/ SortReleased(s) \/ SortUnwound(s)

\* cancel(): the result the sort was derived from stays.
CancelSort ==
    /\ ~disposed
    /\ SortPending /\ ~srt[activeSort].aborted
    /\ srt' = [srt EXCEPT ![activeSort].aborted = TRUE]
    /\ state' = Progress(state, activeSort, "cancelling")
    /\ UNCHANGED <<SorterRest, view, activeSort, exportVars, dbVars>>

=============================================================================
