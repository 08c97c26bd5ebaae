------------------------------- MODULE Results -------------------------------
(***************************************************************************)
(* The result side of SessionController (controller.ts): the calls that start *)
(* and withdraw result families, composed with the session, the sorter and     *)
(* the exporter.  Intake is reduced to what the family sees of it: planning,   *)
(* which leaves the state as it was, then opening, then ready or failed.       *)
(***************************************************************************)
EXTENDS ResultExporter

CONSTANTS
    Calls,       \* which of open, cancel and dispose the user may call
    MaxRequests  \* bound: demands, sorts and downloads together

\* Of the constants; assumed by the module that instantiates this one.
CallsAssumption == Calls \subseteq {"open", "cancel", "dispose"} /\ MaxRequests \in Nat

VARIABLES
    stop,    \* per generation not of a query, the close its call awaits
    intake   \* the open under way

vars == <<familyVars, stop, intake>>

Init ==
    /\ FamilyInit
    /\ stop = [q \in Queries |-> [at |-> "no"]]
    /\ intake = [at |-> "no"]

CallsRest == <<base, view, viewer, demand, suspendedBy, dem, closes, dbVars>>

\* runQuery: what is in flight is invalidated before the generation moves.
RunQuery ==
    /\ ~disposed /\ queryGen < MaxQueries
    /\ state.phase \in {"ready", "querying"}
    /\ queryGen' = queryGen + 1
    /\ SupersedeSort /\ SupersedeExport
    /\ state' = QueryStarted(WithoutDownload(state))
    /\ run' = [run EXCEPT ![queryGen'] =
         [at |-> "cleanup", prior |-> state.result, sort |-> activeSort,
          downloads |-> LastExport, read |-> Reading(Base(queryGen'), db)]]
    /\ UNCHANGED <<storeGen, disposed, CallsRest, stop, intake>>

\* The common part of openBatch, cancel and dispose: both generations move, sort and
\* download are superseded, and the family is closed once they are cleaned up.
Withdraw ==
    /\ ~disposed /\ queryGen < MaxQueries
    /\ queryGen' = queryGen + 1 /\ storeGen' = storeGen + 1
    /\ SupersedeSort /\ SupersedeExport
    /\ stop' = [stop EXCEPT ![queryGen'] =
         [at |-> "cleanup", sort |-> activeSort, downloads |-> LastExport]]

OpenFiles ==
    /\ "open" \in Calls
    /\ Withdraw
    /\ state' = WithoutDownload(state)
    /\ intake' = [at |-> "planning", gen |-> storeGen', q |-> queryGen']
    /\ UNCHANGED <<disposed, run, CallsRest>>

\* cancel(), offered while a query runs or a file opens.
Cancel ==
    LET stopped == state.result # NoResult /\ ~state.result.complete
        shown   == WithoutDownload(state) IN
    /\ "cancel" \in Calls
    /\ state.phase \in {"querying", "opening"}
    /\ Withdraw
    /\ state' = Cancelled(IF stopped THEN PageFailed(shown, "final") ELSE shown)
    /\ UNCHANGED <<disposed, run, intake, CallsRest>>

\* dispose(): nothing is published any more.
Dispose ==
    /\ "dispose" \in Calls
    /\ Withdraw
    /\ disposed' = TRUE
    /\ state' = InitialState
    /\ UNCHANGED <<run, intake, CallsRest>>

StopCloses(q) ==
    /\ stop[q].at = "cleanup" /\ SortSettled(stop[q].sort) /\ CleanedUp(stop[q].downloads)
    /\ Close(<<"stop", q>>, state, queryGen)
    /\ stop' = [stop EXCEPT ![q].at = "closing"]
    /\ UNCHANGED <<storeGen, disposed, queryGen, demand, suspendedBy, run, dem,
                   sorterVars, exportVars, views, intake>>

StopEnds(q) ==
    /\ stop[q].at = "closing" /\ ~Closing(<<"stop", q>>)
    /\ stop' = [stop EXCEPT ![q].at = "done"]
    /\ UNCHANGED <<familyVars, intake>>

\* planBatch answers: the files open, or none is recognized.
Planned ==
    /\ intake.at = "planning"
    /\ IF ~disposed /\ intake.gen = storeGen
       THEN \/ state' = Opening(state) /\ intake' = [intake EXCEPT !.at = "opening"]
            \/ state' = Failed(state) /\ intake' = [at |-> "no"]
       ELSE state' = state /\ intake' = [at |-> "no"]
    /\ UNCHANGED <<storeGen, disposed, sessionVars, sorterVars, exportVars, dbVars, stop>>

\* The rest of the open begins once the previous family is closed.
Opened ==
    /\ intake.at = "opening" /\ stop[intake.q].at = "done"
    /\ intake' = [at |-> "no"]
    /\ IF ~disposed /\ intake.gen = storeGen
       THEN state' \in {Ready(state), Failed(state)}
       ELSE state' = state
    /\ UNCHANGED <<storeGen, disposed, sessionVars, sorterVars, exportVars, dbVars, stop>>

-----------------------------------------------------------------------------

Answers ==
    \/ \E q \in Queries : RunStep(q) /\ UNCHANGED <<stop, intake>>
    \/ \E d \in Demands : DemandStep(d) /\ UNCHANGED <<stop, intake>>
    \/ \E s \in Sorts : SortStep(s) /\ UNCHANGED <<stop, intake>>
    \/ \E e \in Exports : ExportStep(e) /\ UNCHANGED <<stop, intake>>
    \/ \E c \in closes : CloseStep(c) /\ UNCHANGED <<stop, intake>>
    \/ \E q \in Queries : SessionCloses(q) /\ UNCHANGED <<stop, intake>>
    \/ \E q \in Queries : StopCloses(q) \/ StopEnds(q)
    \/ Planned
    \/ Opened

\* The turns that await nothing but one another run before the next call comes in.
ContinuationsRun ==
    /\ \A c \in closes : c.at # "nothing"
    /\ \A q \in Queries :
         /\ run[q].at = "closing" => Closing(<<"run", q>>)
         /\ run[q].at = "fail" => Closing(<<"fail", q>>)
         /\ stop[q].at = "closing" => Closing(<<"stop", q>>)
         /\ run[q].at = "cleanup" => ~(SortSettled(run[q].sort) /\ CleanedUp(run[q].downloads))
         /\ stop[q].at = "cleanup" => ~(SortSettled(stop[q].sort) /\ CleanedUp(stop[q].downloads))
    /\ \A s \in Sorts : srt[s].at = "demand" => ~DemandSettled(srt[s].demand)
    /\ \A e \in Exports : exp[e].at = "demand" => ~DemandSettled(exp[e].demand)

Requests ==
    Cardinality({d \in Demands : dem[d].at # "no"}) + Cardinality({s \in Sorts : srt[s].at # "no"})
      + Cardinality({e \in Exports : exp[e].at # "no"})

UserCalls ==
    /\ ContinuationsRun
    /\ \/ RunQuery \/ OpenFiles \/ Cancel \/ Dispose
       \/ /\ \/ /\ Requests < MaxRequests
                /\ \/ \E d \in Demands : Demand(d)
                   \/ \E s \in Sorts : Sort(s)
                   \/ \E e \in Exports : Download(e)
             \/ \E e \in Exports : ExportProgresses(e)
             \/ CancelSort \/ DownloadRefused \/ CancelDownload \/ SaveDownload \/ DismissDownload
          /\ UNCHANGED <<stop, intake>>

Next == Answers \/ UserCalls

\* Every promise awaited settles: the database, the workers and the browser answer.
Spec == Init /\ [][Next]_vars /\ WF_vars(Answers)

-----------------------------------------------------------------------------
(* Properties.                                                             *)

TypeOK ==
    /\ state.phase \in {"idle", "opening", "ready", "querying", "failed"}
    /\ state.sorting = NoSorting \/ state.sorting.phase \in SortPhases
    /\ state.download = NoDownload \/ state.download.phase \in DownloadPhases
    /\ base \in {None} \cup Queries /\ demand \in {None} \cup Demands
    /\ activeSort \in {None} \cup Sorts
    /\ {exportGen, activeExport, retained, suspendedBy} \subseteq {None} \cup Exports

\* While a result is current, the rows on screen are those of the query and order the
\* state names and of the view further reads go to: no window read of an older order
\* is ever shown under a newer one (result-session.ts:349-363).
WindowMatchesOrder ==
    state.current =>
      /\ state.result.window = <<state.result.gen, state.result.sort>>
      /\ base = state.result.gen => view = state.result.window

\* A current result has its family behind it, sorted view included, and a file
\* offered for saving exists (result-session.ts:229-233, result-exporter.ts:368-375).
OffersAreBacked ==
    /\ TypeOK
    /\ state.current /\ state.result.gen = queryGen =>
         /\ base = state.result.gen
         /\ db[base].at \in {"open", "closing"}
         /\ view # Base(base) => view \in views
    /\ state.download.phase = "ready-to-save" =>
         retained = state.download.gen /\ exp[retained].sink = "committed"

\* The cursor of the current query has one reader: a demand, a sort and a download
\* never fetch its pages at the same time (result-sorter.ts:204-206, result-exporter.ts:245-247).
OneFetcher ==
    \A q \in Queries : q = queryGen /\ db[q].at = "open" =>
      Cardinality({d \in Demands : dem[d].at = "fetch" /\ dem[d].base = q})
        + Cardinality({s \in Sorts : srt[s].at = "drain" /\ srt[s].base = q})
        + Cardinality({e \in Exports : exp[e].at = "drain" /\ exp[e].base = q})
        + (IF run[q].at = "fetch" THEN 1 ELSE 0) <= 1

\* Once every call has settled nothing is held that the session has moved past: no
\* sorted view but the one shown, no session but the current one, no open or
\* forgotten file, and user paging is not suspended.
NothingLeaks ==
    ~ENABLED Answers =>
      /\ views \subseteq {view}
      /\ \A q \in Queries : db[q].at \in {"open", "closing"} => q = base
      /\ \A e \in Exports : exp[e].at # "no" =>
           exp[e].sink \in {"none", "disposed"} \/ e = retained
      /\ suspendedBy = None /\ activeSort = None

\* An answer of an older query, page, sort or download never replaces the rows of
\* a newer one: what is shown changes only under the current query generation, but
\* for the note that loading stopped (result-session.ts:51-52).
LateAnswersChangeNothing ==
    [][ \/ state'.result = NoResult
        \/ state'.result.gen = queryGen'
        \/ [state'.result EXCEPT !.error = "none", !.loading = FALSE]
             = [state.result EXCEPT !.error = "none", !.loading = FALSE] ]_vars

\* A query, a sort or a download is under way, and its flag blocks the controls
\* (result-sort.ts:86-90).
Busy == state.phase = "querying" \/ IsSorting(state) \/ ActiveDownload(state)

\* What the fence of result-session.ts:51-52 promises: a query whose generation has
\* passed changes neither the state nor the family that replaced it.
SupersededRunsAreSilent ==
    [][ \A q \in Queries : run'[q].at # run[q].at /\ q < queryGen =>
          state' = state /\ base' = base ]_vars

=============================================================================
