---------------------------- MODULE ResultExporter ---------------------------
(***************************************************************************)
(* Downloading the result on display (result-exporter.ts): performDownload()  *)
(* of each download, and the calls that cancel, save and dismiss it.  Reading, *)
(* encoding and writing the pages of the view is one step; CsvExport models    *)
(* it.  The sink is the destination's state (destination.ts).                 *)
(***************************************************************************)
EXTENDS ResultSorter

ExporterRest == <<storeGen, disposed, queryGen, base, view, viewer, demand, run, dem, closes,
                 sorterVars>>

\* The generation of a download refused when it was asked for.
Refused == MaxExports + 1

\* isCurrent(operation).
IsCurrentExport(e) ==
    /\ ~disposed
    /\ exportGen = e /\ activeExport = e
    /\ base = exp[e].base /\ view = exp[e].view /\ queryGen = exp[e].gen
    /\ Shows(state, exp[e].gen) /\ state.result.revision = exp[e].revision

\* assertCurrent passes.
MayGoOn(e) == ~exp[e].aborted /\ IsCurrentExport(e)

\* updateDownload.
Report(st, e, phase) ==
    IF exportGen = e THEN DownloadUpdated(st, e, [gen |-> e, phase |-> phase]) ELSE st

Exportable ==
    /\ state.result # NoResult /\ base # None /\ view # NoView
    /\ state.result.gen = queryGen
    /\ state.current /\ ~SortPending
    /\ state.result.error = "none"

\* download(): the one before is detached, and user paging suspended.
Download(e) ==
    /\ ~disposed
    /\ exp[e].at = "no" /\ \A x \in Exports : x < e => exp[x].at # "no"
    /\ Exportable
    /\ exportGen' = e /\ activeExport' = e /\ retained' = None
    /\ exp' = [x \in Exports |->
         IF x = e THEN [at |-> "cleanup", gen |-> queryGen, base |-> base, view |-> view,
                        revision |-> state.result.revision, aborted |-> FALSE,
                        sink |-> "none", demand |-> None, error |-> "none"]
         ELSE IF x = activeExport THEN [exp[x] EXCEPT !.aborted = TRUE, !.sink = AbortSink(@)]
         ELSE IF x = retained THEN [exp[x] EXCEPT !.sink = "disposed"] ELSE exp[x]]
    /\ suspendedBy' = e
    /\ state' = DownloadUpdated(WithoutDownload(state), e, [gen |-> e, phase |-> "picking"])
    /\ UNCHANGED <<ExporterRest, dbVars>>

\* publishValidationFailure.
DownloadRefused ==
    /\ ~disposed /\ ~Exportable
    /\ state.result # NoResult
    /\ exportGen' = None /\ Detach
    /\ state' = DownloadUpdated(WithoutDownload(state), Refused,
                                [gen |-> Refused, phase |-> "failed"])
    /\ UNCHANGED <<ExporterRest, suspendedBy, dbVars>>

ExportGoes(e, where) == exp' = [exp EXCEPT ![e].at = where]

\* The catch block aborts and disposes of the sink before it reports.
ExportThrows(e, error) ==
    exp' = [exp EXCEPT ![e].at = "unwind", ![e].error = error, ![e].sink = AbortSink(@)]

\* The earlier downloads are cleaned up and the destination is there.
ExportPicked(e) ==
    /\ exp[e].at = "cleanup" /\ CleanedUp(e - 1)
    /\ IF MayGoOn(e)
       THEN /\ exp' = [exp EXCEPT ![e].at = "demand", ![e].demand = demand, ![e].sink = "open"]
            /\ suspendedBy' = e
            /\ state' = Report(state, e, "loading")
       ELSE /\ exp' = [exp EXCEPT ![e].at = "unwind", ![e].error = "abort",
                                  ![e].sink = "aborted"]
            /\ UNCHANGED <<suspendedBy, state>>
    /\ UNCHANGED <<ExporterRest, exportGen, activeExport, retained, dbVars>>

\* The picker is dismissed (an AbortError), or the destination cannot be created.
ExportPickFails(e) ==
    /\ exp[e].at = "cleanup" /\ CleanedUp(e - 1)
    /\ \E error \in {"abort", "error"} : ExportThrows(e, error)
    /\ UNCHANGED <<ExporterRest, suspendedBy, state, exportGen, activeExport, retained, dbVars>>

\* All rows are there: the counts move, and encoding begins.
Encodes(e, st, d) ==
    /\ ExportGoes(e, "encode")
    /\ state' = Report(RefreshCounts(st, exp[e].gen, exp[e].revision, d), e, "encoding")

ExportJoined(e) ==
    /\ exp[e].at = "demand" /\ DemandSettled(exp[e].demand)
    /\ IF ~MayGoOn(e) THEN ExportThrows(e, "abort") /\ state' = state
       ELSE IF state.result.error # "none" THEN ExportThrows(e, "error") /\ state' = state
       ELSE IF exp[e].view = Base(exp[e].base) /\ ~db[exp[e].base].whole
       THEN ExportGoes(e, "drain") /\ state' = state
       ELSE Encodes(e, state, db)
    /\ UNCHANGED <<ExporterRest, suspendedBy, exportGen, activeExport, retained, dbVars>>

ExportDrained(e) ==
    /\ exp[e].at = "drain" /\ FetchOk(exp[e].base)
    /\ IF ~MayGoOn(e) THEN ExportThrows(e, "abort") /\ state' = state
       ELSE IF db'[exp[e].base].whole THEN Encodes(e, state, db')
       ELSE state' = RefreshCounts(state, exp[e].gen, exp[e].revision, db') /\ exp' = exp
    /\ UNCHANGED <<ExporterRest, suspendedBy, exportGen, activeExport, retained, views>>

ExportDrainFails(e) ==
    /\ exp[e].at = "drain"
    /\ \E kind \in {"retry", "final"} :
         /\ FetchFails(exp[e].base, kind)
         /\ state' = IF IsCurrentExport(e) THEN PageFailed(state, kind) ELSE state
    /\ ExportThrows(e, "error")
    /\ UNCHANGED <<ExporterRest, suspendedBy, exportGen, activeExport, retained, views>>

\* A chunk has been written; the report does not ask whether a cancel has come.
ExportProgresses(e) ==
    /\ exp[e].at = "encode"
    /\ state' = Report(state, e, "encoding")
    /\ UNCHANGED <<ExporterRest, suspendedBy, exportVars, dbVars>>

\* The last chunk is written: the check and the commit share one turn.
ExportEncoded(e) ==
    /\ exp[e].at = "encode" /\ Readable(exp[e].view)
    /\ IF MayGoOn(e)
       THEN exp' = [exp EXCEPT ![e].at = "commit", ![e].sink = "committing"]
       ELSE ExportThrows(e, "abort")
    /\ state' = Report(state, e, "saving")
    /\ UNCHANGED <<ExporterRest, suspendedBy, exportGen, activeExport, retained, dbVars>>

ExportEncodeFails(e) ==
    /\ exp[e].at = "encode"
    /\ ExportThrows(e, "error")
    /\ UNCHANGED <<ExporterRest, suspendedBy, state, exportGen, activeExport, retained, dbVars>>

\* The finally block, after st has been reported.
ExportEnds(e, st) ==
    /\ state' = st
    /\ suspendedBy' = IF suspendedBy = e THEN None ELSE suspendedBy
    /\ activeExport' = IF activeExport = e THEN None ELSE activeExport

\* commit() resolves: a file to save later is retained, one saved is let go of.
ExportCommitted(e) ==
    /\ exp[e].at = "commit" /\ exp[e].sink = "committing"
    /\ IF MayGoOn(e)
       THEN \/ /\ exp' = [exp EXCEPT ![e] = [at |-> "done", sink |-> "committed"]]
               /\ retained' = e
               /\ ExportEnds(e, Report(state, e, "ready-to-save"))
            \/ /\ exp' = [exp EXCEPT ![e].at = "finish", ![e].sink = "committed"]
               /\ UNCHANGED <<state, suspendedBy, activeExport, retained>>
       ELSE /\ exp' = [exp EXCEPT ![e].at = "unwind", ![e].error = "abort",
                                  ![e].sink = "committed"]
            /\ UNCHANGED <<state, suspendedBy, activeExport, retained>>
    /\ UNCHANGED <<ExporterRest, exportGen, dbVars>>

\* It rejects, as it does when the sink was aborted meanwhile.
ExportCommitFails(e) ==
    /\ exp[e].at = "commit"
    /\ ExportThrows(e, IF exp[e].sink = "aborted" THEN "abort" ELSE "error")
    /\ UNCHANGED <<ExporterRest, suspendedBy, state, exportGen, activeExport, retained, dbVars>>

ExportFinished(e) ==
    /\ exp[e].at = "finish"
    /\ exp' = [exp EXCEPT ![e] = [at |-> "done", sink |-> "disposed"]]
    /\ ExportEnds(e, Report(state, e, "saved"))
    /\ UNCHANGED <<ExporterRest, exportGen, retained, dbVars>>

ExportFinishFails(e) ==
    /\ exp[e].at = "finish"
    /\ ExportThrows(e, "error")
    /\ UNCHANGED <<ExporterRest, suspendedBy, state, exportGen, activeExport, retained, dbVars>>

ExportUnwound(e) ==
    /\ exp[e].at = "unwind"
    /\ exp' = [exp EXCEPT ![e] = [at |-> "done", sink |-> IF exp[e].sink = "none" THEN "none" ELSE "disposed"]]
    /\ ExportEnds(e, IF activeExport = e /\ exportGen = e
                     THEN Report(state, e, IF exp[e].aborted \/ exp[e].error = "abort"
                                           THEN "cancelled" ELSE "failed")
                     ELSE state)
    /\ UNCHANGED <<ExporterRest, exportGen, retained, dbVars>>

ExportStep(e) ==
    \/ ExportPicked(e) \/ ExportPickFails(e) \/ ExportJoined(e)
    \/ ExportDrained(e) \/ ExportDrainFails(e)
    \/ ExportEncoded(e) \/ ExportEncodeFails(e)
    \/ ExportCommitted(e) \/ ExportCommitFails(e)
    \/ ExportFinished(e) \/ ExportFinishFails(e) \/ ExportUnwound(e)

\* cancel().
CancelDownload ==
    /\ ~disposed
    /\ activeExport # None /\ ~exp[activeExport].aborted
    /\ exp' = [exp EXCEPT ![activeExport].aborted = TRUE, ![activeExport].sink = AbortSink(@)]
    /\ state' = Report(state, activeExport, "cancelling")
    /\ UNCHANGED <<ExporterRest, suspendedBy, exportGen, activeExport, retained, dbVars>>

\* save() of the file retained; the anchor click may throw.
SaveDownload ==
    /\ ~disposed
    /\ retained # None /\ state.download.gen = retained
    /\ \E phase \in {"saved", "failed"} :
         state' = DownloadUpdated(state, retained, [gen |-> retained, phase |-> phase])
    /\ UNCHANGED <<ExporterRest, suspendedBy, exportVars, dbVars>>

DismissDownload ==
    /\ ~disposed
    /\ state.download # NoDownload
    /\ SupersedeExport
    /\ state' = WithoutDownload(state)
    /\ UNCHANGED <<ExporterRest, suspendedBy, dbVars>>

=============================================================================
