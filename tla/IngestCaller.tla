---------------------------- MODULE IngestCaller ----------------------------
(***************************************************************************)
(* An ingest session driven one call at a time, in the order                 *)
(* IntakeOrchestrator.completeBatchOpen makes its calls: begin a file, append *)
(* its batches, discard it if it fails, append _files, finalize, and abort on *)
(* any other failure.                                                      *)
(*                                                                         *)
(* These are the ingests in which no onBatch is chained behind one that fails:  *)
(* otherwise appends of the failed file overlap with its discard and with the   *)
(* beginning of the next file.  What such late rows do to chunks, counts and    *)
(* tables is stated in Intake, where calls overlap as they do in the code.      *)
(***************************************************************************)
EXTENDS IngestSession

VARIABLES
    caller,          \* what the last call's outcome obliges it to
    fileNo,          \* the last file begun
    parsed,          \* whether a file has been taken in whole
    rowNo,           \* batches appended so far
    accepted         \* rows appended with success and not discarded

callerVars == <<caller, fileNo, parsed, rowNo, accepted>>
vars == <<ingestVars, callerVars>>

Init ==
    /\ IngestInit
    /\ caller = "idle" /\ fileNo = 0 /\ parsed = FALSE /\ rowNo = 0 /\ accepted = {}

Quiet == call = NoCall /\ appends = {}

OfFile(f) == {r \in accepted : r.file = f}

Opens ==
    /\ caller = "idle" /\ Quiet /\ generation < MaxGenerations
    /\ \E t \in Tiers : BeginIngest(generation + 1, t)
    /\ caller' = "between" /\ fileNo' = 0 /\ parsed' = FALSE
    /\ rowNo' = 0 /\ accepted' = {}

BeginsFile ==
    /\ caller \in {"between", "inFile"} /\ Quiet /\ fileNo < MaxFiles
    /\ CallBeginFile(fileNo + 1)
    /\ fileNo' = fileNo + 1
    /\ parsed' = (parsed \/ caller = "inFile")
    /\ UNCHANGED <<caller, rowNo, accepted>>

FileBegun ==
    /\ ReturnBeginFile
    /\ caller' = IF call.at = "ok" THEN "inFile" ELSE "doomed"
    /\ UNCHANGED <<fileNo, parsed, rowNo, accepted>>

Appends ==
    /\ caller = "inFile" /\ Quiet /\ rowNo < MaxRows
    /\ \E t \in Tables \ {FilesTable} : CallAppend(t, [file |-> fileNo, n |-> rowNo + 1])
    /\ rowNo' = rowNo + 1
    /\ UNCHANGED <<caller, fileNo, parsed, accepted>>

\* The provenance table goes in last, while the last good file is still current.
AppendsFiles ==
    /\ caller = "inFile" \/ (caller = "between" /\ parsed)
    /\ Quiet
    /\ CallAppend(FilesTable, [file |-> None, n |-> rowNo + 1])
    /\ caller' = "filing"
    /\ UNCHANGED <<fileNo, parsed, rowNo, accepted>>

Appended ==
    /\ \E a \in appends :
          /\ ReturnAppend(a)
          /\ accepted' = IF a.at = "ok" THEN accepted \cup {a.row} ELSE accepted
          /\ caller' = IF a.at = "ok"
                       THEN IF caller = "filing" THEN "filed" ELSE caller
                       ELSE IF a.at = "quota" \/ caller = "filing" THEN "doomed"
                                                                  ELSE "fileFailed"
    /\ UNCHANGED <<fileNo, parsed, rowNo>>

Discards ==
    /\ caller \in {"inFile", "fileFailed"} /\ Quiet
    /\ CallDiscard
    /\ caller' = "fileFailed"
    /\ UNCHANGED <<fileNo, parsed, rowNo, accepted>>

Discarded ==
    /\ ReturnDiscard
    /\ caller' = IF call.at = "error" THEN "doomed" ELSE "between"
    /\ accepted' = IF call.at = "error" THEN accepted ELSE accepted \ OfFile(fileNo)
    /\ UNCHANGED <<fileNo, parsed, rowNo>>

Finalizes ==
    /\ caller = "filed" /\ Quiet
    /\ CallFinalize
    /\ UNCHANGED callerVars

Finalized ==
    /\ ReturnFinalize
    /\ caller' = IF call.at = "swapping" THEN "idle" ELSE "doomed"
    /\ UNCHANGED <<fileNo, parsed, rowNo, accepted>>

Aborts ==
    /\ caller \in {"between", "inFile", "doomed", "filed"} /\ Quiet
    /\ CallAbort
    /\ UNCHANGED callerVars

Aborted ==
    /\ ReturnAbort
    /\ caller' = "idle"
    /\ UNCHANGED <<fileNo, parsed, rowNo, accepted>>

CallerStep ==
    \/ BeginsFile \/ Appends \/ AppendsFiles \/ Discards \/ Finalizes \/ Aborts

Return == FileBegun \/ Appended \/ Discarded \/ Finalized \/ Aborted

DatabaseStep == (RunOperation \/ SessionStep) /\ UNCHANGED callerVars

Teardown == (Dispose \/ DisposeFinishes) /\ UNCHANGED callerVars

\* The caller has no ingest open and will open no other.
Rest ==
    /\ caller = "idle" /\ Quiet
    /\ generation = MaxGenerations \/ dispose # "no"
    /\ UNCHANGED vars

Next ==
    \/ Opens \/ CallerStep \/ Return
    \/ DatabaseStep
    \/ Teardown
    \/ Rest

\* The queue runs, a promise that has settled is acted upon, and the caller, once
\* it has opened an ingest, carries it through to finalize or abort.
Fairness ==
    /\ WF_vars(RunOperation /\ UNCHANGED callerVars)
    /\ WF_vars(SessionStep /\ UNCHANGED callerVars)
    /\ WF_vars(Return)
    /\ WF_vars(CallerStep)

Spec == Init /\ [][Next]_vars /\ Fairness

-----------------------------------------------------------------------------
(* Properties.                                                             *)

\* The type of the state.
TypeOK ==
    /\ SessionTypeOK
    /\ caller \in {"idle", "between", "inFile", "fileFailed", "filing", "filed", "doomed"}
    /\ fileNo \in 0..MaxFiles /\ parsed \in BOOLEAN /\ rowNo \in 0..MaxRows
    /\ accepted \subseteq Rows

\* Once an ingest is over and the database still open, its leftovers are too: no
\* staging table holds rows, and OPFS holds the committed generation only.
NothingLeftBehind ==
    /\ TypeOK
    /\ (caller = "idle" /\ Quiet /\ dispose = "no") =>
          /\ staging = Empty
          /\ \A p \in DOMAIN opfs : p[1] = catalogGen

\* A spill ingest still open when the database is disposed of leaves no chunk in
\* OPFS once disposal is done (browser.ts, "reclaim it immediately too,
\* unconditionally").
OpenIngestReclaimed ==
    (dispose = "done" /\ openAtDispose # None) =>
        \A p \in DOMAIN opfs : p[1] # openAtDispose

\* A query sees an ingest whole or not at all: the session, its rotations, its
\* discards and the swap implement AtomicIngest.
Atomic == INSTANCE AtomicIngest WITH
              Row <- Rows, published <- Contents, pending <- accepted

IngestIsAtomic == Atomic!Spec

\* An admitted ingest settles whatever fails, so the next one can be admitted.
IngestSettles == activeIngest # None ~> activeIngest = None
=============================================================================
