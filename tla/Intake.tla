-------------------------------- MODULE Intake --------------------------------
(***************************************************************************)
(* Opening batches of files: IntakeOrchestrator.completeBatchOpen as one      *)
(* coroutine per session generation, the generation fence of SessionStore,    *)
(* the opens and cancels of SessionController, and the ingest session         *)
(* underneath, whose calls now overlap as the code has them overlap.          *)
(*                                                                         *)
(* The parser is what ParseProtocol shows it to be: at most Window batches    *)
(* of one active parse chained at a time, onBatch called in order, a worker's *)
(* failure reported behind the batches already chained, a failing onBatch and *)
(* a cancellation at once.                                                   *)
(*                                                                         *)
(* A coroutine's step runs from one await to the next.  The steps that follow *)
(* a settled promise are microtasks: in any order among themselves, and all   *)
(* of them before the next event (Idle).  Files the planner skips reach       *)
(* neither the parser nor the tables and are left out.                        *)
(***************************************************************************)
EXTENDS IngestSession

LOCAL INSTANCE Functions

CONSTANTS
    FilesPerOpen,  \* bound: files of one open the planner accepts; of the last open, those within MaxFiles
    MaxBatches,    \* bound: batches received in all
    Window,        \* BATCH_CREDIT_WINDOW
    MayTier,       \* the tiers chooseTier may answer
    Calls,         \* which other calls the user may make
    Faults         \* which failures of the environment may happen

ASSUME IntakeAssumption ==
    /\ FilesPerOpen \in Nat \ {0} /\ FilesPerOpen * (MaxGenerations - 1) < MaxFiles
    /\ MaxBatches \in Nat /\ MaxBatches <= MaxRows /\ MaxGenerations <= MaxRows
    /\ Window \in Nat \ {0}
    /\ MayTier \subseteq Tiers
    /\ Calls \subseteq {"cancel", "dispose"}
    /\ Faults \subseteq {"probe", "begin", "worker"}

VARIABLES
    \* SessionStore
    storeGen,    \* the session generation
    disposed,
    phase,
    shown,       \* the generation whose files the state shows, or None
    \* per generation, its open()
    pc,          \* where it waits
    fileAt,      \* the last file begun
    good,        \* succeededFiles
    skipped,
    failure,     \* what its catch block has caught
    waitsFor,    \* the ingestSettlement it awaits, by the generation owning it
    \* shared by them
    settlement,  \* the generation owning ingestSettlement, or None
    starting,    \* the generation inside beginIngest (ingestStarting), or None
    \* the parser, per file
    active,      \* the file whose parse owns the worker, or None
    made,        \* batches received from the worker
    queued,      \* of these, chained and not started
    handling,    \* the row its running onBatch appends, or NoRow
    ending,      \* the settlement chained behind the batches
    outcome      \* how its parse() settled

storeGenVars  == <<storeGen, disposed, phase, shown>>
coroutineVars == <<pc, fileAt, good, skipped, failure, waitsFor>>
sharedVars    == <<settlement, starting>>
parserVars    == <<active, made, queued, handling, ending, outcome>>
intakeVars    == <<storeGenVars, coroutineVars, sharedVars, parserVars>>
vars          == <<ingestVars, intakeVars>>

Init ==
    /\ IngestInit
    /\ storeGen = None /\ disposed = FALSE /\ phase = "idle" /\ shown = None
    /\ pc = [g \in Generations |-> "none"]
    /\ fileAt = [g \in Generations |-> 0]
    /\ good = [g \in Generations |-> {}] /\ skipped = [g \in Generations |-> {}]
    /\ failure = [g \in Generations |-> "none"]
    /\ waitsFor = [g \in Generations |-> None]
    /\ settlement = None /\ starting = None
    /\ active = None
    /\ made = [f \in Files |-> 0] /\ queued = [f \in Files |-> 0]
    /\ handling = [f \in Files |-> NoRow]
    /\ ending = [f \in Files |-> "none"] /\ outcome = [f \in Files |-> "none"]

-----------------------------------------------------------------------------
(* The event loop.                                                         *)

IsCurrent(g) == ~disposed /\ g = storeGen

\* File i of generation g; the last file begun; the generation a file is of.
FileOf(g, i)   == (g - 1) * FilesPerOpen + i
FilesOf(g)     == {FileOf(g, i) : i \in 1..FilesPerOpen} \cap Files
CurrentFile(g) == FileOf(g, fileAt[g])
OwnerOf(f)     == CHOOSE g \in Generations : f \in FilesOf(g)

\* settleIngest has run for the generation owning the settlement.
IngestSettled(g) == g # None => pc[g] = "done"

\* The next chained onBatch may begin.
MayStart(f) == queued[f] > 0 /\ handling[f] = NoRow

\* finish, error and crash settle the parse behind its batches.
MaySettle(f) == ending[f] # "none" /\ queued[f] = 0 /\ handling[f] = NoRow

\* The appends made before the parse rejected have settled.  A parse rejected by
\* its own onBatch or by the worker has none left to wait for.
PendingAppendsSettled(f) == outcome[f] = "abort" => handling[f] = NoRow

\* A promise has settled and what awaits it has not run.  The other outcomes of a
\* call are followed by the deletion of files, which is an event.
Resumes(g) ==
    \/ pc[g] \in {"loop", "publish", "failing"}
    \/ pc[g] = "settling" /\ IngestSettled(waitsFor[g])
    \/ /\ pc[g] = "parsing" /\ outcome[CurrentFile(g)] # "pending"
       /\ PendingAppendsSettled(CurrentFile(g))

Microtasks ==
    \/ \E a \in appends : a.at \in {"ok", "error"}
    \/ call.kind # "abort" /\ call.at \in {"ok", "error", "nothing", "refused"}
    \/ call.kind = "abort" /\ call.at \in {"error", "nothing"}
    \/ \E g \in Generations : Resumes(g)
    \/ \E f \in Files : MayStart(f) \/ MaySettle(f)

Idle == ~Microtasks

-----------------------------------------------------------------------------
(* The store, the controller and the user.                                 *)

\* ParseWorkerClient.cancel.
CancelParse ==
    /\ active' = None
    /\ outcome' = IF active = None THEN outcome
                                   ELSE [outcome EXCEPT ![active] = "abort"]
    /\ UNCHANGED <<made, queued, handling, ending>>

\* openBatch: the generation moves and the previous parse stops.
OpenBatch ==
    /\ Idle
    /\ ~disposed /\ storeGen < MaxGenerations
    /\ storeGen' = storeGen + 1
    /\ pc' = [pc EXCEPT ![storeGen'] = "planning"]
    /\ CancelParse
    /\ UNCHANGED <<disposed, phase, shown, fileAt, good, skipped, failure,
                   waitsFor, sharedVars, ingestVars>>

Cancel ==
    /\ Idle
    /\ "cancel" \in Calls
    /\ ~disposed /\ storeGen < MaxGenerations
    /\ storeGen' = storeGen + 1
    /\ CancelParse
    /\ phase' = IF phase \in {"opening", "parsing"} THEN "idle" ELSE phase
    /\ shown' = IF phase \in {"opening", "parsing"} THEN None ELSE shown
    /\ UNCHANGED <<disposed, coroutineVars, sharedVars, ingestVars>>

\* SessionController.dispose; the database's own disposal follows.
DisposeSession ==
    /\ Idle
    /\ "dispose" \in Calls
    /\ ~disposed /\ disposed' = TRUE
    /\ CancelParse
    /\ phase' = "idle" /\ shown' = None
    /\ UNCHANGED <<storeGen, coroutineVars, sharedVars, ingestVars>>

DisposeDatabase ==
    /\ Idle
    /\ disposed
    /\ Dispose \/ DisposeFinishes
    /\ UNCHANGED intakeVars

-----------------------------------------------------------------------------
(* The coroutine, up to its ingest session.                                 *)

Goes(g, where) == pc' = [pc EXCEPT ![g] = where]

\* A bug to be caught: the dispatch does not check the generation.
DispatchesAlways(g, p) ==
    /\ phase' = p /\ shown' = IF p = "idle" THEN None ELSE g
    /\ UNCHANGED <<storeGen, disposed>>

\* A dispatch that only a current generation makes.
Dispatches(g, p) ==
    /\ phase' = IF IsCurrent(g) THEN p ELSE phase
    /\ shown' = IF ~IsCurrent(g) THEN shown ELSE IF p = "idle" THEN None ELSE g
    /\ UNCHANGED <<storeGen, disposed>>

\* open(): planBatch answers or, a file being unreadable, rejects.
Planned(g) ==
    /\ Idle /\ pc[g] = "planning"
    /\ \/ /\ "probe" \in Faults \/ ~IsCurrent(g)
          /\ Goes(g, "done")
          /\ UNCHANGED storeGenVars
       \/ /\ IsCurrent(g)
          /\ Goes(g, "done") /\ Dispatches(g, "failed")   \* no file recognised
       \/ /\ IsCurrent(g)
          /\ Goes(g, "closing") /\ Dispatches(g, "opening")
    /\ UNCHANGED <<fileAt, good, skipped, failure, waitsFor, sharedVars, parserVars,
                   ingestVars>>

\* queryCancellation has settled; ingestSettlement is read here and awaited.
FamilyClosed(g) ==
    /\ Idle /\ pc[g] = "closing"
    /\ IF IsCurrent(g)
       THEN Goes(g, "settling") /\ waitsFor' = [waitsFor EXCEPT ![g] = settlement]
       ELSE Goes(g, "done") /\ UNCHANGED waitsFor
    /\ UNCHANGED <<storeGenVars, fileAt, good, skipped, failure, sharedVars,
                   parserVars, ingestVars>>

\* beginIngest is called: refused while another ingest is open or starting, or
\* when its tier is unsupported.
Claim(g) ==
    /\ pc[g] = "settling" /\ IngestSettled(waitsFor[g])
    /\ \/ /\ ~IsCurrent(g)
          /\ Goes(g, "done") /\ UNCHANGED <<storeGenVars, starting>>
       \/ /\ IsCurrent(g)
          /\ activeIngest # None \/ starting # None \/ "begin" \in Faults
          /\ Goes(g, "done") /\ Dispatches(g, "failed") /\ UNCHANGED starting
       \/ /\ IsCurrent(g) /\ activeIngest = None /\ starting = None
          /\ Goes(g, "starting") /\ starting' = g /\ UNCHANGED storeGenVars
    /\ UNCHANGED <<fileAt, good, skipped, failure, waitsFor, settlement,
                   parserVars, ingestVars>>

\* beginIngest goes on once the queue is idle.  Its caller takes the settlement
\* over only now.
Begun(g) ==
    /\ Idle /\ pc[g] = "starting" /\ queue = << >>
    /\ starting' = None
    /\ \/ /\ \E t \in MayTier : BeginIngest(g, t)
          /\ Goes(g, "loop") /\ settlement' = g
       \/ /\ dispose # "no"
          /\ Goes(g, "done") /\ UNCHANGED <<settlement, ingestVars>>
    /\ UNCHANGED <<storeGenVars, fileAt, good, skipped, failure, waitsFor,
                   parserVars>>

-----------------------------------------------------------------------------
(* The coroutine with its ingest session open.                              *)

Fails(g, why) == Goes(g, "failing") /\ failure' = [failure EXCEPT ![g] = why]

FilesRow(g) == [file |-> None, n |-> g]

MoreFiles(g) == FileOf(g, fileAt[g] + 1) \in FilesOf(g)

\* The top of the file loop, and what follows it.
NextFile(g) ==
    /\ pc[g] = "loop" /\ IsCurrent(g) /\ MoreFiles(g)
    /\ CallBeginFile(FileOf(g, fileAt[g] + 1))
    /\ fileAt' = [fileAt EXCEPT ![g] = @ + 1]
    /\ Goes(g, "beginning")
    /\ UNCHANGED <<storeGenVars, good, skipped, failure, waitsFor, sharedVars,
                   parserVars>>

AppendFiles(g) ==
    /\ pc[g] = "loop" /\ IsCurrent(g) /\ ~MoreFiles(g) /\ good[g] # {}
    /\ CallAppend(FilesTable, FilesRow(g))
    /\ Goes(g, "filing")
    /\ UNCHANGED <<storeGenVars, fileAt, good, skipped, failure, waitsFor,
                   sharedVars, parserVars>>

\* Superseded, or every file was skipped.
GivesUp(g) ==
    /\ pc[g] = "loop"
    /\ ~IsCurrent(g) \/ (~MoreFiles(g) /\ good[g] = {})
    /\ Fails(g, "error")
    /\ UNCHANGED <<storeGenVars, fileAt, good, skipped, waitsFor, sharedVars,
                   parserVars, ingestVars>>

\* The boundary is in place and the file is parsed.  parse() cancels a parse that
\* is still active.
FileBegun(g) ==
    /\ pc[g] = "beginning"
    /\ ReturnBeginFile
    /\ IF call.at = "ok"
       THEN /\ Goes(g, "parsing") /\ UNCHANGED failure
            /\ IF disposed
               THEN UNCHANGED active /\ outcome' = [outcome EXCEPT ![CurrentFile(g)] = "error"]
               ELSE /\ active' = CurrentFile(g)
                    /\ outcome' = [f \in Files |->
                                     IF f = CurrentFile(g) THEN "pending"
                                     ELSE IF f = active THEN "abort" ELSE outcome[f]]
       ELSE Fails(g, call.at) /\ UNCHANGED <<active, outcome>>
    /\ UNCHANGED <<storeGenVars, fileAt, good, skipped, waitsFor, sharedVars,
                   made, queued, handling, ending>>

\* The parse resolved: every append of the file has resolved too.
FileParsed(g) ==
    /\ pc[g] = "parsing" /\ outcome[CurrentFile(g)] = "resolved"
    /\ good' = IF IsCurrent(g) THEN [good EXCEPT ![g] = @ \cup {CurrentFile(g)}] ELSE good
    /\ Goes(g, "loop")
    /\ UNCHANGED <<storeGenVars, fileAt, skipped, failure, waitsFor, sharedVars,
                   parserVars, ingestVars>>

\* The continuation of a rejected parse runs some microtasks after the rejection,
\* by when the next chained onBatch has begun.
\*
\* A cancelled parse and a quota failure end the batch, and so does finding
\* itself superseded.
FileDooms(g) ==
    /\ pc[g] = "parsing"
    /\ LET f == CurrentFile(g)
       IN  /\ outcome[f] \in {"error", "quota", "abort"}
           /\ PendingAppendsSettled(f) /\ ~MayStart(f)
           /\ outcome[f] \in {"quota", "abort"} \/ ~IsCurrent(g)
           /\ Fails(g, outcome[f])
    /\ UNCHANGED <<storeGenVars, fileAt, good, skipped, waitsFor, sharedVars,
                   parserVars, ingestVars>>

\* Any other failure skips the file.
FileSkipped(g) ==
    /\ pc[g] = "parsing" /\ IsCurrent(g)
    /\ outcome[CurrentFile(g)] = "error" /\ ~MayStart(CurrentFile(g))
    /\ CallDiscard
    /\ Goes(g, "discarding")
    /\ UNCHANGED <<storeGenVars, fileAt, good, skipped, failure, waitsFor,
                   sharedVars, parserVars>>

FileDiscarded(g) ==
    /\ pc[g] = "discarding"
    /\ ReturnDiscard
    /\ IF call.at = "error"
       THEN Fails(g, "error") /\ UNCHANGED skipped
       ELSE /\ Goes(g, "loop") /\ UNCHANGED failure
            /\ skipped' = [skipped EXCEPT ![g] = @ \cup {CurrentFile(g)}]
    /\ UNCHANGED <<storeGenVars, fileAt, good, waitsFor, sharedVars, parserVars>>

\* The append of _files has settled; finalize follows with no other check.
FilesAppended(g) ==
    /\ pc[g] = "filing"
    /\ \E a \in appends :
          /\ a.row = FilesRow(g) /\ ReturnAppend(a)
          /\ IF a.at = "ok" THEN Goes(g, "publish") /\ UNCHANGED failure ELSE Fails(g, a.at)
    /\ UNCHANGED <<storeGenVars, fileAt, good, skipped, waitsFor, sharedVars,
                   parserVars>>

Publish(g) ==
    /\ pc[g] = "publish"
    /\ CallFinalize
    /\ Goes(g, "finalizing")
    /\ UNCHANGED <<storeGenVars, fileAt, good, skipped, failure, waitsFor,
                   sharedVars, parserVars>>

Published(g) ==
    /\ pc[g] = "finalizing"
    /\ ReturnFinalize
    /\ IF call.at = "swapping"
       THEN Goes(g, "done") /\ Dispatches(g, "ready") /\ UNCHANGED failure
       ELSE Fails(g, "error") /\ UNCHANGED storeGenVars
    /\ UNCHANGED <<fileAt, good, skipped, waitsFor, sharedVars, parserVars>>

Failing(g) ==
    /\ pc[g] = "failing"
    /\ CallAbort
    /\ Goes(g, "aborting")
    /\ UNCHANGED <<storeGenVars, fileAt, good, skipped, failure, waitsFor,
                   sharedVars, parserVars>>

\* The catch block's dispatch, and settleIngest.
Given(g) ==
    /\ pc[g] = "aborting"
    /\ ReturnAbort
    /\ Goes(g, "done")
    /\ Dispatches(g, IF failure[g] = "abort" THEN "idle" ELSE "failed")
    /\ UNCHANGED <<fileAt, good, skipped, failure, waitsFor, sharedVars,
                   parserVars>>

-----------------------------------------------------------------------------
(* The parser and the onBatch handler it calls.                             *)

\* Of all files together; the bound on it is also one on each file.
Received == FoldFunction(+, 0, made)

\* The worker's gate has a permit.
HasCredit(f) == queued[f] + (IF handling[f] = NoRow THEN 0 ELSE 1) < Window

\* A batch joins the ackChain.
BatchArrives(f) ==
    /\ Idle /\ active = f /\ made[f] < MaxBatches /\ Received < MaxBatches
    /\ HasCredit(f)
    /\ made' = [made EXCEPT ![f] = @ + 1]
    /\ queued' = [queued EXCEPT ![f] = @ + 1]
    /\ UNCHANGED <<active, handling, ending, outcome, storeGenVars, coroutineVars,
                   sharedVars, ingestVars>>

\* finish, or the worker's error or crash.
ParseEnds(f) ==
    /\ Idle /\ active = f
    /\ active' = None
    /\ \E how \in {"resolve"} \cup (IF "worker" \in Faults THEN {"reject"} ELSE {}) :
          ending' = [ending EXCEPT ![f] = how]
    /\ UNCHANGED <<made, queued, handling, outcome, storeGenVars, coroutineVars,
                   sharedVars, ingestVars>>

\* onBatch: a superseded generation's batch is dropped, any other is shown as
\* progress and appended.
BatchStarts(f) ==
    /\ MayStart(f)
    /\ queued' = [queued EXCEPT ![f] = @ - 1]
    /\ IF IsCurrent(OwnerOf(f))
       THEN LET row == [file |-> f, n |-> made[f] - queued'[f]]
            IN  /\ \E t \in Tables \ {FilesTable} : CallAppend(t, row)
                /\ handling' = [handling EXCEPT ![f] = row]
                /\ phase' = "parsing"
       ELSE UNCHANGED <<handling, phase, ingestVars>>
    /\ UNCHANGED <<active, made, ending, outcome, storeGen, disposed, shown,
                   coroutineVars, sharedVars>>

\* A bug to be caught: a failing onBatch does not fail its parse.
Swallowed(f, how) == outcome

\* The first settlement of a parse counts.
SettledAs(f, how) ==
    IF outcome[f] = "pending" THEN [outcome EXCEPT ![f] = how] ELSE outcome

\* onBatch resolves, or rejects and the parse with it, at once.
BatchDone(f) ==
    /\ handling[f] # NoRow
    /\ \E a \in appends :
          /\ a.row = handling[f] /\ ReturnAppend(a)
          /\ IF a.at = "ok" THEN UNCHANGED <<outcome, active>>
             ELSE /\ outcome' = SettledAs(f, a.at)
                  /\ active' = IF active = f THEN None ELSE active
    /\ handling' = [handling EXCEPT ![f] = NoRow]
    /\ UNCHANGED <<made, queued, ending, storeGenVars, coroutineVars, sharedVars>>

ParseSettles(f) ==
    /\ MaySettle(f)
    /\ ending' = [ending EXCEPT ![f] = "none"]
    /\ outcome' = SettledAs(f, IF ending[f] = "resolve" THEN "resolved" ELSE "error")
    /\ UNCHANGED <<active, made, queued, handling, storeGenVars, coroutineVars,
                   sharedVars, ingestVars>>

-----------------------------------------------------------------------------
Coroutine(g) ==
    \/ Planned(g) \/ FamilyClosed(g) \/ Claim(g) \/ Begun(g)
    \/ NextFile(g) \/ AppendFiles(g) \/ GivesUp(g) \/ FileBegun(g) \/ FileParsed(g)
    \/ FileDooms(g) \/ FileSkipped(g) \/ FileDiscarded(g) \/ FilesAppended(g)
    \/ Publish(g) \/ Published(g) \/ Failing(g) \/ Given(g)

ParserStep(f) ==
    BatchArrives(f) \/ ParseEnds(f) \/ BatchStarts(f) \/ BatchDone(f) \/ ParseSettles(f)

DatabaseStep == ((Idle /\ RunOperation) \/ SessionStep) /\ UNCHANGED intakeVars

Over(g) == pc[g] \in {"none", "done"}

\* Every open is over and no other will be made.
Rest ==
    /\ \A g \in Generations : Over(g)
    /\ storeGen = MaxGenerations \/ dispose = "done"
    /\ queue = << >> /\ appends = {} /\ call = NoCall
    /\ UNCHANGED vars

SystemStep ==
    \/ \E g \in Generations : Coroutine(g)
    \/ \E f \in Files : ParserStep(f)
    \/ DatabaseStep

Next ==
    \/ OpenBatch \/ Cancel \/ DisposeSession \/ DisposeDatabase
    \/ SystemStep
    \/ Rest

Spec == Init /\ [][Next]_vars

-----------------------------------------------------------------------------
(* Properties.                                                             *)

Waits == {"none", "planning", "closing", "settling", "starting", "loop", "beginning",
          "parsing", "discarding", "filing", "publish", "finalizing", "failing",
          "aborting", "done"}
Causes == {"none", "error", "quota", "abort"}

\* The type of the state.
TypeOK ==
    /\ SessionTypeOK
    /\ storeGen \in Generations \cup {None} /\ disposed \in BOOLEAN
    /\ phase \in {"idle", "opening", "parsing", "ready", "failed"}
    /\ shown \in Generations \cup {None}
    /\ pc \in [Generations -> Waits]
    /\ fileAt \in [Generations -> 0..FilesPerOpen]
    /\ good \in [Generations -> SUBSET Files] /\ skipped \in [Generations -> SUBSET Files]
    /\ failure \in [Generations -> Causes]
    /\ waitsFor \in [Generations -> Generations \cup {None}]
    /\ settlement \in Generations \cup {None} /\ starting \in Generations \cup {None}
    /\ active \in Files \cup {None}
    /\ made \in [Files -> 0..MaxBatches] /\ queued \in [Files -> 0..Window]
    /\ handling \in [Files -> Rows]
    /\ ending \in [Files -> {"none", "resolve", "reject"}]
    /\ outcome \in [Files -> {"none", "pending", "resolved", "error", "quota", "abort"}]

BatchesOf(f) == {[file |-> f, n |-> n] : n \in 1..made[f]}

\* Whenever the session shows an open as ready, the tables a query would read are
\* that open's: its _files row, every batch of every file it lists as opened, and
\* nothing of any other open, whichever opens and cancels overlapped with it.
ReadyShowsCatalog ==
    phase = "ready" =>
        /\ FilesRow(shown) \in Contents
        /\ UNION {BatchesOf(f) : f \in good[shown]} \subseteq Contents
        /\ \A r \in Contents : r = FilesRow(shown) \/ r.file \in FilesOf(shown)

\* An ingest the database has admitted belongs to an open that is still going to
\* finalize or abort it, or to the append that ended it and is deleting its files.
IngestIsOwned ==
    activeIngest # None =>
        ~Over(activeIngest) \/ \E a \in appends : a.at = "quota"

CallUnder(kind) == call.kind = kind /\ (call.at = "queued" => queue # << >>)
AppendUnder(r) ==
    \E a \in appends : a.row = r /\ (a.at = "queued" => \E i \in DOMAIN queue : queue[i].row = r)

\* No open, and no onBatch, waits for something that will not come: the settlement
\* it awaits is that of an earlier open, its call is queued or answered, its parse
\* is with the worker, chained behind batches or settled.
EveryWaitIsAnswered ==
    /\ TypeOK
    /\ \A g \in Generations :
          /\ pc[g] = "settling" => waitsFor[g] < g
          /\ pc[g] = "starting" => starting = g
          /\ pc[g] = "beginning" => CallUnder("beginFile")
          /\ pc[g] = "discarding" => CallUnder("discard")
          /\ pc[g] = "finalizing" => CallUnder("flushing") \/ CallUnder("finalize")
          /\ pc[g] = "aborting" => CallUnder("abort")
          /\ pc[g] = "filing" => AppendUnder(FilesRow(g))
          /\ pc[g] = "parsing" =>
                LET f == CurrentFile(g)
                IN  active = f \/ ending[f] # "none" \/ outcome[f] # "pending"
    /\ \A f \in Files : handling[f] # NoRow => AppendUnder(handling[f])

\* When every open is over, late appends included, no staging table holds rows
\* and OPFS holds the committed generation only.
NothingLeftBehind ==
    (dispose = "no" /\ queue = << >> /\ appends = {} /\ \A g \in Generations : Over(g)) =>
        /\ staging = Empty
        /\ \A p \in DOMAIN opfs : p[1] = catalogGen

\* The parse of f has been rejected.  Only then may an append of f still be under way
\* while f is discarded, or after.
Failed(f) == f # None /\ outcome[f] \in {"error", "quota", "abort"}

Intact(S) == {r \in S : ~Failed(r.file)}

\* No parquet chunk mixes two files the parses of which have not failed, so dropping
\* the chunks of a file takes no row of another that is kept (types.ts, beginFile: "no
\* parquet chunk ever mixes files").  A failed file's late rows may share a chunk with
\* the file begun after it: batches chained behind the one that failed are appended
\* while the file is discarded and the next is begun.
ChunksKeepFilesApart ==
    \A t \in Tables : \A p \in chunkPaths[t] \cap DOMAIN opfs :
        \A r1, r2 \in Intact(opfs[p]) : r1.file = r2.file

\* The row counts finalize returns lie between the rows of intact files it published and
\* all the rows it published, after any discards, rotations and half-failed rotations; they
\* are those of the tables unless a failed file's late rows are among them, some of which
\* the discard has counted out and left in.
CountsFitTables ==
    (state = "finalized" /\ call = NoCall /\ dispose # "done") =>
        \A t \in Tables :
            /\ Cardinality(Intact(Scanned(t))) <= rowCounts[t]
            /\ rowCounts[t] <= Cardinality(Scanned(t))

\* A file the session reports as skipped has no row in the published tables
\* (types.ts, discardCurrentFile: "Removes every row appended since the active
\* beginFile").
SkippedFilesLeaveNoRows ==
    phase = "ready" => \A r \in Contents : r.file \notin skipped[shown]

\* No open is refused because of the one it supersedes (intake.ts, ingestSettlement:
\* "a quick supersession never races the real DB's single-open-session invariant").
NeverRefused ==
    \A g \in Generations :
        (pc[g] = "settling" /\ IngestSettled(waitsFor[g]) /\ IsCurrent(g)) =>
            activeIngest = None /\ starting = None

\* A superseded open publishes nothing (intake.ts, "a superseded batch aborts its
\* ingest rather than publishing").
SupersededNeverPublishes ==
    [][\A g \in Generations : Publish(g) => IsCurrent(g)]_vars

\* An open that ran out of storage, and that nothing has superseded, is shown as
\* failed once it is over (controller.test.ts expects phase 'failed' and "Local
\* storage ran out of space" after the open settles).
QuotaFailureIsShown ==
    \A g \in Generations :
        (pc[g] = "done" /\ failure[g] = "quota" /\ IsCurrent(g)) => phase = "failed"
=============================================================================
