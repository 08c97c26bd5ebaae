---------------------------- MODULE IngestSession ----------------------------
(***************************************************************************)
(* One database's ingest sessions: IngestSessionImpl, the Catalog its       *)
(* finalize swaps, the OPFS spill files, and the serialized operation queue *)
(* of DuckdbRuntime that every statement runs through.  The calls a session   *)
(* receives come from a module that extends this one: IngestCaller makes them *)
(* one at a time, Intake as IntakeOrchestrator's coroutines do.               *)
(*                                                                         *)
(* An Arrow batch is one row, [file, n], and one byte; a chunk path is       *)
(* <<generation, table, index>>.  A queued operation is atomic: it owns the *)
(* only connection, so nothing else sees the tables between its statements. *)
(* Where it may fail half-way, each point of failure is an outcome.         *)
(***************************************************************************)
EXTENDS Naturals, Sequences, FiniteSets

CONSTANTS
    Tables,         \* the tables every pack schema declares, and _files
    FilesTable,     \* _files
    MaxGenerations, \* bound: ingests opened
    MaxFiles,       \* bound: files of one ingest
    MaxRows,        \* bound: batches of one ingest
    RotateAt        \* rotationBytes

ASSUME IngestAssumption ==
    /\ IsFiniteSet(Tables) /\ FilesTable \in Tables
    /\ MaxGenerations \in Nat /\ MaxFiles \in Nat /\ MaxRows \in Nat
    /\ RotateAt \in Nat \ {0}

Generations == 1..MaxGenerations
None        == 0                     \* no generation, and no file
Files       == 1..MaxFiles           \* a file is its place in the batch
Rows        == [file : Files \cup {None}, n : 0..(MaxRows + 1)]
Paths       == Generations \X Tables \X Nat
Tiers       == {"memory", "spill"}

VARIABLES
    \* BrowserDatabase
    activeIngest,    \* the admitted session's generation, or None
    spillIngest,     \* activeIngestSpillGeneration, or None
    dispose,         \* "no", "marked" (markDisposed called) or "done"
    openAtDispose,   \* history: the spill ingest open when disposal began
    \* Catalog (main thread) and the finals DuckDB holds
    catalogKinds,    \* per table: "none", "table" or "view"
    catalogGen,      \* the generation backing committed views, or None
    finals,          \* per table: its kind, its own rows, the paths it scans
    \* DuckDB staging tables and OPFS
    staging,         \* per table: rows staged
    opfs,            \* chunk files: a function from paths to rows
    \* IngestSessionImpl
    generation, tier, state,
    created, rowCounts, stagedBytes, chunkIndex, chunkPaths,
    currentFile, fileChunks, fileRows,
    \* the runtime's queue and the calls waiting on it
    queue,           \* operations not yet run
    appends,         \* appendBatch calls that have not returned
    call             \* the other call under way, or NoCall

databaseVars == <<activeIngest, spillIngest, dispose, openAtDispose>>
catalogVars  == <<catalogKinds, catalogGen, finals>>
storeVars    == <<staging, opfs>>
tableVars    == <<created, rowCounts, stagedBytes, chunkIndex, chunkPaths>>
fileVars     == <<currentFile, fileChunks, fileRows>>
callVars     == <<queue, appends, call>>
ingestVars == <<databaseVars, catalogVars, storeVars, generation, tier, state,
                tableVars, fileVars, callVars>>

\* `at` is "queued", the outcome of the queued operation ("ok", "error",
\* "quota"), or a later stage of the same method.
NoCall == [kind |-> "none", at |-> "none", file |-> None, chunks |-> {}, prev |-> None]
Called(kind, at, f) == [NoCall EXCEPT !.kind = kind, !.at = at, !.file = f]

Zero == [t \in Tables |-> 0]
Empty == [t \in Tables |-> {}]

IngestInit ==
    /\ activeIngest = None /\ spillIngest = None
    /\ dispose = "no" /\ openAtDispose = None
    /\ catalogKinds = [t \in Tables |-> "none"] /\ catalogGen = None
    /\ finals = [t \in Tables |-> [kind |-> "none", rows |-> {}, paths |-> {}]]
    /\ staging = Empty /\ opfs = << >>
    /\ generation = None /\ tier = "memory" /\ state = "aborted"
    /\ created = {} /\ rowCounts = Zero /\ stagedBytes = Zero
    /\ chunkIndex = Zero /\ chunkPaths = Empty
    /\ currentFile = None /\ fileChunks = Empty /\ fileRows = Zero
    /\ queue = << >> /\ appends = {} /\ call = NoCall

-----------------------------------------------------------------------------
(* Helpers.                                                                *)

NoRow == [file |-> None, n |-> 0]
Operation(op, f) ==
    [op |-> op, file |-> f, table |-> FilesTable, row |-> NoRow, create |-> FALSE]
Insertion(t, r) ==
    [op |-> "append", file |-> None, table |-> t, row |-> r, create |-> t \notin created]

\* runtime.enqueue: refused once disposal has been requested.
Enqueue(o) ==
    queue' = IF dispose = "no" THEN Append(queue, o) ELSE queue
AtOnce == IF dispose = "no" THEN "queued" ELSE "error"

OfGenerations(G) == {p \in DOMAIN opfs : p[1] \in G}
Deleted(S) == [p \in DOMAIN opfs \ S |-> opfs[p]]

\* onSettled: the database may admit the next ingest.
Settled == activeIngest' = None /\ spillIngest' = None
NotSettled == UNCHANGED <<activeIngest, spillIngest>>

\* spillPath of the next chunk.
NextPath(t) == <<generation, t, chunkIndex[t]>>

\* rotateChunk over `done`: each table's staged rows become its next chunk, and
\* the chunk belongs to the current file, if there is one.  In `copied` the COPY
\* succeeded and the DELETE after it did not: the file exists and nothing else
\* has changed.
Rotate(done, copied, staged, bytes) ==
    LET new == {NextPath(t) : t \in done \cup copied}
    IN  /\ opfs' = [p \in DOMAIN opfs \cup new |->
                      IF p \in new THEN staged[p[2]] ELSE opfs[p]]
        /\ stagedBytes' = [t \in Tables |-> IF t \in done THEN 0 ELSE bytes[t]]
        /\ chunkIndex' = [t \in Tables |-> IF t \in done THEN chunkIndex[t] + 1
                                                         ELSE chunkIndex[t]]
        /\ chunkPaths' = [t \in Tables |-> IF t \in done
                                           THEN chunkPaths[t] \cup {NextPath(t)}
                                           ELSE chunkPaths[t]]
        /\ fileChunks' = [t \in Tables |-> IF t \in done /\ currentFile # None
                                           THEN fileChunks[t] \cup {NextPath(t)}
                                           ELSE fileChunks[t]]

Emptied(done, staged) == [t \in Tables |-> IF t \in done THEN {} ELSE staged[t]]

\* dropStaging.
DropStaging == staging' = Empty

\* rotateOrAbort over the tables `due`, in some order, up to the first failure.
\* `outcome` is "ok", "error" or "quota"; with `aborts` a quota failure ends the
\* session and drops its staging tables.
RotateOrAbort(due, staged, bytes, aborts, outcome) ==
    \E done \in SUBSET due : \E copied \in SUBSET (due \ done) :
        /\ done = due <=> outcome = "ok"
        /\ copied # {} => outcome = "error" /\ Cardinality(copied) = 1
        /\ Rotate(done, copied, staged, bytes)
        /\ IF outcome = "quota" /\ aborts
           THEN state' = "aborted" /\ DropStaging
           ELSE UNCHANGED state /\ staging' = Emptied(done, staged)

\* A bug to be caught: a file boundary flushes nothing.
NothingDue == {}

\* The tables with residual staged rows, which a file boundary and finalize flush.
Due == {t \in created : stagedBytes[t] > 0}

-----------------------------------------------------------------------------
(* The queue runs its first operation.  An operation queued before disposal  *)
(* and reached after it is refused.                                          *)

Running(op) == queue # << >> /\ Head(queue).op = op /\ queue' = Tail(queue)
Refused == dispose # "no"

\* A session that ran out of storage has dropped the tables an operation still queued
\* would work on; that operation fails.
Unserved == Refused \/ state = "aborted"

\* The append call waiting for the operation at the head of the queue.
Answered(outcome) ==
    appends' = {IF a.row = Head(queue).row THEN [a EXCEPT !.at = outcome] ELSE a :
                  a \in appends}
Returns(outcome) == call' = [call EXCEPT !.at = outcome]

\* The operation's own check of the state, made once its turn has come.
AppendRefused == Refused \/ state # "open"

RunAppend ==
    /\ Running("append")
    /\ LET row == Head(queue).row
           t   == Head(queue).table
           staged == [staging EXCEPT ![t] = @ \cup {row}]
           bytes  == [stagedBytes EXCEPT ![t] = @ + 1]
       IN  \/ /\ Answered("error")      \* refused, or the insert failed
              /\ UNCHANGED <<state, storeVars, tableVars, fileVars>>
           \/ /\ ~AppendRefused /\ (Head(queue).create => t \notin created)
              /\ created' = created \cup {t}
              /\ rowCounts' = [rowCounts EXCEPT ![t] = @ + 1]
              /\ fileRows' = IF currentFile # None
                             THEN [fileRows EXCEPT ![t] = @ + 1] ELSE fileRows
              /\ UNCHANGED currentFile
              /\ IF tier = "memory" \/ bytes[t] < RotateAt
                 THEN /\ Answered("ok")
                      /\ staging' = staged
                      /\ stagedBytes' = IF tier = "memory" THEN stagedBytes ELSE bytes
                      /\ UNCHANGED <<state, opfs, chunkIndex, chunkPaths, fileChunks>>
                 ELSE \E outcome \in {"ok", "error", "quota"} :
                        /\ Answered(outcome)
                        /\ RotateOrAbort({t}, staged, bytes, TRUE, outcome)
    /\ UNCHANGED <<databaseVars, catalogVars, generation, tier, call>>

\* beginFile's flush: the previous file's residual rows rotate out.
RunFlush ==
    /\ Running("flush")
    /\ \/ /\ Unserved /\ Returns("error")
          /\ UNCHANGED <<state, storeVars, stagedBytes, chunkIndex, chunkPaths, fileChunks>>
       \/ /\ ~Unserved
          /\ \E outcome \in {"ok", "error", "quota"} :
                /\ Returns(outcome)
                /\ RotateOrAbort(Due, staging, stagedBytes, TRUE, outcome)
    /\ UNCHANGED <<databaseVars, catalogVars, generation, tier, created, rowCounts,
                   currentFile, fileRows, appends>>

\* discardCurrentFile's deletes; one that fails leaves the later tables alone.
RunDiscard ==
    /\ Running("discard")
    /\ \E emptied \in SUBSET created :
          /\ emptied = created \/ ~Unserved
          /\ Returns(IF emptied = created /\ ~Unserved THEN "ok" ELSE "error")
          /\ IF Unserved THEN UNCHANGED <<staging, stagedBytes>> ELSE
             /\ staging' = [t \in Tables |->
                   IF t \notin emptied THEN staging[t]
                   ELSE IF tier = "spill" THEN {}
                   ELSE {r \in staging[t] : r.file # Head(queue).file}]
             /\ stagedBytes' = [t \in Tables |->
                   IF t \in emptied /\ tier = "spill" THEN 0 ELSE stagedBytes[t]]
    /\ UNCHANGED <<databaseVars, catalogVars, opfs, generation, tier, state, created,
                   rowCounts, chunkIndex, chunkPaths, fileVars, appends>>

\* finalize's residual rotation, outside the transaction; a failure is left to
\* finalize's own catch.
RunResidual ==
    /\ Running("residual")
    /\ \/ /\ Refused /\ Returns("error")
          /\ UNCHANGED <<state, storeVars, stagedBytes, chunkIndex, chunkPaths, fileChunks>>
       \/ /\ ~Refused
          /\ \E outcome \in {"ok", "error", "quota"} :
                /\ Returns(outcome)
                /\ RotateOrAbort(Due, staging, stagedBytes, FALSE, outcome)
    /\ UNCHANGED <<databaseVars, catalogVars, generation, tier, created, rowCounts,
                   currentFile, fileRows, appends>>

\* A view over the tracked chunks, or the staging table renamed, or an empty
\* table from the schema.
FinalOf(t) ==
    IF tier = "spill" /\ t \in created /\ chunkPaths[t] # {}
    THEN [kind |-> "view", rows |-> {}, paths |-> chunkPaths[t]]
    ELSE [kind |-> "table", rows |-> staging[t], paths |-> {}]

\* dropFinals drops what the catalog records, each by its kind; a final of
\* another kind, or one the catalog does not know, makes the transaction fail.
DropsMatch == \A t \in Tables : catalogKinds[t] = finals[t].kind

\* The swap transaction: committed, or rolled back.
RunCommit ==
    /\ Running("commit")
    /\ \/ /\ Returns("error")
          /\ UNCHANGED <<finals, staging>>
       \/ /\ ~Refused /\ DropsMatch
          /\ Returns("ok")
          /\ finals' = [t \in Tables |-> FinalOf(t)]
          /\ DropStaging
    /\ UNCHANGED <<databaseVars, catalogKinds, catalogGen, opfs, generation, tier,
                   state, tableVars, fileVars, appends>>

\* abort's dropStaging.
RunDrop ==
    /\ Running("drop")
    /\ \/ Refused /\ Returns("error") /\ UNCHANGED staging
       \/ ~Refused /\ Returns("ok") /\ DropStaging
    /\ UNCHANGED <<databaseVars, catalogVars, opfs, generation, tier, state, tableVars,
                   fileVars, appends>>

RunOperation == RunAppend \/ RunFlush \/ RunDiscard \/ RunResidual \/ RunCommit \/ RunDrop

-----------------------------------------------------------------------------
(* The calls: what each method does when it is called, and what it does when *)
(* the operation it waits for has run.                                       *)

Outstanding(a) == a \in appends /\ a.at # "queued"

\* beginIngest, once every query, sort and export has let go of the queue.
BeginIngest(g, t) ==
    /\ dispose = "no" /\ activeIngest = None
    /\ activeIngest' = g
    /\ spillIngest' = IF t = "spill" THEN g ELSE None
    /\ generation' = g /\ tier' = t /\ state' = "open"
    /\ created' = {} /\ rowCounts' = Zero /\ stagedBytes' = Zero
    /\ chunkIndex' = Zero /\ chunkPaths' = Empty
    /\ currentFile' = None /\ fileChunks' = Empty /\ fileRows' = Zero
    /\ UNCHANGED <<dispose, openAtDispose, catalogVars, storeVars, callVars>>

CallAppend(t, r) ==
    /\ IF state = "open"
       THEN /\ appends' = appends \cup {[table |-> t, row |-> r, at |-> AtOnce]}
            /\ Enqueue(Insertion(t, r))
       ELSE /\ appends' = appends \cup {[table |-> t, row |-> r, at |-> "error"]}
            /\ UNCHANGED queue
    /\ UNCHANGED <<databaseVars, catalogVars, storeVars, generation, tier, state,
                   tableVars, fileVars, call>>

\* A bug to be caught: the aborted session is never reported as settled.
ReclaimsUnsettled(outcome) ==
    /\ opfs' = IF outcome = "quota" THEN Deleted(OfGenerations({generation})) ELSE opfs
    /\ NotSettled

\* A quota failure has aborted the session: its generation goes before the call
\* rejects.
ReclaimOnQuota(outcome) ==
    IF outcome = "quota"
    THEN opfs' = Deleted(OfGenerations({generation})) /\ Settled
    ELSE UNCHANGED opfs /\ NotSettled

ReturnAppend(a) ==
    /\ Outstanding(a)
    /\ appends' = appends \ {a}
    /\ ReclaimOnQuota(a.at)
    /\ UNCHANGED <<dispose, openAtDispose, catalogVars, staging, generation, tier, state, tableVars,
                   fileVars, queue, call>>

CallBeginFile(f) ==
    /\ call = NoCall
    /\ IF state = "open" /\ tier = "spill"
       THEN Enqueue(Operation("flush", f)) /\ call' = Called("beginFile", AtOnce, f)
       ELSE /\ call' = Called("beginFile", IF state = "open" THEN "ok" ELSE "error", f)
            /\ UNCHANGED queue
    /\ UNCHANGED <<databaseVars, catalogVars, storeVars, generation, tier, state,
                   tableVars, fileVars, appends>>

ReturnBeginFile ==
    /\ call.kind = "beginFile" /\ call.at # "queued"
    /\ call' = NoCall
    /\ ReclaimOnQuota(call.at)
    /\ IF call.at = "ok"
       THEN currentFile' = call.file /\ fileChunks' = Empty /\ fileRows' = Zero
       ELSE UNCHANGED fileVars
    /\ UNCHANGED <<dispose, openAtDispose, catalogVars, staging, generation, tier, state, tableVars,
                   queue, appends>>

CallDiscard ==
    /\ call = NoCall
    /\ IF state = "open" /\ currentFile # None
       THEN /\ Enqueue(Operation("discard", currentFile))
            /\ call' = Called("discard", AtOnce, currentFile)
       ELSE call' = Called("discard", "nothing", None) /\ UNCHANGED queue
    /\ UNCHANGED <<databaseVars, catalogVars, storeVars, generation, tier, state,
                   tableVars, fileVars, appends>>

\* The discarded file's chunks leave the tracked paths before their files are
\* deleted.
DiscardForgets ==
    /\ call.kind = "discard" /\ call.at = "ok"
    /\ chunkPaths' = [t \in Tables |-> chunkPaths[t] \ fileChunks[t]]
    /\ call' = [call EXCEPT !.at = "deleting",
                            !.chunks = UNION {fileChunks[t] : t \in Tables}]
    /\ UNCHANGED <<databaseVars, catalogVars, storeVars, generation, tier, state,
                   created, rowCounts, stagedBytes, chunkIndex, fileVars, queue, appends>>

AtLeastZero(n, less) == IF n < less THEN 0 ELSE n - less

\* A bug to be caught: the discarded rows stay in the counts.
CountsKept == rowCounts

\* The table counts once the file's own are taken out.
CountsWithoutFile == [t \in Tables |-> AtLeastZero(rowCounts[t], fileRows[t])]

ReturnDiscard ==
    /\ call.kind = "discard" /\ call.at \in {"deleting", "nothing", "error"}
    /\ call' = NoCall
    /\ IF call.at = "deleting"
       THEN /\ opfs' = Deleted(call.chunks)
            /\ rowCounts' = CountsWithoutFile
            /\ currentFile' = None /\ fileChunks' = Empty /\ fileRows' = Zero
       ELSE UNCHANGED <<opfs, rowCounts, fileVars>>
    /\ UNCHANGED <<databaseVars, catalogVars, staging, generation, tier, state, created,
                   stagedBytes, chunkIndex, chunkPaths, queue, appends>>

CallFinalize ==
    /\ call = NoCall
    /\ IF state = "open"
       THEN /\ state' = "finalized"
            /\ Enqueue(Operation(IF tier = "spill" THEN "residual" ELSE "commit", None))
            /\ call' = Called(IF tier = "spill" THEN "flushing" ELSE "finalize", AtOnce, None)
       ELSE call' = Called("finalize", "refused", None) /\ UNCHANGED <<state, queue>>
    /\ UNCHANGED <<databaseVars, catalogVars, storeVars, generation, tier,
                   tableVars, fileVars, appends>>

\* The residual rows are out; the transaction is queued.
FinalizeCommits ==
    /\ call.kind = "flushing" /\ call.at = "ok"
    /\ Enqueue(Operation("commit", None))
    /\ call' = Called("finalize", AtOnce, None)
    /\ UNCHANGED <<databaseVars, catalogVars, storeVars, generation, tier, state,
                   tableVars, fileVars, appends>>

\* Catalog.swap, up to its wait for the displaced generation's deletion.
FinalizeSwaps ==
    /\ call.kind = "finalize" /\ call.at = "ok"
    /\ catalogKinds' = [t \in Tables |-> finals[t].kind]
    /\ catalogGen' = IF tier = "spill" THEN generation ELSE None
    /\ call' = [call EXCEPT !.at = "swapping", !.prev = catalogGen]
    /\ UNCHANGED <<databaseVars, finals, storeVars, generation, tier, state, tableVars,
                   fileVars, queue, appends>>

\* A bug to be caught: the reclaimed generation is the one just committed.
NewGeneration == catalogGen

\* The generation swap() reclaims.
DisplacedGeneration == call.prev

ReturnFinalize ==
    /\ \/ /\ call.kind = "finalize" /\ call.at = "swapping"
          /\ opfs' = Deleted(OfGenerations({DisplacedGeneration}))
          /\ Settled
          /\ UNCHANGED state
       \/ /\ call.kind \in {"flushing", "finalize"} /\ call.at \in {"error", "quota"}
          /\ state' = "failed"
          /\ Settled
          /\ UNCHANGED opfs
       \/ /\ call.kind = "finalize" /\ call.at = "refused"
          /\ NotSettled
          /\ UNCHANGED <<state, opfs>>
    /\ call' = NoCall
    /\ UNCHANGED <<dispose, openAtDispose, catalogVars, staging, generation, tier, tableVars, fileVars,
                   queue, appends>>

\* A bug to be caught: a failed finalize leaves nothing to abort.
AbortableWhenOpen == state = "open"

\* What abort() acts on; it returns at once otherwise.
Abortable == state \in {"open", "failed"}

CallAbort ==
    /\ call = NoCall
    /\ IF Abortable
       THEN /\ state' = "aborted"
            /\ Enqueue(Operation("drop", None))
            /\ call' = Called("abort", AtOnce, None)
       ELSE call' = Called("abort", "nothing", None) /\ UNCHANGED <<state, queue>>
    /\ UNCHANGED <<databaseVars, catalogVars, storeVars, generation, tier,
                   tableVars, fileVars, appends>>

\* The generation is deleted once the staging tables are gone; onSettled fires
\* either way.
ReturnAbort ==
    /\ call.kind = "abort" /\ call.at # "queued"
    /\ call' = NoCall
    /\ IF call.at = "nothing" THEN NotSettled ELSE Settled
    /\ opfs' = IF call.at = "ok" /\ tier = "spill"
               THEN Deleted(OfGenerations({generation})) ELSE opfs
    /\ UNCHANGED <<dispose, openAtDispose, catalogVars, staging, generation, tier, state, tableVars,
                   fileVars, queue, appends>>

\* A method goes on without its caller.
SessionStep == DiscardForgets \/ FinalizeCommits \/ FinalizeSwaps

-----------------------------------------------------------------------------
(* Disposal of the database.                                               *)

sessionVars == <<generation, tier, state, tableVars, fileVars>>

Dispose ==
    /\ dispose = "no"
    /\ dispose' = "marked"
    /\ openAtDispose' = IF state = "open" THEN spillIngest ELSE None
    /\ UNCHANGED <<activeIngest, spillIngest, catalogVars, storeVars, sessionVars,
                   callVars>>

\* After idle() and the runtime's teardown, the generation behind committed views
\* and that of an ingest still open are reclaimed.
DisposeFinishes ==
    /\ dispose = "marked" /\ queue = << >>
    /\ dispose' = "done"
    /\ opfs' = Deleted(OfGenerations({catalogGen, spillIngest}))
    /\ UNCHANGED <<activeIngest, spillIngest, openAtDispose, catalogVars, staging, sessionVars,
                   callVars>>

-----------------------------------------------------------------------------
(* Properties of the session whoever calls it.                              *)

\* What a query over final t returns: its own rows, and those of its chunks.
Scanned(t) == finals[t].rows \cup UNION {opfs[p] : p \in finals[t].paths \cap DOMAIN opfs}

Contents == IF dispose = "done" THEN {} ELSE UNION {Scanned(t) : t \in Tables}

Operations == [op : {"append", "flush", "discard", "residual", "commit", "drop"},
               file : Files \cup {None}, table : Tables, row : Rows, create : BOOLEAN]
Outcomes == {"queued", "ok", "error", "quota"}
AppendCalls == [table : Tables, row : Rows, at : Outcomes]
SessionCalls == [kind : {"none", "beginFile", "discard", "flushing", "finalize", "abort"},
                 at : Outcomes \cup {"none", "nothing", "refused", "deleting", "swapping"},
                 file : Files \cup {None}, chunks : SUBSET Paths, prev : Generations \cup {None}]

\* The type of the session's state.
SessionTypeOK ==
    /\ activeIngest \in Generations \cup {None}
    /\ spillIngest \in Generations \cup {None}
    /\ dispose \in {"no", "marked", "done"}
    /\ openAtDispose \in Generations \cup {None}
    /\ catalogKinds \in [Tables -> {"none", "table", "view"}]
    /\ catalogGen \in Generations \cup {None}
    /\ finals \in [Tables -> [kind : {"none", "table", "view"},
                              rows : SUBSET Rows, paths : SUBSET Paths]]
    /\ staging \in [Tables -> SUBSET Rows]
    /\ DOMAIN opfs \subseteq Paths /\ \A p \in DOMAIN opfs : opfs[p] \subseteq Rows
    /\ generation \in Generations \cup {None} /\ tier \in Tiers
    /\ state \in {"open", "finalized", "aborted", "failed"}
    /\ created \subseteq Tables
    /\ rowCounts \in [Tables -> Nat] /\ stagedBytes \in [Tables -> Nat]
    /\ chunkIndex \in [Tables -> Nat] /\ chunkPaths \in [Tables -> SUBSET Paths]
    /\ currentFile \in Files \cup {None}
    /\ fileChunks \in [Tables -> SUBSET Paths] /\ fileRows \in [Tables -> Nat]
    /\ queue \in Seq(Operations)
    /\ appends \subseteq AppendCalls /\ call \in SessionCalls

\* No committed view ever scans a chunk that is gone: neither a discard, an
\* abort, a failed or aborted later ingest, nor the reclaiming of a displaced
\* generation removes a file a query can reach.
NoDanglingView ==
    dispose # "done" => \A t \in Tables : finals[t].paths \subseteq DOMAIN opfs
=============================================================================
