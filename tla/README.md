# ByteQL in TLA+

ByteQL is a web application that parses binary files (packet captures, MIDI, ZIP)
in the browser and lets the user query what they hold with SQL. A *pack* parser
runs in a Web Worker and streams Arrow batches to the main thread; the main thread
inserts them through an *ingest session* into DuckDB-Wasm, whose tables become
queryable when the ingest is *finalized*; large ingests spill to Parquet chunks in
OPFS. This directory models the parts of that pipeline whose correctness depends on
the order in which callbacks, messages, awaited promises and failures happen.

## 1. Inventory

Paths are relative to the repository. *Hard* names what a test hardly reaches.

| Component | State it keeps | Operations | Talks to | Hard |
|---|---|---|---|---|
| Parse worker protocol (`apps/web/src/lib/parse-worker-client.ts`, `parse-protocol.ts`, `workers/parse.worker.ts`) | client: active task, worker, ack chain; worker: runs and their credit gates | `parse`, `cancel`, `dispose`; messages `parse`, `ack`, `batch`, `finish`, `error` | called by the intake; `onBatch` calls back into it | messages of a terminated worker; finish behind unfinished callbacks; credit; crashes |
| Ingest session, catalog, spill files (`packages/db/src/ingest-session.ts`, `catalog.ts`, `spill-files.ts`) | session state, staged rows and bytes, chunk paths per table and per file; committed tables or views | `appendBatch`, `beginFile`, `discardCurrentFile`, `finalize`, `abort` | runs each statement on the DuckDB runtime's queue; writes OPFS | an operation failing or running out of quota half-way; overlapping calls; disposal |
| DuckDB runtime (`packages/db/src/runtime.ts`, `hardening.ts`, `bundles.ts`) | promise chain of operations, disposed flag | `enqueue`, `markDisposed`, `dispose` | owns the only connection | operations queued at disposal |
| Database owner (`packages/db/src/browser.ts`) | active ingest, query, sort, export; pending query; cleanup retries | `beginIngest`, `startQuery`, `createSortedView`, `exportParquet`, `cancelQuery`, `dispose` | all of `packages/db` | exclusion between operations that each await; retirement of derived views |
| Query sessions and result pages (`query-session.ts`, `query-pages.ts`, `stored-result-view.ts`) | Arrow reader, pages in OPFS, LRU cache with pins, demand state | `fetchNext`, `retryPending`, `readPage`, `pinPages`, `materialize`, `cancel`, `dispose` | runtime, OPFS | close during a fetch; quota on a page; eviction of a page in use |
| Database sort and export (`sort-result.ts`, `result-sort.ts`, `shard-workspace.ts`, `export-parquet.ts`, `export-files.ts`) | temporary tables, shards, owned files | build a sorted view, write Parquet | runtime, OPFS | abort between statements, cleanup that fails |
| Intake (`apps/web/src/lib/session/intake.ts`, `session-store.ts`, `tiering.ts`) | one coroutine per open; `ingestSettlement` | `open`, `completeBatchOpen`, `cancelParse` | planner, parse client, database, session state | superseded opens that still run; appends that outlive a failed parse |
| Session controller and state (`controller.ts`, `state.ts`) | session generation, phase, files, results | `openBatch`, `cancel`, `runQuery`, `dispose` | everything above | late answers of an older generation |
| Result session, sorter, exporter (`result-session.ts`, `result-sorter.ts`, `result-exporter.ts`) | current result, its window, a sort, a download | run, page, sort, export, stop | database owner | generation fences over every await |
| CSV export (`lib/export/*`, `workers/csv.worker.ts`) | job protocol, save destination | export, cancel | result session, worker | cancellation against late chunks |
| Query library (`lib/queries/*`) | saved queries, history, pending writes | save, rename, remove, record | IndexedDB | order of writes, other tabs |
| Hex view (`lib/hex/*`, `components/HexPane.svelte`, what feeds it in `Workbench.svelte`) | byte pages, pending reads, scroll row, caret, selection; coverage spans | `ensureRange`, `byteAt`, go to, move, select, paint, `buildCoverage`, hit tests | file blob, session state | effects that undo each other; reads that settle after a scroll, a switch or an eviction; a file reopened under its name |
| Panel layout (`lib/ui/*`) | preferences, metrics, one drag, handles with their frames | measure, drag, key, reset, cancel | local storage | a drag ended by another handle, a key, a blur or a measurement |
| Stream reassembly (`packages/core/src/projection/streams.ts`, `stream-runtime.ts`) | per flow: segments, gaps, limits | push segment, flush, close | pack driver, emitter | overlaps, gaps, limits |
| Projection, pack driver, Arrow (`packages/core/src/projection`, `pack`, `arrow`) | compiled specification, batch builders | compile, drive, emit, build | format packs | batch boundaries, yields, abort |
| Format packs (`packages/formats`) | framing windows | frame, normalise | pack driver | block boundaries, truncated input |
| Audio viewer, components, `crates/byteql` | - | rendering; a placeholder crate | - | - |

How they interact. `SessionController.openBatch` raises the session generation and
starts an `IntakeOrchestrator.open` for it. Each open closes the current result,
waits for the settlement of the previous ingest, begins its own, and for each file
calls `beginFile`, `ParseWorkerClient.parse` (whose `onBatch` calls `appendBatch`),
and `discardCurrentFile` when the file fails; it appends the `_files` provenance row and
finalizes. A later open or a cancel raises the generation and terminates the parser;
the older open finds out when it next looks at its generation, and aborts its ingest.
Everything on the main thread interleaves at `await`; DuckDB's statements are
serialized by the runtime's queue.

What makes each part correct:

- the parse protocol hands over every batch once, in order, before it resolves, and
  never waits for a worker with nothing to say;
- an ingest becomes visible whole or not at all, and leaves no staged row and no chunk
  behind, whatever fails;
- a session shown as ready shows the tables of that open;
- no open waits for ever or leaves an ingest no one will end;
- a result page is the page the query produced, read or re-read; closing a query
  gives up every resource once;
- a late answer of an older generation changes nothing a newer one shows; what the
  session offers (a sorted view, a file to save) is there; its cursor has one reader;
- a sort or an export holds its source's rows in order, and strands no handle or file, nor, if it succeeds, a table;
- a download's file is the result, whole or not at all;
- tabs that share a store of queries agree with it once all is settled;
- a stream's bytes are those of its segments, however they arrive; a record's rows
  come out once, linked, however batches are cut;
- what is painted and laid out is what the state says.

## 2. Modules

| Module | Models | Kind |
|---|---|---|
| `ParseProtocol` | client, worker and the two message ports | component |
| `ParseProtocol_proofs` | theorems about it | proofs |
| `IngestSession` | session, catalog, spill files, runtime queue, disposal | component, driven by a caller module |
| `IngestCaller` | the session called one operation at a time | composition |
| `AtomicIngest` | what an ingest promises a reader | abstract specification |
| `IngestSession_proofs` | the session's operations keep its types, whoever calls them | proofs |
| `IngestCaller_proofs` | theorems about `IngestCaller` | proofs |
| `Intake` | opens as coroutines over the overlapping session, controller, state | composition |
| `Intake_proofs` | theorems about `Intake` | proofs |
| `PageStore` | stored pages, OPFS files, cache of decoded pages, disposal | component, driven by `QuerySession` |
| `QuerySession` | one result: its cursor, chained demands, reads, closing | composition |
| `PagedResult` | what a result promises its readers | abstract specification |
| `QuerySession_proofs` | theorems about the session and its store | proofs |
| `Database` | calls of the database, its slots and tokens, the queue, disposal | component |
| `Database_proofs` | theorems about it | proofs |
| `ShardWorkspace` | sorts and Parquet exports over their scratch tables, shards, files | component |
| `ResultState` | the reducer's result, sort and download events | state functions |
| `ResultFamily` | what the next three share: fields, fences, `close()` | component |
| `ResultSession`, `ResultSorter`, `ResultExporter` | `execute` and demands; `sort`; `performDownload` | components |
| `Results` | the three under the controller's calls | composition |
| `Results_proofs`, `OneReader_proofs` | theorems about it, the second upon the first | proofs |
| `CsvExport` | CSV worker, its client, the page loop, destinations | component |
| `QueryLibrary` | tabs over one IndexedDB store | component |
| `HexView` | hex pane, byte cache, effects, which file it reads | component |
| `PanelLayout` | layout coordinator, its dividers, stored preferences | component |
| `StreamAssembler` | the buffer of one flow, as operators | algorithm |
| `StreamRuntime` | flows of a stream over it, framing, generations, flush | component |
| `PackDriver` | driver, projection session, builders, emission | component |
| `PcapFraming`, `PcapngReader`, `MidiTrack` | classic captures and their window of chunks; pcapng over it; MIDI files | algorithms |
| `CsvText`, `ResultWindow`, `QueryFile`, `ByteCoverage` | CSV pages; result windows; SQL files; byte index and cells | algorithms |
| `MCParse`, `MCIngest`, `MCIntake`, `MCQuery` | the instances that are checked | roots of the runs |

A root puts side by side components that share no state: the variable `part` says which one a
behaviour is about, and the others keep their initial values. Their product would repeat
each of them and add nothing. The components that do interact are composed as such:
`Intake` over `IngestSession`, `Results` over session, sorter, exporter and state,
`QuerySession` over `PageStore`, `StreamRuntime` over `StreamAssembler`. For algorithms
a behaviour is one input, an element of a bounded set.

### ParseProtocol

One task is a file given to `parse`. The client's fields are `active`, `nextTaskId`,
`disposed` and the worker's incarnation `gen`; per task, `chain` (batches
chained on its ack chain), `handling` (the one whose `onBatch` runs), `after` (the
settlement chained behind them by `finish`, `error` or a crash) and `outcome` of its
promise. The worker has `alive`, `runs` (where each `runParse` is: reading the head, waiting for
credit, pulling a batch), `current` and `permits` of the gate it keeps. Ports are
the sequences `toWorker` and `fromWorker`; an event carries the incarnation it comes
from, since events already posted by a terminated worker are still delivered and
`createWorker`'s listener drops them. `started`, `handled` and `sent` count what has
happened to a task's batches. One action per entry point: `Parse`, `ParsePostFails`, `Cancel`, `Dispose`, one
per message kind, `StartBatch`/`HandlerDone`/`HandlerFails` for the links of the ack
chain, `Settle` for the continuation behind it, and for the worker its message handler
and the steps of `runParse` between awaits. `progress` messages are left out: they touch no state of
the protocol.

### IngestSession, IngestCaller, AtomicIngest

A batch is one row of one byte; `rotationBytes` is `RotateAt` rows. A chunk path is
`<<generation, table, index>>`, as `spillPath` builds it, and `opfs` maps existing
paths to the rows written there. An operation passed to `runtime.enqueue` is one atomic step of
the model (it owns the only connection), with every point at which it may fail as an
outcome: in a rotation, before or after `COPY` and at any of the tables, with an error or
for lack of quota. The code around it, before the enqueue and after the await, is steps
of its own: `CallX`, `RunX`, `ReturnX`, so that `Intake` can interleave them. What
runs after an outcome and awaits the deletion of files is a further step (`DiscardForgets`,
`ReclaimOnQuota`, `FinalizeSwaps`, ...). `Contents` is what a query can read: the rows of the committed
tables or of the chunks their views scan. Best-effort deletions are modelled as
succeeding; a failed one leaves an orphan for the next launch's sweep. A `ROLLBACK`
that fails itself is left out.

`IngestCaller` makes the calls in the order `completeBatchOpen` makes them, one at a
time. That is how they come as long as no `onBatch` is chained behind one that fails; where one is, appends of the
failed file overlap with its discard and with the next `beginFile`, and that is `Intake`'s business: what is promised of the
session under such calls (`ChunksKeepFilesApart`, `CountsFitTables`) is stated and checked there. `AtomicIngest` is the promise: `published` changes only by a `Publish`, to
exactly the accepted rows, or by the database closing. The run `ingest` checks that
`IngestCaller` implements it with `published <- Contents`, `pending <- accepted`.

### Intake

One coroutine per session generation with `pc` at its current `await`; its steps are the
code between two awaits. Steps that follow a settled promise are microtasks, run in any order
among themselves but before the next event (`Idle`): this is what keeps the model
from interleavings the event loop excludes. The parser is summarised by what `ParseProtocol`
establishes: up to `Window` batches chained, `onBatch` in order, worker failures
behind the chain (`WorkerFailureDrained`), success when everything is handled
(`ResolvedIsComplete`), a failing `onBatch` and a cancel at once. `phase` and `shown` are what the
reducer keeps of an open.

`Failed(f)` is a file whose parse has been rejected: only its appends may still run while it is discarded, while the next file is
begun, or between the deletion of its rows and the correction of their counts (`ingest-session.ts:254-277`). Such a late row is staged as
one of the file begun after it, shares a chunk with that file, and may be counted or not. `ChunksKeepFilesApart` and
`CountsFitTables` say what the session keeps all the same: of the files that have not failed, no two share a chunk, so that discarding
one takes no row of another; and a table's count is at least the number of their rows and at most that of all rows. Both have
a file that failed, with batches chained behind its failure, as their only exception, and the code goes that far: section 6. A
session aborted for lack of storage has dropped its staging tables, so an operation still queued then fails (`Unserved`).

### PageStore, QuerySession, PagedResult

A row is one byte and its own number, so a page `[start, rows]` shows whether it holds
the rows the cursor produced. `PageStore` is `QueryPageStore`: `pages` and `files` are
kept apart, since a failed write leaves an empty file; `decoded` is the cache and `usedBefore` the order of its
map, as a relation; `reading` holds, per caller, the files whose OPFS read it awaits.
`Evicted` says which pages `evictDecodedPages` removes without its loop: those such that the pages used before them do not
free enough. `QuerySession`
runs the demands chained on `fetchTail`, one step per await of `fetchNext` and
`retryPending` (`at`), and `close()` beside them (`closing`). `Collects` is the
accumulation loop and the decision to look ahead; memoized promises
(`cancelSignal`, `readerReturn`) are sent once and settle once. `PagedResult` is the promise:
pages are published at the end only, whole, in the cursor's order, and what
a reader gets from a page never changes until the result is released. The run `query` checks
that the session implements it, with a page's contents read as `get` would read them: from the
cache or from its file.

### Database

A call is its number, in call order; `at` is the await its coroutine is at and `joins`
the calls (or sessions) it awaits there. `queue` holds the operations of `runtime.enqueue`
that have not settled; an operation is refused at its turn after disposal. Steps run from
one await to the next, so `closeActiveQuery`, which a query runs inside its
operation and `beginIngest` outside the queue, is `RetireViews` and
`CloseSession` followed by the session's own `SessionCloses`. What a session does inside is
summarised by `CloseSettles` of `QuerySession`; an ingest, once open, ends when its owner ends
it. A view exists while it is registered: its own cleanup is not modelled. The writers of a sort and of an export are one
step that may fail.

### ShardWorkspace

One sort or export at a time, as the slots of `browser.ts` see to it. `job.at` is the call it
awaits; each succeeds or fails, and its signal may abort between any two. `held` is what a job has
outside memory: the lock and directory of its files, its connection, the paths registered with the database, its page
store; `retries` the cleanups `browser.ts` keeps to try again. `seeds` and `stage` are its scratch tables. Rows are `<<key, position>>`, a key may be null.
`ResultIsOrdered` compares what came out with the source. `NothingStranded` says what is left behind by settled jobs, in three
parts: what a job still holds is its result's, or queued for a retry, or a directory the next job or another tab collects (`JobsHoldNothing`); files in use are
never collected (`FilesAreProtected`); and tables are left by jobs that failed only (`TablesLeftByFailures`). Failed jobs do leave
tables, and a retry of what is memoized when rejected releases nothing: section 6.

### ResultState, ResultFamily, ResultSession, ResultSorter, ResultExporter, Results

`ResultState` translates the reducer's events as functions from state to state. A view is
`<<query, sort>>`, and a window is known by the view it was read from, which is how a stale
window would show. The three classes share fields across objects, so their coroutines (`run`, `dem`, `srt`,
`exp`, indexed by query and request) live over one set of variables, in modules that extend each other. A step runs from one
await to the next; `closes` holds the calls of `close()` under way. `ContinuationsRun` gives
microtasks precedence over the user's next event. `Results` adds the calls of the controller; the intake is reduced to its
planning, opening and end. The database is `db`, what `Database` and `QuerySession` establish of it.

### CsvExport, CsvText

Client and worker share two channels. A chunk is `<<page, sequence>>`, written before it is
acknowledged. Destinations are the three backends of `destination.ts` with their state
machine (`dest`) and what is in the file. A worker may fail at any time and is replaced; a cancelled encoding's messages still
arrive. `CsvText` has quoting, the bounded blocks and their surrogate pairs, and civil dates: each is compared with a
definition that does not go block by block or use division that truncates.

### QueryLibrary, QueryFile

Each tab has its memory, its persistence chain (`queue`) and a notice inbox; the store is IndexedDB with
transactions that may fail. Turning history off is two transactions. `TabsAgree` speaks of tabs with nothing left to write,
read or receive. `QueryFile` is the text format saved queries are exported to: lines with their escapes.

### HexView, ByteCoverage

An action is one event with the effects it sets off, those of the pane before those of the workbench, as Svelte
flushes them, again when the workbench's change the pane's inputs. `cache` is the LRU of pages with reads in flight, `orphans` the
reads of a disposed cache, `painted` what the last paint showed of each byte. `BytesSettle`: when nothing is due, every visible byte
is painted, unless a read failed. `RowIsRevealed`: selecting a row of the shown file brings
its first byte into view, whatever effects run after. `ByteCoverage` compares the index of `coverage.ts`
(sorted intervals, prefix lengths, binary search) with a walk over all rows, and hit-testing with drawing.

### PanelLayout

The coordinator has one drag; each divider has its own pointer transaction and frame. `PanelsHold`: panels fit the window within
their bounds, and no drag, frame or unsaved preference is left over when no pointer is down.

### StreamAssembler, StreamRuntime

`StreamAssembler` is the code on the fields of `StreamAssembler` (frontier, base, sorted segments, the array with
what copies leave behind). The reference in `StreamRuntime` knows nothing of them: it is the packets of the
file in order, the first to arrive for each position wins. `StreamsAreExact` compares what was framed, recorded and
reported with it, generation by generation. Sequence numbers wrap, offsets are `OffsetBits` wide.

### PackDriver, PcapFraming, PcapngReader, MidiTrack

A record is what its rows do when emitted (kept, throwing, unsealable, dissected further); bytes are left out. The driver's pump is a step
between its awaits; `nextBatch` pulls. `PackIsExact` compares delivered batches and issues with those of the records, child rows with their
parents' keys. `PcapFraming` reads classic files unit by unit through chunks of any length: the window, which bytes are views of a
chunk, what a truncated record gives; times are scaled and rounded down. `PcapngReader` walks pcapng block by block: sections with
their byte order, interfaces with their options, packets, the reports of what is malformed, and the records of the framer;
interfaces are positional. Its reference, `PacketsKeepTheirInterface`, looks up the section and the interface of each packet
in the whole file. `MidiTrack` has the chunks of a MIDI file, quantities of variable length, and the normal form of a track, which
gives each event a status of its own; `NormalFormIsExact` reads the status of an event off the bytes before it instead.

Definitions that a comment introduces with "A bug to be caught" are used by no
specification: they are the mutated forms with which each property is shown to be
able to fail.

## 3. Runs

Each run has at most one type invariant; the other modules' is a conjunct of the first invariant of their run
(`CacheAccounted`, `EveryWaitIsAnswered`, `OneOwner`, `NothingLeftBehind`, `OffersAreBacked`).

| Run | Part | Checks | Bounds |
|---|---|---|---|
| `parse` | protocol | types; credit conserved; one run per worker; batches in order; resolved means complete; a worker's failure rejects behind its batches; the client waits only for an answer that comes; every parse settles | 2 tasks, 3 batches each, window 2, 1 crash |
| | pack | `RecordsAreExact` | up to 3 records of every shape, threshold 3, a yield every 2 |
| | files | `RecordsAreExact` | classic files of up to 5 units after the header or a record, in chunks of 1, 2, 4 and 7; pcapng files of up to 5 blocks, up to two of them damaged in any of 11 ways, or cut off; MIDI tracks of up to 5 bytes after what sets a status, headers of each kind, files cut at every byte; time stamps of all scales |
| | streams | `StreamsAreExact` | 4 packets of 2 directions, any order, twice, altered; a buffer of 5 |
| `ingest` | ingest | no view scans a missing chunk; nothing left behind; `IngestIsAtomic`; every ingest settles | 2 ingests, 2 files, 3 batches, a table and `_files`, rotation at 2 |
| | workspace | `ResultIsOrdered`, `NothingStranded` | an empty result and one of 2 pages with a duplicate key; 2 jobs, the first descending, with one failing release each, output pages of 2 |
| `intake` | intake | ready shows the published tables; ingests are owned; every wait is answered; chunks keep files apart; counts fit tables | 2 opens, of 2 files and of 1, 3 batches, window 4, either tier |
| | chain | the same | 1 open of 2 files, left to itself, 5 batches, window 4, either tier |
| | hex | `ScreenHolds`, `RowsAreRevealed` | 3 batches with a reused name, files of 6 and 10 bytes, pages of 4, a cache of 2, 3 events |
| | panels | `ScreenHolds` | 2 measurements, 2 pointer positions, 3 events |
| | library | `TabsAgree` | 2 tabs, 3 calls, a history of 1 |
| `query` | session | the cache's accounting; no row lost between pages; closing releases; `ResultIsPaged`; closing settles | 3 rows, targets of 1 or 2, cache of 2, 2 readers, 3 demands, with and without OPFS |
| | family | the window matches the order; offers are backed; one fetcher; nothing leaks; late answers change nothing; what is under way ends | 3 query generations, up to 2 requests (demands, sorts, downloads) with two generations, one demand or sort with three, opens, cancels, disposal |
| | csv | `DownloadsAreWhole` | 2 downloads of 2 pages of 2 chunks, a memory limit of 3 |
| | samples | `ConversionsAreExact` | texts of up to 4 units; days around centuries; results of up to 4 pages; files of 3 lines; 3 rows |
| `database` | database | one owner of the connection; only the latest query opens; disposal leaves nothing; every call settles | 4 calls: any queries and sorts, one export, ingest and cancel |
| `ingest_dispose`, `intake_late_batch`, `intake_race`, `intake_superseded`, `intake_failure`, `results_superseded`, `hex_reopen` | | one statement of a comment or a test each, which the code does not keep (section 5) | as small as shows it |

Why the bounds are enough. `parse`: a second task is what stale messages and acks
need; three batches over a window of two make the worker wait for credit; the first
worker may crash, and a factory that answers or not then gives a replacement or disposes of the client. Records cross a batch boundary and a yield in the
middle; chunks cut a header and a body at every place; four packets let a gap be filled from both sides, a duplicate
differ, and the buffer overflow. `ingest`:
two generations give a displaced one; two files give a discard of the one
behind a kept one; three rows with rotation at two give a rotation in an append, a residual one at a
boundary and one in finalize. Tables are independent except for
`_files`, so one table beside it suffices, and each operation fails at each of its points. Two jobs let the second
meet what the first left; two pages need shards, two output pages and a merge. `intake`: two opens overlap; more would
repeat the fence between neighbours; the first has a file after the one it is superseded in. The window
is the code's, `BATCH_CREDIT_WINDOW` of four (`parse-protocol.ts:28`). Part `chain` has five batches, so that the whole window is chained behind the batch
that fails, and one batch more for the file begun after it: late rows meet the discard, the counts, the next boundary and
the next file's chunk. Three events reopen a file, select in it and scroll
away from it; a drag has a start, a move and an end.
`query`: with three rows and targets of one or two, a
page can be short of, equal to or exceeded by a batch and a result has up to three pages, one more than
the cache holds; two readers overlap on one page. In the family, a hazard is between a query and its successor, or between two requests
of one result; the third generation supersedes a second that is still waiting for a sort of the first to unwind. `FamilyCalls` keeps
generations and requests together at four: two generations with two requests, or three with one, a demand or a sort. `database`: each hazard involves two or three calls
(a result, what derives from it, what replaces it) and disposal; the fourth lets a superseded query
be superseded again and an export of a sorted view be interrupted; a second export, ingest or
cancel only queues behind the first. Three calls of the library let two tabs change, and one turn history
off, around each other's notices.

Fairness. `parse`: weak fairness of each worker step, each delivery and each link
of the ack chain: a live worker's event loop and the main thread's run, and an `onBatch` settles
(it awaits a DuckDB operation). Nothing is assumed of `Parse`, `Cancel`,
`Dispose` or a crash. `ingest`: the runtime's queue runs, a settled promise's
continuation runs, and the caller carries an ingest it has opened through, as the
try/catch/finally of `completeBatchOpen` does. `query`: of the session, settled promises are acted upon, and OPFS, `cancelSent` and the
cursor's `return` answer; a pull is only assumed to answer once its query has been cancelled, as
DuckDB's `cancelSent` does. Of the family, `WF(Answers)`: some awaited promise settles while one is pending; nothing is assumed of
the user's calls. `database`: some internal step is taken while one is possible; no assumption is made
about which, nor about any call, abort, completion of a result or end of an ingest. In a root each of these conditions is guarded by `part`, since a
part at rest owes no step. `intake` has no liveness property:
`EveryWaitIsAnswered` states instead, of each waiting coroutine, who owes it an answer.

Deadlock is checked in every run but `database` and `results_superseded`; a root stutters only where nothing is asked of a
part any more. `database` may stop after its last call; that it stops only with every call settled is
`EveryCallSettles`.

## 4. Proofs

Twenty-two properties of the runs, and the types of the intake, are theorems, for every value of the constants that their named assumptions allow. They are
of the form `Spec => []P`, but for two action properties (`LatestOpens`, `NothingLateIsShown`) and two refinements
(`IngestImplementsAtomic`, `SessionIsPaged`).

| Module | Theorem | Property |
|---|---|---|
| `ParseProtocol_proofs` | `TypeCorrect`, `OneRun` | `TypeOK`, `OneRunPerWorker` |
| | `BatchesAreInOrder`, `ResolvedParseIsComplete`, `FailedParseIsDrained` | `BatchesInOrder`, `ResolvedIsComplete`, `WorkerFailureDrained` |
| | `CreditIsConserved`, `AnswersCome` | `CreditConserved`, `WaitsOnlyOnAnAnswer` |
| `Database_proofs` | `OneOwnerAlways`, `DisposedStaysQuiet`, `LatestOpens` | `OneOwner`, `DisposedIsQuiet`, `OnlyTheLatestOpens` |
| `IngestCaller_proofs` | `NoViewDangles`, `IngestsCleanUp`, `IngestImplementsAtomic` | `NoDanglingView`, `NothingLeftBehind`, `IngestIsAtomic` |
| `Intake_proofs` | `IntakeTypes`, `ChunksAreKeptApart` | `TypeOK`, `ChunksKeepFilesApart` |
| `QuerySession_proofs` | `CacheIsAccounted`, `NoRowIsLost`, `ClosingReleases`, `SessionIsPaged` | `CacheAccounted`, `RowsConserved`, `CloseReleases`, `ResultIsPaged` |
| `Results_proofs` | `NothingLateIsShown`, `RowsAreOfTheirOrder`, `WhatIsOfferedIsThere` | `LateAnswersChangeNothing`, `WindowMatchesOrder`, `OffersAreBacked` |
| `OneReader_proofs` | `OneReaderFetches` | `OneFetcher` |

None of these is inductive. Each rests on a stronger invariant, made of named parts, and an action has a
lemma per part it can disturb. A later invariant assumes the earlier ones, so that no step is proved twice.

*Parse protocol.* `OneRunPerWorker` alone would allow a worker to be given a second task while one
runs. `RunInv` says why it is not: whatever runs, waits in the inbox
or is acknowledged is the client's active task (`RunsAreActive`, `RequestsAreActive`), a task whose end event is
on its way no longer runs (`EndsAreOver`), and a task not yet issued has no run (`FutureHasNoRun`);
a terminated worker takes its inbox with it. `IndInv == TypeOK /\ RunInv`. `OrderInv` follows a batch from the worker's counter
through the port to the chain: what has been chained and what is in the port are together a prefix of what was sent, without a gap
while the task is active (`ChainsInOrder`, `PortInOrder`, `NothingLost`), and a finish is behind all of it
(`FinishIsLast`); a task that has settled, or that the client no longer waits for, gets nothing more. `CreditInv` adds up permits: it
counts the messages of both ports that hold one of a run's credits, with a lemma on what appending to a port and taking from it do to such a count.
It has to know besides that the acks in the inbox are of the run they will reach, and that a worker reading the head of a file
has sent nothing. `AnswerInv` says that a worker that is dead while the client waits has announced it, so that no pending task
is forgotten: the safety half of `EveryParseSettles`.

*Database.* `CallsInv`: each call is at a place of its own coroutine, and the queue holds the operations that have not settled, once each,
of which the first alone has begun. `LatestInv`: a query that has not settled is the pending one or has been told
to stop, and any call that stops queries and was made later has told it. `IngestBars` and `SessionsInv` relate the slots to the coroutines: an
ingest that has passed its checks leaves no query that could still make a result; a result is open only in the slot. `DisposalInv` does the same
for each stage of disposal. The number of calls and their kinds are arbitrary, where the run has four.

*Ingest, driven by one call at a time.* Six invariants, each on those before:

- `TypeInv`: the types, and that before the first ingest there is nothing under way;
- `ControlInv`: one call at a time, the queue holds the operation it waits for, and which calls, outcomes, files and session states go
  with each place of the caller;
- `KeepInv`: the numbers of generations, indices of chunks, which files of OPFS belong to whom, and what is clean when an ingest is
  over. It gives `NoDanglingView`: whatever a step deletes is of another generation than the one the catalog shows, or untracked;
- `AppendInv`: which file and number the row of an append has, so that a row is new when it is staged;
- `StagedInv`: what is staged in a spill ingest is of the current file;
- `KeptInv`: the rows the session holds, staged or in tracked chunks, are the rows accepted, up to those of an answer on its way and of
  a file that has failed and not been discarded. Here it matters that a failed rotation neither loses a row nor keeps it twice, that
  a discard takes the chunks of its file and no other's, and that the session ends before a caller could commit rows it was not told of.

`IngestImplementsAtomic` maps each step: one that leaves the finals alone, and deletes files no view scans or writes only those
of a generation that has not committed, changes nothing a query reaches (`ContentsKept`, `RotationHides`); the transaction publishes the
rows held, hence those accepted (`CommitPublishes`); disposal closes. The steps between the transaction and the swap of the catalog,
when the finals are already of the new generation, are why the invariants speak of `FinalsGeneration`.

*Intake, where calls overlap.* `ChunksKeepFilesApart` needs to know whose append may be under way at a file boundary, so the invariant follows
an open through all its awaits:

- `OwnerInv`: the ingest under way is that of the open that owns the settlement, and an open about to begin one finds it over;
- `CallInv`, `StateInv`: which call and which states of the session go with each place of that open. Only that open makes calls other than appends;
- `QueueInv`, `AppendsInv`: the queue holds the operations of that call and of the appends that have not run, once each, and an
  append is of an `onBatch` that has not returned, or of the open's last step;
- `ParseInv`: an `onBatch` runs, or is chained, for the current file while it is parsed, or for a file that has failed. So a boundary finds no
  append but of failed files: this is where a window of chained batches comes in;
- `StagingInv`, `DueInv`: a session that is over has nothing staged, and what is staged has its bytes counted, so that a boundary flushes
  it all: what a late append stages is staged before it or, as a row of the next file, after;
- `ChunksInv`: what is staged of files that have not failed is of the current file, and of any two such rows in a chunk the
  files are the same. A step keeps it for files that have not failed after it, and these had not failed before (`IntactWas`).

Every operation of the session is one lemma about the store (`Rotated`, `StagedElsewhere`, `FilesElsewhere`), so that the
twenty-odd steps of an open are gone through once for each invariant.

*Query sessions and pages.* The store's invariant is kept by each of its operations, whoever calls them: `CacheInv` (a cached
page is the stored one, the bytes counted are those of the pages cached, and they exceed the limit only when all that is left is
pinned), `FilesInv` (without OPFS everything is cached; with it, every stored page has its file), `PagesInv`, `DisposalInv`. That
`Evicted` leaves no byte too many is a fact about sums along a linear order: the oldest page that stays is found by
`FiniteSetTheorems`' minimum, and the lemmas `BytesAddUp` and `CacheSettles` add up what goes before it. The session's invariant,
`SessionInv`, says where each row the cursor gave is: published, in the page being stored, in the page kept for a retry, in the
rows accumulated or in those left over (`RowsInv`); that the end is known when the page that ends the result is cut and left-over rows
mean another page (`EndInv`); which call is at which await in which demand state (`CallInv`, `StateInv`), how far `close()` is
(`CloseInv`); and that the pages published are the first ones stored, of the sizes told (`PublishedInv`). `SessionIsPaged`
maps each step to a publication, a read, an end, or a stutter.

*Result session.* The invariants are built in layers, each proved with those below it:

- `Shapes`: types, a view is of the base on display, and the sort, the download and the file held are there;
- it is enough for `NothingLateIsShown`: each event of the reducer is one of those that keep the rows, and the others are fenced;
- `OrderInv`: queries, sorts and demands are of generations that have passed; no result is current while a query runs; a
  demand has the revision and the order of one moment (`DemandsInOrder`), so that one taken before a commit is refused by its revision; the
  sort under way is the one the state shows (`SortIsShown`), and what it reads is its own view (`SortReads`);
- `OpenInv`: the base is an open session until the turn that closes it (`BaseIsOpen`), and the view on display has not been
  released, since a sort lets go only of the view it replaced, or of its own before it was adopted (`ViewsAreKept`);
- `FilesAreKept`: a file offered is the one retained;
- `ReaderInv`, for `OneFetcher`: who keeps whom from the cursor. A demand holds `demand` while its base is on display
  (`OneDemand`, `OneFetch`); a sort, once it has waited for what it found, keeps the others out by `activeSort` (`SortsAreAlone`), a
  download by `suspendedBy` (`ExportsInOrder`, `ExportsAreAlone`); a query's first fetch is over before its rows can be asked for, and
  those of the query before it cannot be while it runs (`RunsAreAlone`, with `SessionsInOrder` and `FamilyIsShown`). `retryPage` alone
  does not look at `suspendedBy`, so that a page offered for retry must be kept by the session (`RetriesAreHeld`, `WholeIsWhole`), and
  a download that fetches must have found none. Each action is first described as a turn the readers see (`ReaderTurn`), and the
  ten parts are kept by such turns: what a part needs to know of a step is said once, whatever the coroutine that makes it.

The assumptions are the named ones on the constants: finite tables among which `_files`, bounds that are natural numbers, a chunk of at
least one row, a page of at least one. Bounds such as `MaxGenerations` are in the guards, so the theorems hold for each of them, however large.

Only model-checked:

- every liveness property (`EveryParseSettles`, `IngestSettles`, `CloseSettles`, `UnderWayEnds`, `EveryCallSettles`, `BytesSettle`): fairness is out of the prover's reach;
- the properties of the algorithms (`RecordsAreExact`, `StreamsAreExact`, `ConversionsAreExact`): what a fold computes for
  every input needs induction over data, which no installed prover can instantiate;
- `NothingLeaks`, which says what is left once no answer is due (`ENABLED`);
- the other properties of the intake, among them `CountsFitTables`, whose proof would follow each row and each count through the
  overlapping calls; those of the shard workspace, the exports, the library and the screen.

## 5. Where the code and its documentation disagree

Each is a run that TLC must find violated; PROJECT.json quotes the lines.

- `ingest_dispose`: an ingest whose owner aborts it while the database is being
  disposed of leaves its chunks in OPFS, though `disposeInternal` says it reclaims them.
- `intake_late_batch`: an `onBatch` that fails rejects its parse at once while
  later ones are still chained; one of these can append behind the discard, and the skipped
  file's rows are published.
- `intake_race`: an open superseding one that is still inside `beginIngest` is refused.
- `intake_superseded`: an open superseded while it appends `_files` still publishes.
- `intake_failure`: after an open has failed for lack of storage, a chained `onBatch` shows progress again
  and the failure disappears.
- `results_superseded`: a query superseded while it waits for a sort to unwind goes on to close, and to cancel, the family of the
  query that superseded it: `execute` does not look at its generation between the two awaits.
- `hex_reopen`: the pane's blob depends on the file's name alone; a file opened under the name already shown is
  read from the file opened before.

## 6. Met while modelling

Not stated as properties, for no document says otherwise, but worth a reader's attention:

- `planBatch` rejecting for an unreadable file (`intake.ts:88`) leaves `resultIsCurrent` set over a closed result; `controller.cancel`
  while planning does not withdraw it either.
- With three query generations in a row the phase may stay `querying`: the second, superseded while it waits for a sort to unwind, closes
  the family of the third (`results_superseded`), and the third finds its `activeQuery` gone and returns without a word
  (`result-session.ts:151`, `154`). The user can cancel or run another. `UnderWayEnds` has this case, the queries in `lost`, as its one exception.
- "No parquet chunk ever mixes files" (`types.ts:79-80`) is not kept for a file that fails with batches chained behind the failure: a late append runs after
  the discard and after the next `beginFile`'s flush, and its row is written with those of the next file. The same late append, run
  between the deletion of a file's rows and the correction of the counts, makes the count `finalize` returns differ from the table. Both follow from
  what `intake_late_batch` shows; `ChunksKeepFilesApart` and `CountsFitTables` state what is left of the promise.
- A window that is published overwrites `pageError` with the value read before its awaits.
- A download that waits for a page demand starts in the microtask after the demand settles. Were it a turn of its own, a page retried in
  between would give the cursor two readers, for `retryPage` does not look at `resultFetchSuspendedBy` as `loadMore` does
  (`result-session.ts`); only the order of microtasks prevents it. Found by trying to prove `OneFetcher`; `ContinuationsRun` says so now.
- A pending file picker keeps a superseded download from settling; a download cancelled after its last write leaves a whole file where one was picked.
- A change announced by another tab while the library opens is not read (`library.ts:68-81`), and "a failed write never
  loses what the user sees" (`library.ts:36`) ends with the next reload.
- The retries of `files.dispose` and `store.dispose` await a promise that is memoized when rejected (`query-pages.ts:246`), so they never succeed.
  A staging table survives `register()` failing (`shard-workspace.ts:107-113`) and a seed table a sort that stops
  before its `DROP` (`142-153`); the export's has a fixed name, so later exports fail.
- The hex pane shows a read error for a late failure of a disposed cache; a failed read of an evicted page in view is silent; every window
  update applies the automatic file switch again (`Workbench.svelte:536-543`).
- Cancelling a divider that is no longer the one dragged cancels the other's drag.
- A value its column cannot hold throws only when its chunk is sealed (`batch.ts:75-84`), rows later.

## 7. Plan

1. *(done)* Parse protocol, its type and single-run theorems.
2. *(done)* Ingest session, atomicity, intake.
3. *(done)* Query sessions and their pages, against an abstract result.
4. *(done)* Database owner: exclusion of queries, sorts, exports and ingests, cancellation, disposal; the sort and export
   writers with their cleanup retries.
5. *(done)* Result session, sorter and exporter over the owner: the fences of query, sort and export tokens.
6. *(done)* CSV export protocol and destinations; query library.
7. *(done)* Stream reassembly, pack driver and emitter, capture framing; hex view and byte index; panel layout.
8. *(done)* Proofs of every safety property of the parse protocol and of the database, of every safety property of the ingest
   driven by one caller, and of its refinement; that chunks keep files apart where calls overlap.
9. *(done)* Proofs about results: the page store's accounting, the session and its refinement of `PagedResult`; the order, the freshness
   and the backing of what the family shows.
10. *(open)* Proofs of `IngestIsOwned`, `ReadyShowsCatalog` and `CountsFitTables` of the intake.

### Not modelled

- DuckDB, OPFS, IndexedDB and the browser themselves: external, modelled by how the code uses them.
- The projection compiler and the expression evaluator: functions from a specification to closures, without state
  that outlives a call; the emitter that calls them is modelled by their outcomes.
- ZIP framing: one pass over a file that is in memory. Of pcap, the dissection of packets; of MIDI, what the generated parser makes of an event.
- Runtime initialization, hardening, bundle choice, orphan sweeps of ingests and page stores at launch, and the failing `ROLLBACK` after a
  failing finalize, which needs the connection's transaction state.
- The audio viewer (flags around a library), Svelte components other than what feeds the hex pane, styles, and the `byteql`
  crate, which reserves a name.
- Copying and drag-selection in the hex pane, `observePanelMetrics`, column statistics, error wording.
