---------------------------- MODULE ShardWorkspace ----------------------------
(***************************************************************************)
(* Sorting a result into a stored view (sort-result.ts) and writing one as a    *)
(* Parquet file (export-parquet.ts), through the scratch both use                *)
(* (shard-workspace.ts) and the files it owns (export-files.ts).                  *)
(*                                                                         *)
(* One job at a time, as the slots of browser.ts see to it; each awaited call is a *)
(* step that succeeds or fails, and the signal may abort between any two.  What a   *)
(* job holds outside memory is in held: the lock and the directory of its files,    *)
(* its connection, the paths registered with the database and its page store.       *)
(* A row is <<key, position>>, the position being where the query put it.            *)
(***************************************************************************)
EXTENDS Integers, Sequences, FiniteSets, SequencesExt

CONSTANTS
    Bases,      \* the results there may be: sequences of pages of keys
    Null,       \* the key of a row that has none
    MaxJobs,    \* bound: sorts and exports
    Directions, \* bound: the direction of each, if it is a sort
    MaxCleanups, \* bound: releases of a job that fail
    PageRows    \* QUERY_PAGE_ROWS

\* Of the constants; assumed by the module that instantiates this one.
ShardWorkspaceAssumption ==
    {MaxJobs, MaxCleanups} \subseteq Nat /\ Directions \in [1..MaxJobs -> {"asc", "desc"}] /\ PageRows \in Nat \ {0}

VARIABLES
    base,     \* the loaded result: its pages of rows
    job,      \* the sort or export under way: the call it waits for, what it reads
    held,     \* what is held outside memory, as <<job, kind, number>>
    retries,  \* cleanupRetries of the database
    stage,    \* the rows of each kind of staging table, or NoTable
    seeds,    \* the seed tables there are
    shards,   \* the rows of each shard
    output,   \* the pages written to the page store, or to the exported file
    views     \* of each job: what it returned

workspaceVars == <<base, job, held, retries, stage, seeds, shards, output, views>>
LOCAL data    == <<stage, seeds, shards, output>>
LOCAL outside == <<held, retries>>

Jobs    == 1..MaxJobs
NoTable == <<<<>>>>  \* a row without columns, which no table has
NoView  == [at |-> "none", kind |-> "none", direction |-> "none", source |-> <<>>, pages |-> <<>>]
Idle    == [n |-> 0, kind |-> "none", direction |-> "none", at |-> "idle", source |-> <<>>,
            page |-> 0, aborted |-> FALSE, error |-> "none", cleanups |-> 0, unreleased |-> {}]

\* A result with the given pages of keys.
Paged(keys) ==
    LET start(k) == SumFunction([j \in 1..(k - 1) |-> Len(keys[j])])
    IN  [k \in DOMAIN keys |->
           [start |-> start(k), rows |-> [i \in DOMAIN keys[k] |-> <<keys[k][i], start(k) + i>>]]]

Rows(pages) == FlattenSeq([k \in DOMAIN pages |-> pages[k].rows])

Init ==
    /\ \E keys \in Bases : base = Paged(keys)
    /\ job = Idle /\ held = {} /\ retries = {}
    /\ stage = [sort |-> NoTable, export |-> NoTable] /\ seeds = {} /\ shards = <<>> /\ output = <<>>
    /\ views = [n \in Jobs |-> NoView]

-----------------------------------------------------------------------------
(* The order of rows.                                                      *)

\* A bug to be caught: rows are numbered within their page.
OrdinalOnPage(page, i) == i

\* The ordinal snapshotPage gives the i-th row of a page.
Ordinal(page, i) == page.start + i

snapshotPage(page) ==
    [i \in DOMAIN page.rows |-> page.rows[i] \o <<Ordinal(page, i)>>]

\* ORDER BY of buildResultSortSql, and of the statement that ends an export.
KeyBefore(direction, a, b) ==
    \/ b = Null
    \/ a # Null /\ (IF direction = "asc" THEN a < b ELSE a > b)

RowBefore(r, s) ==
    \/ job.kind = "sort" /\ r[1] # s[1] /\ KeyBefore(job.direction, r[1], s[1])
    \/ (job.kind = "export" \/ r[1] = s[1]) /\ r[3] < s[3]

\* What the statement over every shard yields.
Scanned ==
    LET rows == SortSeq(FlattenSeq(shards), RowBefore)
    IN  [k \in DOMAIN rows |-> SubSeq(rows[k], 1, 2)]

-----------------------------------------------------------------------------
(* The steps of a job.                                                     *)

Mine(kind, k) == <<job.n, kind, k>>
MinePaths     == {h \in held : h[1] = job.n /\ h[2] \in {"path", "result"}}
Staged        == stage[job.kind]
Stage(rows)   == stage' = [stage EXCEPT ![job.kind] = rows]

Goes(at)      == job' = [job EXCEPT !.at = at]
Fails(error)  == job' = [job EXCEPT !.at = "close", !.error = error]
\* signal.throwIfAborted() before the next call.
Checked(at)   == IF job.aborted THEN Fails("abort") ELSE Goes(at)
\* A call that rejects.
Rejects       == Fails(IF job.aborted THEN "abort" ELSE "fail")

\* A release that rejects is counted; a sort queues it to be tried again.
Queued(h)     == retries' = IF job.kind = "sort" THEN retries \cup {h} ELSE retries
MayFail       == job.cleanups < MaxCleanups
NotReleased(h) ==
    /\ MayFail /\ Queued(h) /\ UNCHANGED held
    /\ job' = [job EXCEPT !.cleanups = @ + 1, !.unreleased = @ \cup {h}]

Settles(view) ==
    /\ job' = [Idle EXCEPT !.n = job.n]
    /\ views' = [views EXCEPT ![job.n] = view]

Ended(cleanups) == [NoView EXCEPT !.at = IF cleanups = 0 THEN "failed" ELSE "unreleased", !.kind = job.kind]

Returned == [at |-> "live", kind |-> job.kind, direction |-> job.direction,
             source |-> job.source, pages |-> output]

\* sortResult of the loaded result, and exportParquet of it or of a sorted view; what can be
\* refused is refused before anything is acquired.
Starts ==
    /\ job.at = "idle" /\ job.n < MaxJobs
    /\ \E kind \in {"sort", "export"}, n \in 0..job.n :
         /\ kind = "sort" => n = 0
         /\ n > 0 => views[n].at = "live" /\ views[n].kind = "sort"
         /\ job' = [job EXCEPT !.n = @ + 1, !.kind = kind, !.direction = Directions[job.n + 1], !.at = "lock",
                     !.source = IF n = 0 THEN base ELSE views[n].pages]
    /\ stage' = [stage EXCEPT !.sort = NoTable] /\ shards' = <<>> /\ output' = <<>>
    /\ UNCHANGED <<base, seeds, views, outside>>

Aborts ==
    /\ job.at # "idle" /\ ~job.aborted
    /\ job' = [job EXCEPT !.aborted = TRUE]
    /\ UNCHANGED <<base, views, outside, data>>

\* holdLock: nothing is made before the lock is held.
Locked ==
    /\ job.at = "lock"
    /\ \/ Goes("directory") /\ held' = held \cup {Mine("lock", 0)} /\ UNCHANGED views
       \/ Settles(Ended(0)) /\ UNCHANGED held
    /\ UNCHANGED <<base, retries, data>>

\* The directories no tab holds the lock of.
Unlocked == {h \in held : h[2] = "directory" /\ <<h[1], "lock", 0>> \notin held}

\* createExportFiles sweeps what others left, as far as it can; a setup that fails takes its
\* own directory and lock back.
DirectoryMade ==
    /\ job.at = "directory"
    /\ \/ \E swept \in SUBSET Unlocked :
            /\ held' = (held \cup {Mine("directory", 0)}) \ swept
            /\ IF job.kind = "sort" THEN Checked("connect") ELSE Goes("connect")
            /\ UNCHANGED views
       \/ /\ Settles(Ended(0))
          /\ \E left \in SUBSET {Mine("directory", 0)} : held' = (held \ {Mine("lock", 0)}) \cup left
    /\ UNCHANGED <<base, retries, data>>

\* A bug to be caught: a job that gets no connection keeps its files.
ConnectedOrGone ==
    /\ job.at = "connect"
    /\ \/ /\ held' = held \cup {Mine("connection", 0)}
          /\ IF job.kind = "sort" THEN Checked("store") ELSE Goes("page")
          /\ UNCHANGED views
       \/ Settles(Ended(0)) /\ UNCHANGED held
    /\ UNCHANGED <<base, retries, data>>

Connected ==
    /\ job.at = "connect"
    /\ \/ /\ held' = held \cup {Mine("connection", 0)}
          /\ IF job.kind = "sort" THEN Checked("store") ELSE Goes("page")
       \/ Rejects /\ UNCHANGED held
    /\ UNCHANGED <<base, views, retries, data>>

StoreCreated ==
    /\ job.at = "store"
    /\ \/ held' = held \cup {Mine("store", 0)} /\ Checked("page")
       \/ Rejects /\ UNCHANGED held
    /\ UNCHANGED <<base, views, retries, data>>

\* The head of the page loops of stage() and writeShardsAndResult; an export of no page
\* writes one empty shard.
NextPage ==
    /\ job.at = "page"
    /\ IF job.page < Len(job.source)
       THEN job' = IF job.aborted THEN [job EXCEPT !.at = "close", !.error = "abort"]
                   ELSE [job EXCEPT !.at = "read", !.page = @ + 1]
       ELSE IF job.kind = "export" /\ job.source = <<>> /\ shards = <<>>
       THEN Checked("insert")
       ELSE IF shards = <<>> THEN Rejects
       ELSE Checked(IF job.kind = "sort" THEN "rows" ELSE "output")
    /\ UNCHANGED <<base, views, outside, data>>

PageRead ==
    /\ job.at = "read"
    /\ \/ Checked(IF job.kind = "sort" /\ Staged = NoTable THEN "seed" ELSE "insert")
       \/ Rejects
    /\ UNCHANGED <<base, views, outside, data>>

\* The staging table of a sort is made once, after an empty table that gives its columns.
Seeded ==
    /\ job.at = "seed"
    /\ \/ seeds' = seeds \cup {job.n} /\ Checked("create")
       \/ Rejects /\ UNCHANGED seeds
    /\ UNCHANGED <<base, views, outside, stage, shards, output>>

TableCreated ==
    /\ job.at = "create"
    /\ \/ Stage(<<>>) /\ Goes("unseed")
       \/ Rejects /\ UNCHANGED stage
    /\ UNCHANGED <<base, views, outside, seeds, shards, output>>

SeedDropped ==
    /\ job.at = "unseed"
    /\ \/ seeds' = seeds \ {job.n} /\ Goes("insert")
       \/ Rejects /\ UNCHANGED seeds
    /\ UNCHANGED <<base, views, outside, stage, shards, output>>

Page == IF job.page = 0 THEN [start |-> 0, rows |-> <<>>] ELSE job.source[job.page]

\* An export creates its table for each page, which fails where there is one.
Inserted ==
    /\ job.at = "insert"
    /\ \/ /\ job.kind = "sort" /\ Stage(Staged \o snapshotPage(Page)) /\ Checked("register")
       \/ /\ job.kind = "export" /\ Staged = NoTable
          /\ Stage(snapshotPage(Page)) /\ Goes("register")
       \/ Rejects /\ UNCHANGED stage
    /\ UNCHANGED <<base, views, outside, seeds, shards, output>>

Registered ==
    /\ job.at = "register"
    /\ \/ held' = held \cup {Mine("path", job.page)} /\ Goes("copy")
       \/ Rejects /\ UNCHANGED held
    /\ UNCHANGED <<base, views, retries, data>>

\* The statement that copies the table to the shard, between two looks at the signal; an
\* export drops its table whether or not that succeeded.
Copied ==
    /\ job.at = "copy"
    /\ \/ ~job.aborted /\ shards' = Append(shards, Staged) /\ Goes("clear")
       \/ /\ IF job.kind = "sort" THEN Rejects
             ELSE job' = [job EXCEPT !.at = "clear", !.error = IF job.aborted THEN "abort" ELSE "fail"]
          /\ UNCHANGED shards
    /\ UNCHANGED <<base, views, outside, stage, seeds, output>>

Cleared ==
    /\ job.at = "clear"
    /\ \/ /\ Stage(IF job.kind = "sort" THEN <<>> ELSE NoTable)
          /\ IF job.error = "none" THEN Goes("page") ELSE Goes("close")
       \/ Rejects /\ UNCHANGED stage
    /\ UNCHANGED <<base, views, outside, seeds, shards, output>>

-----------------------------------------------------------------------------
(* The ordered rows.                                                       *)

\* storeBatch: the batches of the reader, cut into pages of at most PageRows; a batch may
\* be shorter.
PageStored ==
    /\ job.at = "rows" /\ ~job.aborted
    /\ LET done == Len(Rows(output)) IN
       \E n \in 1..PageRows :
         /\ done + n <= Len(Scanned)
         /\ output' = Append(output, [start |-> done, rows |-> SubSeq(Scanned, done + 1, done + n)])
    /\ UNCHANGED <<base, job, views, outside, stage, seeds, shards>>

\* The end of the reader, and the count of its rows.
RowsEnded ==
    /\ job.at = "rows"
    /\ \/ /\ Len(Rows(output)) = Len(Scanned)
          /\ IF Len(Rows(output)) = Len(Rows(job.source)) THEN Checked("close") ELSE Rejects
       \/ Rejects
    /\ UNCHANGED <<base, views, outside, data>>

\* The exported file is registered and written by one statement.
OutputRegistered ==
    /\ job.at = "output"
    /\ \/ held' = held \cup {Mine("result", 0)} /\ Checked("write")
       \/ Rejects /\ UNCHANGED held
    /\ UNCHANGED <<base, views, retries, data>>

OutputWritten ==
    /\ job.at = "write"
    /\ \/ output' = <<[start |-> 0, rows |-> Scanned]>> /\ Checked("close")
       \/ Rejects /\ UNCHANGED output
    /\ UNCHANGED <<base, views, outside, stage, seeds, shards>>

-----------------------------------------------------------------------------
(* Release.                                                                *)

\* releaseHandles: the connection first, then every path, whatever fails.
Closed ==
    /\ job.at = "close"
    /\ LET connection == Mine("connection", 0) IN
       \/ held' = held \ {connection} /\ Goes("drop") /\ UNCHANGED retries
       \/ /\ connection \in held /\ MayFail /\ Queued(connection) /\ UNCHANGED held
          /\ job' = [job EXCEPT !.at = "drop", !.cleanups = @ + 1]
    /\ UNCHANGED <<base, views, data>>

PathDropped ==
    /\ job.at = "drop"
    /\ \E h \in MinePaths \ job.unreleased :
         \/ held' = held \ {h} /\ UNCHANGED <<job, retries>>
         \/ NotReleased(h)
    /\ UNCHANGED <<base, views, data>>

\* An export goes on to its file, unless a handle was not released.
HandlesReleased ==
    /\ job.at = "drop" /\ MinePaths \subseteq job.unreleased
    /\ job' = IF job.kind = "sort" \/ job.error # "none" THEN [job EXCEPT !.at = "files"]
              ELSE IF job.cleanups > 0 \/ job.aborted THEN [job EXCEPT !.at = "files", !.error = "fail"]
              ELSE [job EXCEPT !.at = "file"]
    /\ UNCHANGED <<base, views, outside, data>>

\* The files now belong to what is returned.
FileOpened ==
    /\ job.at = "file"
    /\ \/ ~job.aborted /\ Settles(Returned)
       \/ job' = [job EXCEPT !.at = "files", !.error = "fail"] /\ UNCHANGED views
    /\ UNCHANGED <<base, outside, data>>

\* OpfsExportFiles.dispose: the directory, then the lock whatever became of it.
FilesGo(n) ==
    LET files == {<<n, "directory", 0>>, <<n, "lock", 0>>} IN
    {held \ files, held \ {<<n, "lock", 0>>}}

\* The end of a sort hands its store to the view, unless a release failed; abandon() and a sort
\* cancelled meanwhile dispose of it.
FilesDisposed ==
    /\ job.at = "files"
    /\ held' \in FilesGo(job.n) /\ (Mine("directory", 0) \in held' => MayFail)
    /\ LET failed   == IF Mine("directory", 0) \in held' THEN 1 ELSE 0
           cleanups == job.cleanups + failed
       IN  /\ IF failed = 1 THEN Queued(Mine("directory", 0)) ELSE UNCHANGED retries
           /\ IF job.kind = "sort" /\ job.error = "none" /\ cleanups = 0 /\ ~job.aborted
              THEN Settles(Returned)
              ELSE IF Mine("store", 0) \in held
              THEN job' = [job EXCEPT !.at = "unstore", !.cleanups = cleanups] /\ UNCHANGED views
              ELSE Settles(Ended(cleanups))
    /\ UNCHANGED <<base, data>>

StoreDisposed ==
    /\ job.at = "unstore"
    /\ LET replaced == job.error = "none" /\ job.cleanups = 0
           store    == Mine("store", 0)
       IN  \/ held' = held \ {store} /\ UNCHANGED retries /\ Settles(Ended(job.cleanups))
           \/ /\ MayFail /\ UNCHANGED held
              /\ IF replaced THEN Settles([NoView EXCEPT !.at = "disposed"]) /\ UNCHANGED retries
                 ELSE Settles(Ended(job.cleanups + 1)) /\ Queued(store)
    /\ UNCHANGED <<base, data>>

\* The owner of an exported file is done with it.
ArtifactDisposed ==
    /\ \E n \in Jobs :
         /\ views[n].at = "live" /\ views[n].kind = "export"
         /\ held' \in FilesGo(n)
         /\ views' = [views EXCEPT ![n] = [NoView EXCEPT !.at = "disposed"]]
    /\ UNCHANGED <<base, job, retries, data>>

\* A retry waits for the promise of the first attempt where that is kept.
RetriedAgain(h) == h[2] \in {"connection", "path"}

\* retireDerivedViews: every view is disposed and every queued release tried again.
Retires ==
    /\ job.at = "idle"
    /\ LET live == {n \in Jobs : views[n].at = "live" /\ views[n].kind = "sort"} IN
       \E disposed \in SUBSET {<<n, "store", 0>> : n \in live},
          done \in SUBSET {h \in retries : RetriedAgain(h)} :
         /\ live # {} \/ done # {}
         /\ views' = [n \in Jobs |-> IF n \in live THEN [NoView EXCEPT !.at = "disposed"] ELSE views[n]]
         /\ held' = held \ (disposed \cup done) /\ retries' = retries \ done
    /\ UNCHANGED <<base, job, data>>

\* Another tab collects a directory no lock protects.
OtherTabSweeps ==
    /\ \E h \in Unlocked : held' = held \ {h}
    /\ UNCHANGED <<base, job, views, retries, data>>

Steps ==
    \/ Locked \/ DirectoryMade \/ Connected \/ StoreCreated \/ NextPage \/ PageRead
    \/ Seeded \/ TableCreated \/ SeedDropped \/ Inserted \/ Registered \/ Copied \/ Cleared
    \/ PageStored \/ RowsEnded \/ OutputRegistered \/ OutputWritten
    \/ Closed \/ PathDropped \/ HandlesReleased \/ FileOpened \/ FilesDisposed \/ StoreDisposed

Next == Starts \/ Aborts \/ Steps \/ ArtifactDisposed \/ Retires \/ OtherTabSweeps

Spec == Init /\ [][Next]_workspaceVars /\ WF_workspaceVars(Steps)

-----------------------------------------------------------------------------
(* Properties.                                                             *)

Before(v, r, s) ==
    IF v.kind = "export" \/ r[1] = s[1] THEN TRUE
    ELSE s[1] = Null \/ (r[1] # Null /\ (IF v.direction = "asc" THEN r[1] < s[1] ELSE r[1] > s[1]))

\* A sorted view holds the rows of the result in the order of its column, equal ones as the
\* query gave them; an exported file holds the rows of its source, in their order
\* (sort-result.ts:146-193, export-parquet.ts:56-91).
ResultIsOrdered ==
    \A n \in Jobs : views[n].at = "live" =>
      LET v == views[n]  rows == Rows(v.pages)  source == Rows(v.source) IN
      IF v.kind = "export" THEN rows = source
      ELSE /\ ToSet(rows) = ToSet(source) /\ Len(rows) = Len(source)
           /\ \A i, j \in DOMAIN rows : i < j =>
                /\ Before(v, rows[i], rows[j])
                /\ rows[i][1] = rows[j][1] => rows[i][2] < rows[j][2]

Owned(n) ==
    IF views[n].kind = "sort" THEN {<<n, "store", 0>>} ELSE {<<n, "directory", 0>>, <<n, "lock", 0>>}

\* A job that has settled holds what its view owns and nothing else, but for a release that
\* failed: a sort has queued that one, an export has said so, and a directory is left where
\* the next job or another tab collects it (shard-workspace.ts:256-276, sort-result.ts:209-214).
JobsHoldNothing ==
    \A n \in Jobs : n # job.n \/ job.at = "idle" =>
      LET mine == {h \in held : h[1] = n} IN
      CASE views[n].at = "live" -> mine = Owned(n)
        [] views[n].at = "unreleased" /\ views[n].kind = "sort" -> mine \subseteq retries \cup Unlocked
        [] views[n].at = "disposed" -> mine \subseteq {<<n, "store", 0>>} \cup Unlocked
        [] views[n].at \in {"failed", "none"} -> mine \subseteq Unlocked
        [] OTHER -> <<n, "lock", 0>> \notin held

\* The files of a job, and those of an exported file, are never collected while they are in
\* use (export-files.ts:163-180).
FilesAreProtected ==
    \A n \in Jobs :
      \/ n = job.n /\ job.at \notin {"idle", "lock", "directory", "unstore"}
      \/ views[n].at = "live" /\ views[n].kind = "export"
      => {<<n, "directory", 0>>, <<n, "lock", 0>>} \subseteq held

\* A job that has returned its result has left no table.  The others may: a failure after a
\* seed is made and before it is dropped leaves the seed (shard-workspace.ts:145-151); one of
\* register(), which comes before the try that the drop follows, or of the drop itself leaves
\* the table of an export's page (shard-workspace.ts:105-123).
TablesLeftByFailures ==
    LET failed(n) == views[n].at \in {"failed", "unreleased"} IN
    /\ \A n \in seeds : n # job.n \/ job.at = "idle" => failed(n)
    /\ stage.export # NoTable =>
         \/ job.at # "idle" /\ job.kind = "export"
         \/ \E n \in Jobs : failed(n) /\ views[n].kind = "export"

\* What jobs leave is accounted for: handles and files are owned, queued for a retry or
\* collected, and a table is left only by a job that failed.
NothingStranded == JobsHoldNothing /\ FilesAreProtected /\ TablesLeftByFailures

=============================================================================
