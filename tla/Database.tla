------------------------------- MODULE Database -------------------------------
(***************************************************************************)
(* Who owns the database: BrowserDatabase over the operation queue of          *)
(* DuckdbRuntime.  Queries, sorts of a result, exports, ingests, cancellations *)
(* and disposal are called at any time; each is a coroutine whose steps run    *)
(* from one await to the next, some of them inside the queue, one at a time.   *)
(*                                                                         *)
(* A call is its number.  A query that opens becomes a session of that number, *)
(* a sort that succeeds a view of that number.  What a session does inside is  *)
(* QuerySession, what an ingest does IngestSession; here a session opens,      *)
(* completes, closes and is closed, and an ingest opens and settles.           *)
(***************************************************************************)
EXTENDS Naturals, Sequences, FiniteSets, SequencesExt

CONSTANTS
    MaxCalls,     \* bound: calls of the database
    Repeated      \* bound: the kinds of which there may be several calls

Kinds == {"query", "sort", "export", "ingest", "cancel"}

ASSUME DatabaseAssumption == MaxCalls \in Nat /\ Repeated \subseteq Kinds

Calls == 1..MaxCalls
None == 0

VARIABLES
    \* the calls made
    kind,           \* per call
    at,             \* where its coroutine waits
    joins,          \* calls whose settlement it awaits
    source,         \* the result a sort or an export reads
    \* BrowserDatabase
    pendingQuery, activeQuery, sortSlot, exportSlot,
    cancelRequested,  \* tokens of queries cancelled before they opened
    aborted,        \* sorts and exports whose signal is aborted
    derivedViews,   \* registered views: those of the sorts that published one
    ingestStarting, activeIngest,
    disposal,       \* where disposeInternal waits, or "no"
    disposeJoins,   \* calls it awaits
    \* DuckdbRuntime
    queue,          \* operations not settled; the first one runs
    \* the sessions of the queries
    session,        \* per query: "none", "open" or "closing"
    complete        \* open sessions whose every row is stored

callVars     == <<kind, at, joins, source>>
slotVars     == <<pendingQuery, activeQuery, sortSlot, exportSlot>>
tokenVars    == <<cancelRequested, aborted>>
ingestVars   == <<ingestStarting, activeIngest>>
disposeVars  == <<disposal, disposeJoins>>
resultVars   == <<session, complete, derivedViews>>
vars == <<callVars, slotVars, tokenVars, ingestVars, disposeVars, queue, resultVars>>

Init ==
    /\ kind = [c \in Calls |-> "none"] /\ at = [c \in Calls |-> "none"]
    /\ joins = [c \in Calls |-> {}] /\ source = [c \in Calls |-> None]
    /\ pendingQuery = None /\ activeQuery = None /\ sortSlot = None /\ exportSlot = None
    /\ cancelRequested = {} /\ aborted = {} /\ derivedViews = {}
    /\ ingestStarting = FALSE /\ activeIngest = None
    /\ disposal = "no" /\ disposeJoins = {}
    /\ queue = << >>
    /\ session = [c \in Calls |-> "none"] /\ complete = {}

-----------------------------------------------------------------------------
(* Helpers.                                                                *)

Disposed == disposal # "no"
Done(c) == at[c] = "done"
AllDone(S) == \A c \in S : Done(c)
AllClosed(S) == \A q \in S : session[q] = "none"
Running(c) == queue # << >> /\ Head(queue) = c

\* The call in the slot, if any.
In(slot) == {slot} \ {None}

\* The coroutine of c goes on to wait there, for the calls or sessions in S.
GoesJoining(c, where, S) ==
    at' = [at EXCEPT ![c] = where] /\ joins' = [joins EXCEPT ![c] = S]
Goes(c, where) == GoesJoining(c, where, {})

\* abortExclusive: the call in the slot is aborted; its settlement is joined by
\* whoever aborts.
Abort(S) == aborted' = aborted \cup S

\* cancelPendingQuery of the query whose operation has not settled.
CancelPending == cancelRequested' = cancelRequested \cup In(pendingQuery)

\* A session begins to close, by whoever closes it first.
Closing(S) == [c \in Calls |-> IF c \in S /\ session[c] = "open" THEN "closing" ELSE session[c]]

\* assertSortableBase and assertExportableResult: the status of a session that is
\* closing cannot be read.
Complete(q) == session[q] = "open" /\ q \in complete
Sortable(q) == q # None /\ activeQuery = q /\ pendingQuery = None /\ Complete(q)

\* A bug to be caught: an export is accepted while a query is pending.
ExportableWhilePending(r) ==
    /\ sortSlot = None
    /\ activeQuery # None
    /\ r = activeQuery \/ (r \in derivedViews /\ source[r] = activeQuery)
    /\ r = activeQuery => Complete(r)

Exportable(r) ==
    /\ pendingQuery = None /\ sortSlot = None
    /\ activeQuery # None
    /\ r = activeQuery \/ (r \in derivedViews /\ source[r] = activeQuery)
    /\ r = activeQuery => Complete(r)

-----------------------------------------------------------------------------
(* The calls.                                                              *)

\* The next call is c, of kind k.
Calling(c, k) ==
    /\ c = Cardinality({d \in Calls : kind[d] # "none"}) + 1
    /\ k \in Repeated \/ \A d \in Calls : kind[d] # k
    /\ kind' = [kind EXCEPT ![c] = k]

\* startQuery: the query before it is cancelled and the sort and the export are
\* aborted at once, and joined once the operation runs.
StartQuery(c) ==
    /\ ~Disposed /\ Calling(c, "query")
    /\ CancelPending /\ Abort(In(sortSlot) \cup In(exportSlot))
    /\ pendingQuery' = c
    /\ queue' = Append(queue, c)
    /\ GoesJoining(c, "queued", In(sortSlot) \cup In(exportSlot))
    /\ UNCHANGED <<source, activeQuery, sortSlot, exportSlot, ingestVars, disposeVars,
                   resultVars>>

CreateSortedView(c) ==
    /\ ~Disposed /\ Calling(c, "sort")
    /\ sortSlot = None /\ Sortable(activeQuery)
    /\ sortSlot' = c /\ source' = [source EXCEPT ![c] = activeQuery]
    /\ queue' = Append(queue, c)
    /\ Goes(c, "queued")
    /\ UNCHANGED <<pendingQuery, activeQuery, exportSlot, tokenVars, ingestVars,
                   disposeVars, resultVars>>

ExportParquet(c) ==
    /\ ~Disposed /\ Calling(c, "export")
    /\ exportSlot = None
    /\ \E r \in Calls :
          Exportable(r) /\ source' = [source EXCEPT ![c] = r]
    /\ exportSlot' = c
    /\ queue' = Append(queue, c)
    /\ Goes(c, "queued")
    /\ UNCHANGED <<pendingQuery, activeQuery, sortSlot, tokenVars, ingestVars,
                   disposeVars, resultVars>>

BeginIngest(c) ==
    /\ ~Disposed /\ Calling(c, "ingest")
    /\ activeIngest = None /\ ~ingestStarting
    /\ ingestStarting' = TRUE
    /\ Abort(In(sortSlot))
    /\ GoesJoining(c, "abortSort", In(sortSlot))
    /\ UNCHANGED <<source, slotVars, cancelRequested, activeIngest, disposeVars, queue,
                   resultVars>>

CancelQuery(c) ==
    /\ ~Disposed /\ Calling(c, "cancel")
    /\ Abort(In(sortSlot))
    /\ GoesJoining(c, "abortSort", In(sortSlot))
    /\ UNCHANGED <<source, slotVars, cancelRequested, ingestVars, disposeVars, queue,
                   resultVars>>

\* The owner of a sort or an export aborts it.
AbortCall(c) ==
    /\ c \in In(sortSlot) \cup In(exportSlot) /\ c \notin aborted
    /\ Abort({c})
    /\ UNCHANGED <<callVars, slotVars, cancelRequested, ingestVars, disposeVars, queue,
                   resultVars>>

\* The owner of a result closes it.
CloseResult(c) ==
    /\ \/ session[c] = "open" /\ session' = Closing({c}) /\ UNCHANGED derivedViews
       \/ c \in derivedViews /\ derivedViews' = derivedViews \ {c} /\ UNCHANGED session
    /\ UNCHANGED <<callVars, slotVars, tokenVars, ingestVars, disposeVars, queue, complete>>

-----------------------------------------------------------------------------
(* The queue.                                                              *)

\* An operation settles: its result is promised, and its slot is cleared, and its
\* token gone, by the `finally` behind it before the next operation starts.
Resolves(c) == Goes(c, "resolved")

\* A bug to be caught: a query that settles clears the token of a later one.
AfterQueryAny(c) == IF kind[c] = "query" THEN None ELSE pendingQuery

AfterQuery(c) == IF pendingQuery = c THEN None ELSE pendingQuery

Settle(c) ==
    /\ at[c] = "resolved" /\ Running(c)
    /\ Goes(c, "done")
    /\ queue' = Tail(queue)
    /\ pendingQuery' = AfterQuery(c)
    /\ sortSlot' = IF sortSlot = c THEN None ELSE sortSlot
    /\ exportSlot' = IF exportSlot = c THEN None ELSE exportSlot
    /\ cancelRequested' = cancelRequested \ {c} /\ aborted' = aborted \ {c}
    /\ UNCHANGED <<kind, source, activeQuery, ingestVars, disposeVars, resultVars>>

\* The first operation runs, and is refused after disposal.
OperationRefused(c) ==
    /\ Running(c) /\ at[c] = "queued" /\ Disposed
    /\ Resolves(c)
    /\ UNCHANGED <<kind, source, slotVars, tokenVars, ingestVars, disposeVars, queue,
                   resultVars>>

\* A bug to be caught: a query is admitted while an ingest is about to open.
BarredOnceOpen(c) == c \in cancelRequested \/ activeIngest # None

Barred(c) == c \in cancelRequested \/ activeIngest # None \/ ingestStarting

\* A query joins what its call has aborted, and is admitted if it has not been
\* cancelled and no ingest is open or starting.
QueryAdmitted(c) ==
    /\ kind[c] = "query" /\ Running(c) /\ at[c] = "queued" /\ ~Disposed
    /\ AllDone(joins[c])
    /\ IF Barred(c)
       THEN Resolves(c) /\ UNCHANGED aborted
       ELSE Abort(In(exportSlot)) /\ GoesJoining(c, "closeExport", In(exportSlot))
    /\ UNCHANGED <<kind, source, slotVars, cancelRequested, ingestVars, disposeVars, queue,
                   resultVars>>

\* closeActiveQuery, in the operation of a query or in beginIngest: the export is
\* joined, the views of the active session are disposed of, and the session is
\* closed.
RetireViews(c) ==
    /\ at[c] = "closeExport" /\ AllDone(joins[c])
    /\ derivedViews' = {v \in derivedViews : activeQuery # None /\ source[v] # activeQuery}
    /\ GoesJoining(c, "retire", In(activeQuery))
    /\ UNCHANGED <<kind, source, slotVars, tokenVars, ingestVars, disposeVars, queue,
                   session, complete>>

CloseSession(c) ==
    /\ at[c] = "retire"
    /\ session' = Closing(joins[c])
    /\ GoesJoining(c, "close", joins[c])
    /\ UNCHANGED <<kind, source, slotVars, tokenVars, ingestVars, disposeVars, queue,
                   complete, derivedViews>>

SessionClosed(c) == at[c] = "close" /\ AllClosed(joins[c])

\* The query goes on: its scratch is created, its SQL is sent and its session
\* made, each of which may fail, and each time a cancellation is honoured.
NextStep == [close |-> "persist", persist |-> "send", send |-> "create"]

QueryProceeds(c) ==
    /\ kind[c] = "query"
    /\ SessionClosed(c) \/ at[c] \in {"persist", "send"}
    /\ \/ c \notin cancelRequested /\ ~(at[c] = "persist" /\ Disposed) /\ Goes(c, NextStep[at[c]])
       \/ Resolves(c)
    /\ UNCHANGED <<kind, source, slotVars, tokenVars, ingestVars, disposeVars, queue,
                   resultVars>>

QueryOpens(c) ==
    /\ kind[c] = "query" /\ at[c] = "create" /\ c \notin cancelRequested
    /\ activeQuery' = c
    /\ session' = [session EXCEPT ![c] = "open"]
    /\ Resolves(c)
    /\ UNCHANGED <<kind, source, pendingQuery, sortSlot, exportSlot, tokenVars,
                   ingestVars, disposeVars, queue, complete, derivedViews>>

\* A query cancelled while its session was made closes that session; one whose
\* session could not be made has none.
QueryAbandons(c) ==
    /\ kind[c] = "query" /\ at[c] = "create" /\ c \in cancelRequested
    /\ session' = [session EXCEPT ![c] = "closing"]
    /\ GoesJoining(c, "abandon", {c})
    /\ UNCHANGED <<kind, source, slotVars, tokenVars, ingestVars, disposeVars, queue,
                   complete, derivedViews>>

QueryNotOpened(c) ==
    /\ kind[c] = "query"
    /\ at[c] = "create" \/ (at[c] = "abandon" /\ session[c] = "none")
    /\ Resolves(c)
    /\ UNCHANGED <<kind, source, slotVars, tokenVars, ingestVars, disposeVars, queue,
                   resultVars>>

\* A sort or an export looks again at its source before it reads it.
MayRead(c) ==
    c \notin aborted
    /\ IF kind[c] = "sort" THEN Sortable(source[c]) ELSE Exportable(source[c])

Reads(c) ==
    /\ kind[c] \in {"sort", "export"} /\ Running(c) /\ at[c] = "queued" /\ ~Disposed
    /\ IF MayRead(c) THEN Goes(c, "writing") ELSE Resolves(c)
    /\ UNCHANGED <<kind, source, slotVars, tokenVars, ingestVars, disposeVars, queue,
                   resultVars>>

\* A sort ends: its view is registered, unless it was aborted or its result has
\* been replaced meanwhile; then, as when writing fails, nothing is left of it.
Replaced(c) ==
    c \in aborted \/ Disposed \/ sortSlot # c \/ activeQuery # source[c]

Publishes(c) ==
    /\ kind[c] = "sort" /\ at[c] = "writing" /\ ~Replaced(c)
    /\ derivedViews' = derivedViews \cup {c}
    /\ Resolves(c)
    /\ UNCHANGED <<kind, source, slotVars, tokenVars, ingestVars, disposeVars, queue,
                   session, complete>>

\* An export ends, or a sort that publishes nothing.
Written(c) ==
    /\ kind[c] \in {"sort", "export"} /\ at[c] = "writing"
    /\ Resolves(c)
    /\ UNCHANGED <<kind, source, slotVars, tokenVars, ingestVars, disposeVars, queue,
                   resultVars>>

-----------------------------------------------------------------------------
(* beginIngest and cancelQuery, outside the queue.                         *)

\* Both go on to the export once the sort they aborted has settled.
AbortsExport(c) ==
    /\ at[c] = "abortSort" /\ AllDone(joins[c])
    /\ Abort(In(exportSlot)) /\ GoesJoining(c, "abortExport", In(exportSlot))
    /\ UNCHANGED <<kind, source, slotVars, cancelRequested, ingestVars, disposeVars, queue,
                   resultVars>>

ExportSettled(c) == at[c] = "abortExport" /\ AllDone(joins[c])

\* cancelQuery: the pending query is cancelled, or else the current session.
Cancels(c) ==
    /\ kind[c] = "cancel" /\ ExportSettled(c)
    /\ CancelPending
    /\ LET closed == IF pendingQuery = None THEN In(activeQuery) ELSE {}
       IN  session' = Closing(closed) /\ GoesJoining(c, "close", closed)
    /\ UNCHANGED <<kind, source, slotVars, aborted, ingestVars, disposeVars, queue,
                   complete, derivedViews>>

Cancelled(c) ==
    /\ kind[c] = "cancel" /\ SessionClosed(c)
    /\ Goes(c, "done")
    /\ UNCHANGED <<kind, source, slotVars, tokenVars, ingestVars, disposeVars, queue,
                   resultVars>>

\* beginIngest: the pending query is cancelled, then the operations queued by
\* then are awaited.
IngestCancels(c) ==
    /\ kind[c] = "ingest" /\ ExportSettled(c) /\ pendingQuery # None
    /\ CancelPending /\ Goes(c, "cancelSent")
    /\ UNCHANGED <<kind, source, slotVars, aborted, ingestVars, disposeVars, queue,
                   resultVars>>

IngestWaits(c) ==
    /\ kind[c] = "ingest"
    /\ at[c] = "cancelSent" \/ (ExportSettled(c) /\ pendingQuery = None)
    /\ GoesJoining(c, "idle", ToSet(queue))
    /\ UNCHANGED <<kind, source, slotVars, tokenVars, ingestVars, disposeVars, queue,
                   resultVars>>

IngestCloses(c) ==
    /\ at[c] = "idle" /\ AllDone(joins[c]) /\ ~Disposed
    /\ Abort(In(exportSlot)) /\ GoesJoining(c, "closeExport", In(exportSlot))
    /\ UNCHANGED <<kind, source, slotVars, cancelRequested, ingestVars, disposeVars, queue,
                   resultVars>>

IngestOpens(c) ==
    /\ kind[c] = "ingest" /\ SessionClosed(c)
    /\ activeIngest' = c /\ ingestStarting' = FALSE
    /\ Goes(c, "done")
    /\ UNCHANGED <<kind, source, slotVars, tokenVars, disposeVars, queue, resultVars>>

\* The pending query could not be cancelled, the database was disposed of while it
\* waited, or the session closed with an error.
IngestRefused(c) ==
    /\ kind[c] = "ingest"
    /\ \/ at[c] = "cancelSent"
       \/ at[c] = "idle" /\ AllDone(joins[c]) /\ Disposed
       \/ SessionClosed(c) /\ joins[c] # {}
    /\ ingestStarting' = FALSE
    /\ Goes(c, "done")
    /\ UNCHANGED <<kind, source, slotVars, tokenVars, activeIngest, disposeVars, queue,
                   resultVars>>

\* onSettled: the ingest is finalized or aborted.
IngestSettles ==
    /\ activeIngest # None
    /\ activeIngest' = None
    /\ UNCHANGED <<callVars, slotVars, tokenVars, ingestStarting, disposeVars, queue, resultVars>>

-----------------------------------------------------------------------------
(* Sessions.                                                               *)

SessionCompletes(q) ==
    /\ session[q] = "open" /\ q \notin complete
    /\ complete' = complete \cup {q}
    /\ UNCHANGED <<callVars, slotVars, tokenVars, ingestVars, disposeVars, queue, session,
                   derivedViews>>

\* onDisposed of startQuery: a session that has closed is not the current one.
SessionCloses(q) ==
    /\ session[q] = "closing"
    /\ session' = [session EXCEPT ![q] = "none"] /\ complete' = complete \ {q}
    /\ activeQuery' = IF activeQuery = q THEN None ELSE activeQuery
    /\ UNCHANGED <<callVars, pendingQuery, sortSlot, exportSlot, tokenVars, ingestVars,
                   disposeVars, queue, derivedViews>>

-----------------------------------------------------------------------------
(* disposeInternal.                                                        *)

DisposeWaits(where, S) == disposal' = where /\ disposeJoins' = S

Dispose ==
    /\ ~Disposed
    /\ Abort(In(sortSlot)) /\ DisposeWaits("abortSort", In(sortSlot))
    /\ UNCHANGED <<callVars, slotVars, cancelRequested, ingestVars, queue, resultVars>>

DisposeAbortsExport ==
    /\ disposal = "abortSort" /\ AllDone(disposeJoins)
    /\ Abort(In(exportSlot)) /\ DisposeWaits("abortExport", In(exportSlot))
    /\ UNCHANGED <<callVars, slotVars, cancelRequested, ingestVars, queue, resultVars>>

\* retireDerivedViews(null) leaves no view.
DisposeRetires ==
    /\ disposal = "abortExport" /\ AllDone(disposeJoins)
    /\ derivedViews' = {}
    /\ DisposeWaits("cancel", {})
    /\ UNCHANGED <<callVars, slotVars, tokenVars, ingestVars, queue, session, complete>>

\* The pending query is cancelled, or else the current session.
DisposeCancels ==
    /\ disposal = "cancel"
    /\ CancelPending
    /\ LET closed == IF pendingQuery = None THEN In(activeQuery) ELSE {}
       IN  session' = Closing(closed) /\ DisposeWaits("close", closed)
    /\ UNCHANGED <<callVars, slotVars, aborted, ingestVars, queue, complete, derivedViews>>

\* A bug to be caught: dispose does not wait for the queue.
DisposeGoesOn ==
    /\ disposal = "close" /\ AllClosed(disposeJoins)
    /\ DisposeWaits("idle", {})
    /\ UNCHANGED <<callVars, slotVars, tokenVars, ingestVars, queue, resultVars>>

DisposeWaitsIdle ==
    /\ disposal = "close" /\ AllClosed(disposeJoins)
    /\ DisposeWaits("idle", ToSet(queue))
    /\ UNCHANGED <<callVars, slotVars, tokenVars, ingestVars, queue, resultVars>>

DisposeClosesResult ==
    /\ disposal = "idle" /\ AllDone(disposeJoins)
    /\ session' = Closing(In(activeQuery))
    /\ DisposeWaits("closeResult", In(activeQuery))
    /\ UNCHANGED <<callVars, slotVars, tokenVars, ingestVars, queue, complete, derivedViews>>

\* The connection is closed and the worker terminated.
DisposeEnds ==
    /\ disposal = "closeResult" /\ AllClosed(disposeJoins)
    /\ DisposeWaits("done", {})
    /\ UNCHANGED <<callVars, slotVars, tokenVars, ingestVars, queue, resultVars>>

DisposeSteps ==
    \/ DisposeAbortsExport \/ DisposeRetires \/ DisposeCancels
    \/ DisposeWaitsIdle \/ DisposeClosesResult \/ DisposeEnds

-----------------------------------------------------------------------------
(* The specification.                                                      *)

Call(c) ==
    \/ StartQuery(c) \/ CreateSortedView(c) \/ ExportParquet(c)
    \/ BeginIngest(c) \/ CancelQuery(c)

\* What the runtime does by itself for a call.
Steps(c) ==
    \/ OperationRefused(c) \/ Settle(c)
    \/ QueryAdmitted(c) \/ RetireViews(c) \/ CloseSession(c) \/ QueryProceeds(c)
    \/ QueryOpens(c) \/ QueryAbandons(c) \/ QueryNotOpened(c)
    \/ Reads(c) \/ Publishes(c) \/ Written(c)
    \/ AbortsExport(c) \/ Cancels(c) \/ Cancelled(c)
    \/ IngestCancels(c) \/ IngestWaits(c) \/ IngestCloses(c) \/ IngestOpens(c)
    \/ IngestRefused(c)
    \/ SessionCloses(c)

Next ==
    \/ \E c \in Calls : Call(c) \/ AbortCall(c) \/ CloseResult(c) \/ SessionCompletes(c)
    \/ \E c \in Calls : Steps(c)
    \/ IngestSettles
    \/ Dispose
    \/ DisposeSteps

\* Promises settle and their continuations run: a session that closes is closed
\* (CloseSettles of QuerySession), a writer ends.  Whether a call is made, a
\* result is completed, an ingest is settled or the database is disposed of is
\* up to the caller.
Fairness == WF_vars((\E c \in Calls : Steps(c)) \/ DisposeSteps)

Spec == Init /\ [][Next]_vars /\ Fairness

-----------------------------------------------------------------------------
(* Properties.                                                             *)

Places ==
    {"none", "queued", "closeExport", "retire", "close", "persist", "send", "create",
     "abandon", "writing", "abortSort", "abortExport", "cancelSent", "idle", "resolved",
     "done"}
Slot == Calls \cup {None}

\* Every slot holds a call, and the queue only calls that have not settled.
TypeOK ==
    /\ kind \in [Calls -> Kinds \cup {"none"}] /\ at \in [Calls -> Places]
    /\ joins \in [Calls -> SUBSET Calls] /\ source \in [Calls -> Slot]
    /\ {pendingQuery, activeQuery, sortSlot, exportSlot, activeIngest} \subseteq Slot
    /\ cancelRequested \subseteq Calls /\ aborted \subseteq Calls /\ derivedViews \subseteq Calls
    /\ ingestStarting \in BOOLEAN
    /\ disposal \in {"no", "abortSort", "abortExport", "cancel", "close", "idle",
                     "closeResult", "done"}
    /\ disposeJoins \subseteq Calls
    /\ ToSet(queue) \subseteq {c \in Calls : at[c] \notin {"none", "done"}}
    /\ session \in [Calls -> {"none", "open", "closing"}]
    /\ complete \subseteq {q \in Calls : session[q] # "none"}

\* A query has passed its admission and may still open a session.
Underway(q) ==
    kind[q] = "query" /\ at[q] \in {"closeExport", "retire", "close", "persist", "send", "create"}

\* The connection has one owner: while an ingest is open no result is, and no
\* query is about to make one; and never are two results open or closing, since
\* a cursor of one would read the connection of the other.
OneOwner ==
    /\ TypeOK
    /\ activeIngest # None =>
          \A q \in Calls : ~Underway(q) /\ session[q] = "none"
    /\ Cardinality({q \in Calls : session[q] \in {"open", "closing"}}) <= 1

\* Only the latest query opens: one that another query has superseded, or that a
\* cancelQuery or beginIngest which has settled was to stop, never becomes the
\* current result, however their steps interleave with its own.
OnlyTheLatestOpens ==
    [][\A q \in Calls :
          activeQuery' = q /\ activeQuery # q =>
            \A c \in Calls : c > q => /\ kind[c] # "query"
                                      /\ kind[c] \in {"cancel", "ingest"} => ~Done(c)]_vars

\* Once dispose has settled, nothing uses the terminated database: no result is
\* open, no view is left and no operation is queued.
DisposedIsQuiet ==
    disposal = "done" =>
        /\ \A q \in Calls : session[q] = "none"
        /\ derivedViews = {}
        /\ queue = << >>

\* Nothing is left to do for the calls made so far.
AtRest ==
    /\ \A c \in Calls : kind[c] # "none" => Done(c)
    /\ disposal \in {"no", "done"}

\* No call waits for another that waits for it: queries join aborted exports from
\* inside the queue that runs them, beginIngest joins the whole queue, dispose
\* joins them all, and each of them settles: the database always comes to rest.
EveryCallSettles == []<>AtRest
=============================================================================
