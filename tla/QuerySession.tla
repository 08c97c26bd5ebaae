----------------------------- MODULE QuerySession -----------------------------
(***************************************************************************)
(* One query's result: QuerySessionImpl over the DuckDB cursor it owns and its *)
(* PageStore.  Callers ask for further pages (fetchNext), retry a page that   *)
(* did not fit into storage (retryPending), read stored pages and close the   *)
(* session, at any time and without waiting for one another.                 *)
(*                                                                         *)
(* Demands are serialized by fetchTail; a step of one runs from an await to   *)
(* the next.  The cursor's rows are 1..total, in batches of any size;         *)
(* batches without rows, which are skipped, are left out, and so are schemas. *)
(***************************************************************************)
EXTENDS PageStore

CONSTANTS
    TotalRows,       \* bound: rows of the cursor
    MaxTarget,       \* bound: rows asked for by one fetchNext
    MaxPageDemands   \* bound: fetchNext and retryPending calls

\* Of the constants; assumed by the module that instantiates this one.
QueryAssumption ==
    TotalRows \in Nat /\ MaxTarget \in Nat \ {0} /\ MaxPageDemands \in Nat

VARIABLES
    \* the cursor
    total,        \* its rows are 1..total
    pulled,       \* rows it has handed over
    ended,        \* it has answered done
    cancelSignal, \* cancelSignalPromise: "none", "sent" or "settled"
    readerReturn, \* readerReturnPromise: "none", "sent" or "settled"
    \* QuerySessionImpl
    demandState,  \* "open", "retry", "terminal", "closing" or "closed"
    summaries,    \* per published page: [start, count]
    loadedRows, complete, pendingEof,
    remainder,    \* rows pulled and not yet in a page
    \* fetchTail
    demands,      \* calls chained, the first one running: [op, target]
    at,           \* where that one waits
    taken,        \* the rows it has
    eof,          \* whether it has seen the end
    \* close()
    closing,      \* where it waits, or "no"
    asked         \* demands made

cursorVars  == <<total, pulled, ended>>
signalVars  == <<cancelSignal, readerReturn>>
publicVars  == <<summaries, loadedRows, complete>>
pagingVars  == <<demandState, publicVars, pendingEof, remainder>>
fetchVars   == <<demands, at, taken, eof>>
queryVars   == <<pageVars, cursorVars, signalVars, pagingVars, fetchVars, closing, asked>>

QueryInit ==
    /\ StoreInit
    /\ total \in 0..TotalRows /\ pulled = 0 /\ ended = FALSE
    /\ cancelSignal = "none" /\ readerReturn = "none"
    /\ demandState = "open" /\ summaries = << >> /\ loadedRows = 0
    /\ complete = FALSE /\ pendingEof = FALSE /\ remainder = << >>
    /\ demands = << >> /\ at = "idle" /\ taken = << >> /\ eof = FALSE
    /\ closing = "no" /\ asked = 0

-----------------------------------------------------------------------------
(* Helpers.                                                                *)

IsClosing == demandState \in {"closing", "closed"}
Batch(n) == [i \in 1..n |-> pulled + i]
Target == Head(demands).target
NextIndex == Len(summaries) + 1
NextPage == [start |-> loadedRows, rows |-> taken]

\* The running call settles, and the next one of the chain may run.
Settles ==
    demands' = Tail(demands) /\ at' = "idle" /\ taken' = << >> /\ eof' = FALSE

GoesTo(where) == at' = where /\ UNCHANGED demands

\* signalCancellation and returnReader are memoized.
Signals == cancelSignal' = IF cancelSignal = "none" THEN "sent" ELSE cancelSignal
Returns == readerReturn' = IF readerReturn = "none" THEN "sent" ELSE readerReturn

\* publish, and finish if the end has been seen.
Publish(page, last) ==
    /\ summaries' = Append(summaries, [start |-> page.start, count |-> Size(page)])
    /\ loadedRows' = loadedRows + Size(page)
    /\ complete' = last /\ storeComplete' = last

\* terminalize: the cursor is cancelled, if it is not known to have failed, and
\* given back, and only then the call settles.
Terminalizes(cancel) ==
    /\ demandState' = "terminal"
    /\ IF cancel THEN Signals /\ GoesTo("cancelling") /\ UNCHANGED readerReturn
                 ELSE Returns /\ GoesTo("returning") /\ UNCHANGED cancelSignal
    /\ UNCHANGED <<pendingEof, taken, eof>>

\* What fetchNext's catch does with a failure, when `retryable` says whether the
\* store kept the page.
PageFetchFails(cancel, retryable, end) ==
    \/ /\ IsClosing
       /\ Settles
       /\ UNCHANGED <<demandState, pendingEof, signalVars>>
    \/ /\ ~IsClosing /\ retryable
       /\ demandState' = "retry" /\ pendingEof' = end
       /\ Settles
       /\ UNCHANGED signalVars
    \/ /\ ~IsClosing /\ ~retryable
       /\ Terminalizes(cancel)

-----------------------------------------------------------------------------
(* Demands.                                                                *)

\* fetchNext(targetRows) and retryPending().
PageCalls == [op : {"fetch"}, target : 1..MaxTarget] \cup [op : {"retry"}, target : {0}]

\* A call joins the chain.
DemandPage ==
    /\ asked < MaxPageDemands
    /\ \E call \in PageCalls : demands' = Append(demands, call)
    /\ asked' = asked + 1
    /\ UNCHANGED <<pageVars, cursorVars, signalVars, pagingVars, at, taken, eof, closing>>

\* assertDemandOpen, and the checks at the start of both calls.
Refuses(op) ==
    IF op = "retry" THEN demandState # "retry" ELSE demandState # "open" \/ complete

DemandRefused ==
    /\ demands # << >> /\ at = "idle" /\ Refuses(Head(demands).op)
    /\ Settles
    /\ UNCHANGED <<pageVars, cursorVars, signalVars, pagingVars, closing, asked>>

UpToTarget(rows) == SubSeq(rows, 1, IF Len(rows) < Target THEN Len(rows) ELSE Target)

\* Bugs to be caught: rows beyond the target are lost, and no look ahead.
CollectsOnly(rows) ==
    /\ taken' = UpToTarget(rows) /\ remainder' = << >>
    /\ GoesTo(IF Len(rows) > Target THEN "convert"
              ELSE IF Len(rows) = Target THEN "probe" ELSE "next")

CollectsUnaware(rows) ==
    /\ taken' = UpToTarget(rows)
    /\ remainder' = SubSeq(rows, Target + 1, Len(rows))
    /\ GoesTo(IF Len(rows) >= Target THEN "convert" ELSE "next")

\* Rows are collected up to the target.  A longer batch leaves a remainder; with
\* too few rows the cursor is asked again; with just enough it is asked once more,
\* to learn whether they were the last.
Collects(rows) ==
    /\ taken' = UpToTarget(rows)
    /\ remainder' = SubSeq(rows, Target + 1, Len(rows))
    /\ GoesTo(IF Len(rows) > Target THEN "convert"
              ELSE IF Len(rows) = Target THEN "probe" ELSE "next")

FetchStarts ==
    /\ demands # << >> /\ at = "idle"
    /\ Head(demands).op = "fetch" /\ ~Refuses("fetch")
    /\ Collects(remainder)
    /\ UNCHANGED <<pageVars, cursorVars, signalVars, demandState, publicVars,
                   pendingEof, eof, closing, asked>>

\* The cursor answers with rows.  A closing session drops them.
BatchPulled ==
    /\ at \in {"next", "probe"}
    /\ \E n \in 1..(total - pulled) :
          /\ pulled' = pulled + n
          /\ \/ IsClosing /\ Settles /\ UNCHANGED remainder
             \/ ~IsClosing /\ at = "next" /\ Collects(taken \o Batch(n)) /\ UNCHANGED eof
             \/ /\ ~IsClosing /\ at = "probe"
                /\ remainder' = Batch(n) /\ GoesTo("convert")
                /\ UNCHANGED <<taken, eof>>
    /\ UNCHANGED <<pageVars, total, ended, signalVars, demandState, publicVars, pendingEof,
                   closing, asked>>

\* The cursor answers that it is done.
EndPulled ==
    /\ at \in {"next", "probe"} /\ pulled = total
    /\ ended' = TRUE
    /\ \/ IsClosing /\ Settles
       \/ ~IsClosing /\ eof' = TRUE /\ GoesTo("convert") /\ UNCHANGED taken
    /\ UNCHANGED <<pageVars, total, pulled, signalVars, pagingVars, closing, asked>>

\* The cursor rejects, or answers with a batch of another schema: only then is it
\* still to be cancelled.
PullFails ==
    /\ at \in {"next", "probe"}
    /\ \E bad \in BOOLEAN : PageFetchFails(bad, FALSE, eof)
    /\ UNCHANGED <<pageVars, cursorVars, publicVars, remainder, closing, asked>>

\* The rows are converted, or cannot be.  A result without rows is complete now;
\* the others have a page to put, which may be refused.
Converted ==
    /\ at = "convert"
    /\ \/ /\ taken = << >>
          /\ complete' = TRUE /\ storeComplete' = TRUE
          /\ Settles
          /\ UNCHANGED <<pages, storedBytes, decoded, usedBefore, decodedBytes, pending, files,
                         summaries, loadedRows, demandState, pendingEof, signalVars>>
       \/ /\ taken # << >> /\ ~IsClosing /\ persistent
          /\ ~PutRefused(NextIndex, NextPage)
          /\ GoesTo("write")
          /\ UNCHANGED <<pageVars, publicVars, demandState, pendingEof, signalVars,
                         taken, eof>>
       \/ /\ taken # << >> /\ ~IsClosing
          /\ PutInMemory(NextIndex, NextPage)
          /\ GoesTo("stored")
          /\ UNCHANGED <<storeComplete, publicVars, demandState, pendingEof, signalVars,
                         taken, eof>>
       \/ /\ taken # << >> /\ (IsClosing \/ PutRefused(NextIndex, NextPage))
          /\ PageFetchFails(TRUE, pending # NoPage, eof)
          /\ UNCHANGED <<pageVars, publicVars>>
    /\ UNCHANGED <<persistent, pinned, disposal, reading, cursorVars, remainder,
                   closing, asked>>

ConversionFails ==
    /\ at = "convert"
    /\ PageFetchFails(TRUE, FALSE, eof)
    /\ UNCHANGED <<pageVars, cursorVars, publicVars, remainder, closing, asked>>

\* The page file is written, or the write fails.
PageWritten ==
    /\ at = "write"
    /\ \/ /\ PutWritten(NextIndex, NextPage)
          /\ GoesTo("stored")
          /\ UNCHANGED <<demandState, pendingEof, signalVars, taken, eof>>
       \/ \E quota \in BOOLEAN :
             /\ PutFails(NextIndex, NextPage, quota)
             /\ PageFetchFails(TRUE, quota, eof)
    /\ UNCHANGED <<persistent, pinned, storeComplete, disposal, reading, cursorVars,
                   publicVars, remainder, closing, asked>>

\* fetchNext goes on with the stored page: published unless the session closes.
PageStored ==
    /\ at = "stored"
    /\ IF IsClosing THEN UNCHANGED <<publicVars, storeComplete>>
                    ELSE Publish(pages[NextIndex], eof)
    /\ Settles
    /\ UNCHANGED <<persistent, pages, decoded, usedBefore, decodedBytes, storedBytes,
                   pinned, pending, disposal, files, reading, cursorVars, signalVars, demandState,
                   pendingEof, remainder, closing, asked>>

\* retryPending writes the page again; a write that fails again stays pending.
RetryStarts ==
    /\ demands # << >> /\ at = "idle"
    /\ Head(demands).op = "retry" /\ ~Refuses("retry")
    /\ GoesTo("rewrite")
    /\ UNCHANGED <<pageVars, cursorVars, signalVars, pagingVars, taken, eof, closing,
                   asked>>

PageRewritten ==
    /\ at = "rewrite"
    /\ \/ RetryWritten(NextIndex) /\ GoesTo("restored") /\ UNCHANGED <<taken, eof>>
       \/ /\ files' = With(files, NextIndex, << >>)
          /\ Settles
          /\ UNCHANGED <<pages, storedBytes, decoded, usedBefore, decodedBytes, pending>>
    /\ UNCHANGED <<persistent, pinned, storeComplete, disposal, reading, cursorVars,
                   signalVars, pagingVars, closing, asked>>

PageRestored ==
    /\ at = "restored"
    /\ IF IsClosing THEN UNCHANGED <<publicVars, storeComplete, demandState, pendingEof>>
                    ELSE /\ demandState' = "open" /\ pendingEof' = FALSE
                         /\ Publish(pages[NextIndex], pendingEof)
    /\ Settles
    /\ UNCHANGED <<persistent, pages, decoded, usedBefore, decodedBytes, storedBytes,
                   pinned, pending, disposal, files, reading, cursorVars, signalVars, remainder,
                   closing, asked>>

\* terminalize waits for the cancellation, gives the cursor back and waits again.
CancelledTerminal ==
    /\ at = "cancelling" /\ cancelSignal = "settled"
    /\ Returns /\ GoesTo("returning")
    /\ UNCHANGED <<pageVars, cursorVars, cancelSignal, pagingVars, taken, eof,
                   closing, asked>>

ReturnedTerminal ==
    /\ at = "returning" /\ readerReturn = "settled"
    /\ Settles
    /\ UNCHANGED <<pageVars, cursorVars, signalVars, pagingVars, closing, asked>>

-----------------------------------------------------------------------------
(* Closing: cancel() and dispose().                                        *)

\* A bug to be caught: a demand is waited for before the cursor is cancelled.
CloseWaits ==
    /\ closing = "no"
    /\ demandState' = "closing" /\ closing' = "tail"
    /\ UNCHANGED <<pageVars, cursorVars, signalVars, publicVars, pendingEof, remainder,
                   fetchVars, asked>>

CloseQuery ==
    /\ closing = "no"
    /\ demandState' = "closing" /\ closing' = "signal"
    /\ Signals
    /\ UNCHANGED <<pageVars, cursorVars, readerReturn, publicVars, pendingEof, remainder,
                   fetchVars, asked>>

CloseJoinsTail ==
    /\ closing = "signal" /\ cancelSignal = "settled"
    /\ closing' = "tail"
    /\ UNCHANGED <<pageVars, cursorVars, signalVars, pagingVars, fetchVars, asked>>

\* A bug to be caught: close does not wait for them.
TailIgnored == TRUE

\* The demands chained have settled; a later one is refused at once.
TailSettled == demands = << >>

CloseReturnsReader ==
    /\ closing = "tail" /\ TailSettled
    /\ Returns /\ closing' = "return"
    /\ UNCHANGED <<pageVars, cursorVars, cancelSignal, pagingVars, fetchVars, asked>>

CloseDisposesStore ==
    /\ closing = "return" /\ readerReturn = "settled"
    /\ StoreDisposes /\ closing' = "store"
    /\ UNCHANGED <<persistent, pages, decoded, usedBefore, decodedBytes, storedBytes,
                   pinned, pending, storeComplete, files, reading, cursorVars, signalVars, pagingVars,
                   fetchVars, asked>>

Closed ==
    /\ closing = "store" /\ StoreDisposed
    /\ closing' = "done" /\ demandState' = "closed"
    /\ UNCHANGED <<pageVars, cursorVars, signalVars, publicVars, pendingEof, remainder,
                   fetchVars, asked>>

\* What the cursor and its connection answer, with success or failure.
CancelAnswers ==
    /\ cancelSignal = "sent" /\ cancelSignal' = "settled"
    /\ UNCHANGED <<pageVars, cursorVars, readerReturn, pagingVars, fetchVars, closing,
                   asked>>

ReturnAnswers ==
    /\ readerReturn = "sent" /\ readerReturn' = "settled"
    /\ UNCHANGED <<pageVars, cursorVars, cancelSignal, pagingVars, fetchVars, closing,
                   asked>>

-----------------------------------------------------------------------------
(* The system.                                                             *)

othersUnchanged ==
    UNCHANGED <<cursorVars, signalVars, pagingVars, fetchVars, closing, asked>>

\* Callers read and pin the published pages of a session that is not closing.
ReadPages ==
    /\ ~IsClosing
    /\ \/ \E r \in Readers, i \in DOMAIN summaries : Get(r, i)
       \/ \E r \in Readers : Materialize(r)
       \/ \E is \in SUBSET DOMAIN summaries : Pin(is)
    /\ othersUnchanged

FilesRead == (\E r \in Readers, i \in DOMAIN pages : FileRead(r, i)) /\ othersUnchanged

StoreStep == (StoreClears \/ StoreRemoves) /\ othersUnchanged

Pulled == BatchPulled \/ EndPulled \/ PullFails

PageDemandStep ==
    \/ DemandRefused \/ FetchStarts \/ RetryStarts
    \/ Converted \/ ConversionFails \/ PageWritten \/ PageStored
    \/ PageRewritten \/ PageRestored
    \/ CancelledTerminal \/ ReturnedTerminal

CloseQueryStep == CloseJoinsTail \/ CloseReturnsReader \/ CloseDisposesStore \/ Closed

CursorAnswers == CancelAnswers \/ ReturnAnswers

\* The session is closed and every call has settled.
Rest == closing = "done" /\ demands = << >> /\ UNCHANGED queryVars

QueryNext ==
    \/ DemandPage \/ Pulled \/ PageDemandStep
    \/ ReadPages \/ FilesRead
    \/ CloseQuery \/ CloseQueryStep \/ StoreStep \/ CursorAnswers
    \/ Rest

\* Promises that have settled are acted upon, and OPFS, the cancellation and the
\* cursor's return answer.  A pull may take for ever until its query is cancelled.
Fairness ==
    /\ WF_queryVars(PageDemandStep) /\ WF_queryVars(CloseQueryStep) /\ WF_queryVars(StoreStep)
    /\ WF_queryVars(FilesRead) /\ WF_queryVars(CursorAnswers)
    /\ WF_queryVars(cancelSignal # "none" /\ Pulled)

QuerySpec == QueryInit /\ [][QueryNext]_queryVars /\ Fairness

-----------------------------------------------------------------------------
(* Properties.                                                             *)

\* The type of the state.
QueryTypeOK ==
    /\ persistent \in BOOLEAN /\ storeComplete \in BOOLEAN
    /\ DOMAIN pages \subseteq 1..TotalRows /\ DOMAIN files \subseteq 1..TotalRows
    /\ usedBefore \subseteq (DOMAIN decoded) \X (DOMAIN decoded)
    /\ decodedBytes \in 0..TotalRows /\ storedBytes \in 0..TotalRows
    /\ pinned \subseteq 1..TotalRows
    /\ disposal \in {"no", "waiting", "removing", "done"}
    /\ reading \in [Readers -> SUBSET (1..TotalRows)]
    /\ total \in 0..TotalRows /\ pulled \in 0..total /\ ended \in BOOLEAN
    /\ cancelSignal \in {"none", "sent", "settled"}
    /\ readerReturn \in {"none", "sent", "settled"}
    /\ demandState \in {"open", "retry", "terminal", "closing", "closed"}
    /\ summaries \in Seq([start : 0..TotalRows, count : 1..TotalRows])
    /\ loadedRows \in 0..TotalRows /\ complete \in BOOLEAN /\ pendingEof \in BOOLEAN
    /\ remainder \in Seq(1..TotalRows) /\ taken \in Seq(1..TotalRows)
    /\ Len(taken) <= MaxTarget
    /\ demands \in Seq(PageCalls)
    /\ at \in {"idle", "next", "probe", "convert", "write", "stored", "rewrite",
               "restored", "cancelling", "returning"}
    /\ eof \in BOOLEAN
    /\ closing \in {"no", "signal", "tail", "return", "store", "done"}
    /\ asked \in 0..MaxPageDemands

\* What get(i) answers: the cached page, or what its file holds.
PageContents(i) ==
    IF Cached(i) THEN decoded[i]
    ELSE IF i \in DOMAIN files THEN files[i] ELSE << >>

Released == disposal \in {"removing", "done"}

\* The session implements PagedResult: whatever pulls, writes and retries fail and
\* whatever the cache has evicted and read again, the pages its readers get hold
\* the cursor's rows in order, each once, and the last one is known to be the last
\* when it is published.
Result == INSTANCE PagedResult WITH
              source    <- [n \in 1..total |-> n],
              published <- IF Released THEN << >>
                           ELSE [i \in DOMAIN summaries |->
                                   [start |-> summaries[i].start, rows |-> PageContents(i)]],
              released  <- Released

ResultIsPaged == Result!Spec

\* The cache's byte counts are those of its pages, however reads of the same page,
\* evictions and pins overlap; it exceeds its limit only by pinned pages; and a
\* result without OPFS has every page in it, where alone it can be read.
CacheAccounted ==
    /\ QueryTypeOK
    /\ decodedBytes = BytesOf(decoded, DOMAIN decoded)
    /\ storedBytes = BytesOf([i \in DOMAIN pages |-> pages[i].rows], DOMAIN pages)
    /\ decodedBytes > MemoryLimit => DOMAIN decoded \subseteq pinned
    /\ persistent \/ \A i \in DOMAIN pages : Cached(i)

\* No row is lost between two pages: while the session can go on, every row pulled
\* is published, in the page being made or waiting for a retry, or left over for
\* the next one; and a page waits for a retry exactly while the session offers it.
RowsConserved ==
    LET inHand == IF pending # NoPage THEN Size(pending)
                  ELSE IF at = "restored" THEN Size(pages[NextIndex]) ELSE Len(taken)
    IN  demandState \in {"open", "retry"} =>
            /\ pulled = loadedRows + inHand + Len(remainder)
            /\ (demandState = "retry") <=> (pending # NoPage \/ at = "restored")

\* The cursor is asked only while it has more to say: not after it has ended, also
\* when the page that ended it had to be retried, and not after it was given back.
\* Nothing uses it or the store once close() has given the cursor back, and a closed
\* session has no read in flight and keeps no page.
CloseReleases ==
    /\ at \in {"next", "probe"} => ~ended /\ readerReturn = "none"
    /\ closing \in {"return", "store", "done"} => at = "idle"
    /\ closing = "done" =>
          /\ cancelSignal = "settled" /\ readerReturn = "settled"
          /\ InFlightSettled /\ pages = << >> /\ decodedBytes = 0 /\ pending = NoPage

\* close() finishes, also while the cursor does not answer: the cancellation it
\* sends first makes it.
CloseSettles == closing # "no" ~> closing = "done"
=============================================================================
