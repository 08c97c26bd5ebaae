--------------------------- MODULE OneReader_proofs ---------------------------
(***************************************************************************)
(* Proof that the cursor of the current query has one reader (OneFetcher of    *)
(* Results): a run, a page demand, a sort and a download never fetch its pages *)
(* at the same time.  The invariant adds to that of Results_proofs who waits    *)
(* for whom, and why a page offered for retry is never one a download fetches.  *)
(***************************************************************************)
EXTENDS Results_proofs

-----------------------------------------------------------------------------
(* One reader: who may be fetching pages of the current query.  A demand holds *)
(* `demand` while its base is on display; a sort, once it has waited for what    *)
(* was there, keeps the others out by activeSort, a download by suspendedBy; and  *)
(* a query's first fetch is over before its rows can be asked for.  Only          *)
(* retryPage does not look at suspendedBy, so that a download that fetches must    *)
(* have found no page to retry.                                                  *)

\* A session is there once its query has started it, and the demands on it are later still.
SessionsInOrder ==
    /\ \A q \in Queries :
         /\ run[q].at \in {"no", "cleanup", "closing"} => db[q].at = "none"
         /\ run[q].at = "start" => db[q].at \in {"none", "cancelled"}
    /\ \A d \in Demands : DemandLive(d) =>
         run[dem[d].base].at \notin {"no", "cleanup", "closing", "start"}

\* The demand of the base on display is the one held, until the close that gives it up ends.
OneDemand ==
    /\ \A d \in Demands : DemandBusy(d) /\ dem[d].base = base => demand = d
    /\ base # None /\ demand # None => DemandBusy(demand) /\ dem[demand].base = base
    /\ base = None /\ demand # None => closes # {}

\* Demands of one session that fetch are one, whatever is on display.
OneFetch ==
    \A c, d \in Demands :
         dem[c].at = "fetch" /\ dem[d].at = "fetch" /\ dem[c].base = dem[d].base => c = d

\* A query whose run is over and whose family is on display has shown its result.
FamilyIsShown ==
    /\ disposed /\ base # None => base # queryGen
    /\ \A q \in Queries :
         /\ run[q].at \in {"drop", "fail"} => base # q
         /\ run[q].at \in {"read", "viewer"} /\ base = q => run[q].read.view = Base(q)
    /\ base # None /\ base = queryGen /\ HasResult /\ run[queryGen].at = "done" =>
         state.result.gen = queryGen

\* Downloads follow one another, and suspend the user's paging while they are under way.
ExportsInOrder ==
    /\ \A x, e \in Exports : x < e /\ exp[e].at # "no" => exp[x].at # "no"
    /\ \A x, e \in Exports : x < e /\ exp[e].at \notin {"no", "cleanup", "done"} => Settled(x)
    /\ exportGen # None => \A x \in Exports : x > exportGen => exp[x].at = "no"
    /\ \A e \in Exports : ExportLive(e) =>
         /\ suspendedBy >= e
         /\ exp[e].base = exp[e].gen /\ exp[e].gen <= queryGen
         /\ run[exp[e].gen].at = "done"

\* A sort of the current query, whose order is not adopted yet.
SortOwns(s) == SortLive(s) /\ srt[s].at # "release" /\ srt[s].base = queryGen

\* It is the active one; the downloads and the demand it found settle before it reads.
SortsAreAlone ==
    \A s \in Sorts : SortOwns(s) =>
      /\ activeSort = s
      /\ srt[s].at = "cleanup" => \A e \in Exports : exp[e].at # "no" => e <= srt[s].downloads
      /\ srt[s].at \notin {"cleanup", "unwind"} => \A e \in Exports : Settled(e)
      /\ srt[s].at = "demand" =>
           \A d \in Demands : DemandBusy(d) /\ dem[d].base = queryGen => srt[s].demand = d
      /\ srt[s].at \in {"drain", "create", "read"} =>
           \A d \in Demands : DemandBusy(d) => dem[d].base # queryGen

\* A demand whose window would be shown.
Publishable(d) ==
    /\ dem[d].at \in {"read", "viewer"}
    /\ dem[d].base = base /\ base = queryGen
    /\ HasResult /\ state.result.gen = queryGen /\ dem[d].gen = queryGen
    /\ dem[d].revision = state.result.revision

ShowsBase == base # None /\ base = queryGen /\ HasResult /\ state.result.gen = queryGen

\* What is captured as complete is, and the result shown.
WholeIsWhole ==
    /\ \A q \in Queries : db[q].whole => db[q].fetches # "retry"
    /\ HasResult /\ state.result.complete => db[state.result.gen].whole
    /\ \A d \in Demands : dem[d].at \in {"read", "viewer"} /\ dem[d].read.whole => db[dem[d].base].whole
    /\ \A q \in Queries : run[q].at \in {"read", "viewer"} /\ run[q].read.whole => db[q].whole
    /\ \A s \in Sorts : srt[s].at = "read" /\ srt[s].read.whole => db[srt[s].base].whole

\* A page is offered for retry only while the session keeps it, and not of a complete result.
RetriesAreHeld ==
    /\ HasResult /\ state.result.complete => state.result.error # "retry"
    /\ ShowsBase /\ state.result.error = "retry" => db[queryGen].fetches = "retry"
    /\ \A d \in Demands :
         /\ Publishable(d) /\ dem[d].error = "retry" => db[queryGen].fetches = "retry"
         /\ Publishable(d) /\ dem[d].error # "none" => state.result.error # "none"
         /\ ShowsBase /\ dem[d].at = "fetch" /\ dem[d].base = queryGen => state.result.error # "retry"

\* A download waits for the demand it found, and fetches when there is none to come.
ExportsAreAlone ==
    \A e \in Exports : ExportLive(e) /\ exp[e].base = queryGen =>
      /\ exp[e].at = "demand" =>
           /\ \A d \in Demands : dem[d].at = "fetch" /\ dem[d].base = queryGen => exp[e].demand = d
           /\ exp[e].demand # None =>
                dem[exp[e].demand].at # "no"
                /\ (DemandBusy(exp[e].demand) => dem[exp[e].demand].base = queryGen)
      /\ exp[e].at = "drain" =>
           /\ \A d \in Demands : dem[d].at = "fetch" => dem[d].base # queryGen
           /\ ShowsBase => state.result.error # "retry"
           /\ \A d \in Demands : Publishable(d) => dem[d].error # "retry"

Demandable(r) ==
    r # NoResult /\ ((~r.complete /\ r.error = "none" /\ ~r.loading) \/ r.error = "retry")

\* While a query runs, the rows of the one before it cannot be asked for.
RunsAreAlone ==
    queryGen # 0 =>
      /\ \A d \in Demands : DemandLive(d) /\ dem[d].base = queryGen => run[queryGen].at # "fetch"
      /\ run[queryGen].at \in {"start", "fetch"} => ~Demandable(state.result)
      /\ run[queryGen].at \in {"cleanup", "closing"} =>
           state.result = run[queryGen].prior \/ ~Demandable(state.result)

-----------------------------------------------------------------------------
(* What the steps do to the sessions.                                        *)

\* The rows that have come, and what the fetches may still do, stay.
SessionsKeep == \A q \in Queries : db'[q].whole = db[q].whole /\ db'[q].fetches = db[q].fetches

\* Sessions close, and a query being started is cancelled.
SessionsMove ==
    /\ SessionsKeep
    /\ \A q \in Queries :
         \/ db'[q].at = db[q].at
         \/ db[q].at \in {"open", "closing"} /\ db'[q].at \in {"closing", "closed"}
         \/ run[q].at = "start" /\ db[q].at \in {"none", "cancelled"} /\ db'[q].at = "cancelled"

\* A fetch of session q answers with rows, or the page kept is stored.
Answered(q, was) ==
    /\ db[q].at = "open" /\ db[q].fetches = was /\ db'[q].fetches = "open"
    /\ \A p \in Queries :
         /\ db'[p].at = db[p].at /\ (p # q => db'[p].fetches = db[p].fetches /\ db'[p].whole = db[p].whole)
         /\ db[p].whole => db'[p].whole

\* It fails: a page is kept for a retry until it is stored, and never of a whole result.
FetchRefused(q, e) ==
    /\ \A p \in Queries :
         /\ db'[p].at = db[p].at /\ db'[p].whole = db[p].whole
         /\ p # q => db'[p].fetches = db[p].fetches
    /\ db[q].fetches = "retry" => db'[q].fetches = "retry"
    /\ db'[q].fetches = "retry" => db[q].fetches = "retry" \/ ~db[q].whole
    /\ e = "retry" => db'[q].fetches = "retry" /\ ~db[q].whole

LEMMA CloseSessionMoves ==
    ASSUME Shapes, NEW q \in Queries, CloseSession(q)
    PROVE  SessionsMove
<1>a. db \in [Queries -> DbShape]
  BY DEF Shapes, Typed
<1>1. \A p \in Queries \ {q} : db'[p] = db[p]
  BY <1>a DEF CloseSession
<1>2. /\ db'[q].whole = db[q].whole /\ db'[q].fetches = db[q].fetches
      /\ db'[q].at = IF db[q].at = "open" THEN "closing" ELSE db[q].at
  BY <1>a DEF CloseSession, DbShape
<1>3. QED
  BY <1>1, <1>2 DEF SessionsMove, SessionsKeep

LEMMA CancelQueryMoves ==
    ASSUME Shapes, CancelQuery
    PROVE  SessionsMove
<1>a. db \in [Queries -> DbShape]
  BY DEF Shapes, Typed
<1>1. ASSUME NEW q \in Queries
      PROVE  /\ db'[q].whole = db[q].whole /\ db'[q].fetches = db[q].fetches
             /\ \/ db'[q].at = db[q].at
                \/ db[q].at = "open" /\ db'[q].at = "closing"
                \/ run[q].at = "start" /\ db[q].at \in {"none", "cancelled"} /\ db'[q].at = "cancelled"
  <2>1. CASE q \in Starting
    <3>1. db'[q] = [db[q] EXCEPT !.at = "cancelled"]
      BY <2>1 DEF CancelQuery
    <3>2. QED
      BY <1>a, <2>1, <3>1 DEF DbShape, Starting
  <2>2. CASE q \notin Starting /\ Starting = {} /\ db[q].at = "open"
    <3>1. db'[q] = [db[q] EXCEPT !.at = "closing"]
      BY <2>2 DEF CancelQuery
    <3>2. QED
      BY <1>a, <2>2, <3>1 DEF DbShape
  <2>3. CASE q \notin Starting /\ ~(Starting = {} /\ db[q].at = "open")
    BY <2>3 DEF CancelQuery
  <2>4. QED
    BY <2>1, <2>2, <2>3
<1>2. QED
  BY <1>1 DEF SessionsMove, SessionsKeep

\* A close forgets the base and the view; there is a close under way.
Withdraws ==
    /\ base' = None /\ closes' # {} /\ state'.result = state.result
    /\ SessionsMove

LEMMA CloseWithdraws ==
    ASSUME Shapes, NEW by, Close(by, state, queryGen)
    PROVE  Withdraws
<1>a. db \in [Queries -> DbShape] /\ base \in {None} \cup Queries
  BY DEF Shapes, Typed
<1>1. SessionsMove
  <2>1. CASE base = None
    BY <2>1, CancelQueryMoves DEF Close
  <2>2. CASE base # None /\ view = Base(base)
    BY <1>a, <2>2, CloseSessionMoves DEF Close
  <2>3. CASE base # None /\ view # Base(base)
    BY <2>3 DEF Close, SessionsMove, SessionsKeep
  <2>4. QED
    BY <2>1, <2>2, <2>3
<1>2. base' = None /\ closes' # {}
  BY DEF Close
<1>3. QED
  BY <1>1, <1>2, CloseDoes DEF Withdraws

LEMMA FetchAnswers ==
    ASSUME Shapes, NEW q \in Queries, db[q].whole => db[q].fetches # "retry"
    PROVE  /\ FetchOk(q) => Answered(q, "open")
           /\ RetryOk(q) => Answered(q, "retry")
           /\ \A e \in {"retry", "final"} : FetchFails(q, e) => FetchRefused(q, e)
<1>a. db \in [Queries -> DbShape]
  BY DEF Shapes, Typed
<1>1. ASSUME FetchOk(q) PROVE Answered(q, "open")
  <2>1. PICK n \in {0, 1}, w \in BOOLEAN :
          /\ db[q].whole => n = 0 
          /\ (n = 0 \/ db[q].rows + n = MaxRows) => w
          /\ db' = [db EXCEPT ![q].rows = @ + n, ![q].whole = w]
    BY <1>1 DEF FetchOk
  <2>2. db'[q].at = db[q].at /\ db'[q].fetches = db[q].fetches /\ (db[q].whole => db'[q].whole)
    BY <1>a, <2>1 DEF DbShape
  <2>3. \A p \in Queries \ {q} : db'[p] = db[p]
    BY <1>a, <2>1
  <2>4. QED
    BY <1>1, <2>2, <2>3 DEF Answered, FetchOk
<1>2. ASSUME RetryOk(q) PROVE Answered(q, "retry")
  <2>1. PICK w \in BOOLEAN : db' = [db EXCEPT ![q].rows = @ + 1, ![q].whole = w, ![q].fetches = "open"]
    BY <1>2 DEF RetryOk
  <2>2. db'[q].at = db[q].at /\ db'[q].fetches = "open"
    BY <1>a, <2>1 DEF DbShape
  <2>3. \A p \in Queries \ {q} : db'[p] = db[p]
    BY <1>a, <2>1
  <2>4. QED
    BY <1>2, <2>2, <2>3 DEF Answered, RetryOk
<1>3. ASSUME NEW e \in {"retry", "final"}, FetchFails(q, e) PROVE FetchRefused(q, e)
  <2>1. CASE db' = db /\ e = "final"
    BY <1>3, <2>1 DEF FetchRefused
  <2>2. CASE /\ ~db[q].whole /\ (e = "final" => db[q].fetches # "retry")
             /\ db' = [db EXCEPT ![q].fetches = IF e = "retry" THEN "retry" ELSE "terminal"]
    <3>1. db'[q].at = db[q].at /\ db'[q].whole = db[q].whole
          /\ db'[q].fetches = IF e = "retry" THEN "retry" ELSE "terminal"
      BY <1>a, <2>2 DEF DbShape
    <3>2. \A p \in Queries \ {q} : db'[p] = db[p]
      BY <1>a, <2>2
    <3>3. QED
      BY <1>3, <2>2, <3>1, <3>2 DEF FetchRefused
  <2>3. QED
    BY <1>3, <2>1, <2>2 DEF FetchFails
<1>4. QED
  BY <1>1, <1>2, <1>3

-----------------------------------------------------------------------------
(* The turns of execute(), of a demand and of a download, as the reader's sees them. *)

Stays == UNCHANGED <<base, view, closes, db>>

RunWithdraws(q) ==
    /\ Withdraws
    /\ \/ run[q].at = "cleanup" /\ run'[q].at = "closing" /\ run'[q].prior = run[q].prior
       \/ run[q].at \in {"start", "fetch", "read"} /\ run'[q].at = "fail"

\* The rows of the query before are marked as stopped.
RunNotes(q) ==
    /\ Stays /\ IsCurrentQuery(q)
    /\ run[q].at = "closing" /\ run'[q].at = "start"
    /\ IF run[q].prior # NoResult /\ ~run[q].prior.complete /\ state.result = run[q].prior
       THEN state' = PageFailed(state, "final") ELSE state' = state

RunLeaves(q) ==
    /\ Stays /\ state'.result = state.result
    /\ run'[q].at = "done" /\ run[q].at \notin {"no", "done", "cleanup"}
    /\ run[q].at \in {"closing", "start", "fetch"} => ~IsCurrentQuery(q)
    /\ run[q].at \in {"read", "viewer"} =>
         ~(IsCurrentQuery(q) /\ base = q /\ view = run[q].read.view)

RunStarted(q) ==
    /\ run[q].at = "start" /\ db[q].at = "none" /\ closes = {}
    /\ \A p \in Queries \ {q} : db[p].at \in {"none", "closed", "cancelled"} /\ db'[p].at = db[p].at
    /\ SessionsKeep /\ UNCHANGED <<state, closes>>
    /\ \/ /\ IsCurrentQuery(q) /\ run'[q].at = "fetch" /\ db'[q].at = "open"
          /\ base' = q /\ view' = Base(q)
       \/ /\ ~IsCurrentQuery(q) /\ run'[q].at = "drop" /\ db'[q].at = "closing"
          /\ UNCHANGED <<base, view>>

RunHasFetched(q) ==
    /\ run[q].at = "fetch" /\ Answered(q, "open") /\ UNCHANGED <<state, base, view, closes>>
    /\ \/ /\ IsCurrentQuery(q) /\ base = q
          /\ run'[q].at = "read" /\ run'[q].read = Reading(view, db')
       \/ ~(IsCurrentQuery(q) /\ base = q) /\ run'[q].at = "done"

RunReadsOn(q) ==
    /\ Stays /\ state' = state
    /\ run[q].at = "read" /\ run'[q].at = "viewer" /\ run'[q].read = run[q].read

RunShows(q) ==
    /\ Stays /\ IsCurrentQuery(q) /\ base = q /\ view = run[q].read.view
    /\ run[q].at \in {"read", "viewer"} /\ run'[q].at = "done"
    /\ HasResult' /\ state'.result.gen = q /\ state'.result.error = "none"
    /\ state'.result.complete = run[q].read.whole

RunTurn(q) ==
    /\ UNCHANGED <<disposed, queryGen, suspendedBy, activeSort, srt, demand, dem, exportVars>>
    /\ \A p \in Queries \ {q} : run'[p] = run[p]
    /\ \/ RunWithdraws(q) \/ RunNotes(q) \/ RunLeaves(q) \/ RunStarted(q)
       \/ RunHasFetched(q) \/ RunReadsOn(q) \/ RunShows(q)

LEMMA RunTurns ==
    ASSUME Assumptions, Shapes, WholeIsWhole, NEW q \in Queries, RunStep(q)
    PROVE  RunTurn(q)
<1> USE DEF SessionRest, sorterVars
<1>a. state \in StateShape /\ run \in [Queries -> RunShape] /\ db \in [Queries -> DbShape]
  BY DEF Shapes, Typed
<1>c. run[q].at \notin {"no", "done"}
  BY DEF RunStep, RunCleaned, RunClosed, StartOk, StartFails, RunDropped, RunFetched, RunFetchFails,
         RunRead, RunReadFails, RunViewer, RunFailed
<1>d. run[q] \in RunningShape
  BY <1>a, <1>c DEF RunShape, Over
<1>e. /\ \A w : RunGoes(q, w) => /\ run'[q].at = w /\ run'[q].prior = run[q].prior
                                 /\ run'[q].read = run[q].read
                                 /\ \A p \in Queries \ {q} : run'[p] = run[p]
      /\ RunEnds(q) => run'[q].at = "done" /\ \A p \in Queries \ {q} : run'[p] = run[p]
  BY <1>a, <1>d DEF RunGoes, RunEnds, RunningShape
<1>f. UNCHANGED <<disposed, queryGen, suspendedBy, activeSort, srt, demand, dem, exportVars>>
  BY DEF RunStep, RunCleaned, RunClosed, StartOk, StartFails, RunDropped, RunFetched, RunFetchFails,
         RunRead, RunReadFails, RunViewer, RunFailed, RunThrows
<1>1. CASE RunCleaned(q)
  BY <1>1, <1>e, <1>f, CloseWithdraws DEF RunCleaned, RunTurn, RunWithdraws
<1>2. CASE RunClosed(q)
  BY <1>2, <1>e, <1>f DEF RunClosed, RunTurn, RunNotes, RunLeaves, Stays, dbVars
<1>3. CASE StartOk(q)
  <2>1. CASE IsCurrentQuery(q)
    <3>1. /\ db'[q].at = "open" /\ db'[q].whole = db[q].whole /\ db'[q].fetches = db[q].fetches
          /\ \A p \in Queries \ {q} : db'[p] = db[p]
      BY <1>3, <1>a, <2>1 DEF StartOk, DbShape
    <3>2. RunStarted(q)
      BY <1>3, <1>e, <2>1, <3>1 DEF StartOk, RunStarted, SessionsKeep
    <3>3. QED
      BY <1>3, <1>e, <1>f, <2>1, <3>2 DEF StartOk, RunTurn
  <2>2. CASE ~IsCurrentQuery(q)
    <3>1. /\ db'[q].at = "closing" /\ db'[q].whole = db[q].whole /\ db'[q].fetches = db[q].fetches
          /\ \A p \in Queries \ {q} : db'[p] = db[p]
      BY <1>3, <1>a, <2>2 DEF StartOk, DbShape
    <3>2. RunStarted(q)
      BY <1>3, <1>e, <2>2, <3>1 DEF StartOk, RunStarted, SessionsKeep
    <3>3. QED
      BY <1>3, <1>e, <1>f, <2>2, <3>2 DEF StartOk, RunTurn
  <2>3. QED
    BY <2>1, <2>2
<1>4. ASSUME RunThrows(q), run[q].at \in {"start", "fetch", "read"}
      PROVE  RunTurn(q)
  <2>1. CASE IsCurrentQuery(q)
    BY <1>4, <1>e, <1>f, <2>1, CloseWithdraws DEF RunThrows, RunTurn, RunWithdraws
  <2>2. CASE ~IsCurrentQuery(q)
    BY <1>4, <1>e, <1>f, <2>2 DEF RunThrows, RunTurn, RunLeaves, Stays
  <2>3. QED
    BY <2>1, <2>2
<1>5. CASE RunDropped(q)
  BY <1>5, <1>e, <1>f DEF RunDropped, RunTurn, RunLeaves, Stays, dbVars
<1>6. CASE RunFetched(q)
  <2>1. Answered(q, "open")
    BY <1>6, FetchAnswers DEF RunFetched, WholeIsWhole
  <2>2. CASE IsCurrentQuery(q) /\ base = q
    <3>1. run' = [run EXCEPT ![q].at = "read", ![q].read = Reading(view, db')]
      BY <1>6, <2>2 DEF RunFetched
    <3>2. /\ run'[q].at = "read" /\ run'[q].read = Reading(view, db')
          /\ \A p \in Queries \ {q} : run'[p] = run[p]
      BY <1>a, <1>d, <3>1 DEF RunningShape
    <3>3. QED
      BY <1>6, <1>f, <2>1, <2>2, <3>2 DEF RunFetched, RunTurn, RunHasFetched
  <2>3. CASE ~(IsCurrentQuery(q) /\ base = q)
    <3>1. run'[q].at = "done" /\ \A p \in Queries \ {q} : run'[p] = run[p]
      BY <1>6, <1>a, <2>3 DEF RunFetched
    <3>2. QED
      BY <1>6, <1>f, <2>1, <2>3, <3>1 DEF RunFetched, RunTurn, RunHasFetched
  <2>4. QED
    BY <2>2, <2>3
<1>7. ASSUME Succeeds(q), run[q].at \in {"read", "viewer"}, UNCHANGED <<base, view, closes, dbVars>>
      PROVE  RunTurn(q)
  <2>1. CASE IsCurrentQuery(q) /\ base = q /\ view = run[q].read.view
    <3>1. state' = QuerySucceeded(state, Paged(q, run[q].read, 0, None, "none"))
      BY <1>7, <2>1 DEF Succeeds
    <3>2. state'.result = [Paged(q, run[q].read, 0, None, "none") EXCEPT !.revision = 0, !.sort = None]
      BY <1>a, <3>1 DEF QuerySucceeded, StateShape
    <3>3. /\ state'.result.gen = q /\ state'.result.error = "none"
          /\ state'.result.complete = run[q].read.whole
      BY <3>2 DEF Paged
    <3>4. state'.result # NoResult
      BY <3>3 DEF NoResult, None, Queries
    <3>5. QED
      BY <1>7, <1>e, <1>f, <2>1, <3>3, <3>4 DEF Succeeds, RunTurn, RunShows, Stays, dbVars, HasResult
  <2>2. CASE ~(IsCurrentQuery(q) /\ base = q /\ view = run[q].read.view)
    BY <1>7, <1>e, <1>f, <2>2 DEF Succeeds, RunTurn, RunLeaves, Stays, dbVars
  <2>3. QED
    BY <2>1, <2>2
<1>8. CASE RunRead(q) \/ RunViewer(q)
  <2>1. CASE Succeeds(q)
    BY <1>7, <1>8, <2>1 DEF RunRead, RunViewer
  <2>2. CASE ~Succeeds(q)
    BY <1>8, <1>e, <1>f, <2>2 DEF RunRead, RunViewer, RunTurn, RunReadsOn, Stays, dbVars
  <2>3. QED
    BY <2>1, <2>2
<1>9. CASE RunFailed(q)
  <2>1. state'.result = state.result
    BY <1>9, <1>a DEF RunFailed, QueryFailed, StateShape
  <2>2. QED
    BY <1>9, <1>e, <1>f, <2>1 DEF RunFailed, RunTurn, RunLeaves, Stays, dbVars
<1>10. QED
  BY <1>1, <1>2, <1>3, <1>4, <1>5, <1>6, <1>8, <1>9
     DEF RunStep, StartFails, RunFetchFails, RunReadFails

\* A demand is made: it captures what is on display, and fetches or reads.
DemandAsks(d) ==
    /\ ~disposed /\ dem[d].at = "no" /\ HasResult /\ activeSort = None
    /\ demand = None /\ base # None /\ demand' = d
    /\ dem'[d].base = base /\ dem'[d].gen = state.result.gen
    /\ dem'[d].revision = state.result.revision /\ dem'[d].error = state.result.error
    /\ dem'[d].read = Reading(view, db)
    /\ Stays /\ UNCHANGED <<exportGen, exp>>
    /\ \/ /\ dem'[d].at = "fetch" /\ state' = Loading(state)
          /\ \/ /\ ~state.result.complete /\ state.result.error = "none" /\ ~state.result.loading
                /\ suspendedBy = None
             \/ state.result.error = "retry"
       \/ dem'[d].at = "read" /\ state' = state /\ IsActiveResult(base, state.result.gen)

DemandClears(d) == demand' = IF demand = d THEN None ELSE demand

DemandHasFetched(d) ==
    /\ dem[d].at = "fetch"
    /\ Answered(dem[d].base, "open") \/ Answered(dem[d].base, "retry")
    /\ UNCHANGED <<state, base, view, closes, exportGen, exp>>
    /\ \/ /\ DemandActive(d) /\ demand' = demand
          /\ dem'[d].at = "read" /\ dem'[d].base = dem[d].base /\ dem'[d].gen = dem[d].gen
          /\ dem'[d].revision = state.result.revision /\ dem'[d].error = state.result.error
          /\ dem'[d].read = Reading(view, db')
       \/ ~DemandActive(d) /\ dem'[d].at = "done" /\ DemandClears(d)

DemandRefused(d) ==
    /\ dem[d].at = "fetch" /\ dem'[d].at = "done" /\ DemandClears(d)
    /\ UNCHANGED <<base, view, closes, exportGen, exp>>
    /\ \E e \in {"retry", "final"} :
         /\ FetchRefused(dem[d].base, e)
         /\ \/ DemandActive(d) /\ state' = PageFailed(state, e)
            \/ ~DemandActive(d) /\ state' = state

DemandReadsOn(d) ==
    /\ Stays /\ UNCHANGED <<state, demand, exportGen, exp>>
    /\ dem[d].at = "read" /\ dem'[d].at = "viewer"
    /\ dem'[d].base = dem[d].base /\ dem'[d].gen = dem[d].gen
    /\ dem'[d].revision = dem[d].revision /\ dem'[d].error = dem[d].error /\ dem'[d].read = dem[d].read

\* Its window replaces the rows, or nothing does.
DemandHasRead(d) ==
    /\ Stays /\ UNCHANGED <<exportGen, exp>>
    /\ dem[d].at \in {"read", "viewer"} /\ dem'[d].at = "done" /\ DemandClears(d)
    /\ \/ state' = state
       \/ /\ DemandActive(d) /\ HasResult' /\ Publishable(d)
          /\ state'.result.gen = state.result.gen /\ state'.result.revision = state.result.revision
          /\ state'.result.complete = dem[d].read.whole /\ state'.result.error = dem[d].error
          /\ state'.result.loading = FALSE

\* Its window cannot be read, and the download there is leaves first.
ExportsLeave ==
    /\ exportGen' = None
    /\ \A e \in Exports :
         /\ exp'[e].at = exp[e].at
         /\ ExportLive(e) => exp'[e].base = exp[e].base /\ exp'[e].gen = exp[e].gen
                             /\ exp'[e].demand = exp[e].demand

DemandUnread(d) ==
    /\ Stays /\ ExportsLeave /\ DemandClears(d)
    /\ dem[d].at = "read" /\ dem'[d].at = "cleanup"
    /\ dem'[d].base = dem[d].base /\ dem'[d].gen = dem[d].gen
    /\ state'.result = PageFailed(state, "final").result

DemandLeaves(d) ==
    /\ dem'[d].at = "done" /\ UNCHANGED <<exportGen, exp>>
    /\ \/ dem[d].at = "read" /\ Stays /\ state' = state /\ DemandClears(d)
       \/ dem[d].at = "cleanup" /\ demand' = demand /\ (Withdraws \/ (Stays /\ state' = state))

DemandTurn(d) ==
    /\ UNCHANGED <<disposed, queryGen, suspendedBy, activeSort, srt, run>>
    /\ \A c \in Demands \ {d} : dem'[c] = dem[c]
    /\ \/ DemandAsks(d) \/ DemandHasFetched(d) \/ DemandRefused(d) \/ DemandReadsOn(d)
       \/ DemandHasRead(d) \/ DemandUnread(d) \/ DemandLeaves(d)

LEMMA DetachLeaves ==
    ASSUME Shapes, Detach
    PROVE  \A e \in Exports :
             /\ exp'[e].at = exp[e].at
             /\ ExportLive(e) => exp'[e].base = exp[e].base /\ exp'[e].gen = exp[e].gen
                                 /\ exp'[e].demand = exp[e].demand
<1>1. TAKE e \in Exports
<1>a. exp[e] \in ExportShape
  BY DEF Shapes, Typed
<1>2. CASE e = activeExport
  <2>1. exp[e] \in ExportingShape
    BY <1>a, <1>2 DEF ExportShape, Shapes, HeldIsLive, ExportLive, Exports, None
  <2>2. exp'[e] = [exp[e] EXCEPT !.aborted = TRUE, !.sink = AbortSink(@)]
    BY <1>2 DEF Detach
  <2>3. QED
    BY <2>1, <2>2 DEF ExportingShape
<1>3. CASE e # activeExport /\ e = retained
  <2>1. exp[e] = [at |-> "done", sink |-> "committed"]
    BY <1>3 DEF Shapes, HeldIsLive, Exports, None
  <2>2. exp'[e] = [exp[e] EXCEPT !.sink = "disposed"]
    BY <1>3 DEF Detach
  <2>3. QED
    BY <2>1, <2>2 DEF ExportLive
<1>4. CASE e # activeExport /\ e # retained
  BY <1>4 DEF Detach
<1>5. QED
  BY <1>2, <1>3, <1>4

\* The records a demand goes through.
LEMMA DemandFields ==
    ASSUME NEW d \in Demands, dem \in [Demands -> DemandShape]
    PROVE  /\ \A w, k : Demanded(d, k, w) =>
                /\ demand' = d /\ dem'[d].at = w /\ dem'[d].base = base /\ dem'[d].gen = state.result.gen
                /\ dem'[d].read = Reading(view, db)
                /\ dem'[d].revision = state.result.revision /\ dem'[d].error = state.result.error
           /\ DemandLive(d) =>
                /\ dem' = [dem EXCEPT ![d].at = "viewer"] =>
                     /\ dem'[d].at = "viewer" /\ dem'[d].base = dem[d].base /\ dem'[d].gen = dem[d].gen
                     /\ dem'[d].revision = dem[d].revision /\ dem'[d].error = dem[d].error
                     /\ dem'[d].read = dem[d].read
                /\ \A n : dem' = [dem EXCEPT ![d].at = "cleanup", ![d].downloads = n] =>
                     /\ dem'[d].at = "cleanup" /\ dem'[d].base = dem[d].base /\ dem'[d].gen = dem[d].gen
<1>1. \A w, k : Demanded(d, k, w) =>
        /\ demand' = d /\ dem'[d].at = w /\ dem'[d].base = base /\ dem'[d].gen = state.result.gen
        /\ dem'[d].read = Reading(view, db)
        /\ dem'[d].revision = state.result.revision /\ dem'[d].error = state.result.error
  BY DEF Demanded
<1>2. DemandLive(d) => dem[d] \in DemandedShape
  BY DEF DemandLive, DemandShape, Over
<1>4. ASSUME DemandLive(d), dem' = [dem EXCEPT ![d].at = "viewer"]
      PROVE  /\ dem'[d].at = "viewer" /\ dem'[d].base = dem[d].base /\ dem'[d].gen = dem[d].gen
             /\ dem'[d].revision = dem[d].revision /\ dem'[d].error = dem[d].error
             /\ dem'[d].read = dem[d].read
  BY <1>2, <1>4 DEF DemandedShape
<1>5. ASSUME DemandLive(d), NEW n, dem' = [dem EXCEPT ![d].at = "cleanup", ![d].downloads = n]
      PROVE  /\ dem'[d].at = "cleanup" /\ dem'[d].base = dem[d].base /\ dem'[d].gen = dem[d].gen
  BY <1>2, <1>5 DEF DemandedShape
<1>6. QED
  BY <1>1, <1>4, <1>5

LEMMA DemandTurns ==
    ASSUME Assumptions, Shapes, BaseInOrder, WholeIsWhole, NEW d \in Demands, Demand(d) \/ DemandStep(d)
    PROVE  DemandTurn(d)
<1> USE DEF SessionRest, sorterVars
<1>a. state \in StateShape /\ dem \in [Demands -> DemandShape] /\ base \in {None} \cup Queries
  BY DEF Shapes, Typed
<1>b. UNCHANGED <<disposed, queryGen, suspendedBy, activeSort, srt, run>>
  BY DEF Demand, LoadMore, RetryPage, LoadWindow, DemandStep, DemandFetched, DemandFetchFails, DemandRead,
         DemandViewer, DemandReadFails, DemandGivesUp
<1>c. \A c \in Demands \ {d} : dem'[c] = dem[c]
  BY <1>a DEF Demand, LoadMore, RetryPage, LoadWindow, Demanded, DemandStep, DemandFetched, DemandFetchFails,
              DemandRead, DemandViewer, DemandReadFails, DemandGivesUp, DemandPublishes, DemandEnds
<1>d. DemandStep(d) => DemandLive(d)
  BY DEF DemandStep, DemandFetched, DemandFetchFails, DemandRead, DemandViewer, DemandReadFails,
    DemandGivesUp,
         DemandLive
<1>e. DemandEnds(d) => dem'[d].at = "done" /\ DemandClears(d)
  BY <1>a DEF DemandEnds, DemandClears
<1>f. DemandStep(d) => dem[d] \in DemandedShape /\ dem[d].base \in Queries
  BY <1>a, <1>d DEF DemandLive, DemandShape, Over, DemandedShape
<1>1. CASE Demand(d)
  <2>1. \A w, k : Demanded(d, k, w) =>
          /\ demand' = d /\ dem'[d].at = w /\ dem'[d].base = base /\ dem'[d].gen = state.result.gen
          /\ dem'[d].read = Reading(view, db)
          /\ dem'[d].revision = state.result.revision /\ dem'[d].error = state.result.error
    BY <1>a, DemandFields
  <2>2. DemandAsks(d)
    BY <1>1, <2>1 DEF Demand, LoadMore, RetryPage, LoadWindow, MayDemand, DemandAsks, HasResult, SortPending,
                      Stays, exportVars, dbVars
  <2>3. QED
    BY <1>b, <1>c, <2>2 DEF DemandTurn
<1>2. CASE DemandFetched(d)
  <2>1. Answered(dem[d].base, "open") \/ Answered(dem[d].base, "retry")
    BY <1>2, <1>f, FetchAnswers DEF DemandFetched, DemandStep, WholeIsWhole
  <2>2. CASE DemandActive(d)
    <3>1. /\ dem'[d].at = "read" /\ dem'[d].base = dem[d].base /\ dem'[d].gen = dem[d].gen
          /\ dem'[d].revision = state.result.revision /\ dem'[d].error = state.result.error
          /\ dem'[d].read = Reading(view, db')
      <4>1. dem' = [dem EXCEPT ![d].at = "read", ![d].read = Reading(view, db'),
                               ![d].revision = state.result.revision, ![d].sort = state.result.sort,
                               ![d].error = state.result.error]
        BY <1>2, <2>2 DEF DemandFetched
      <4>2. dem[d] \in DemandedShape
        BY <1>2, <1>f DEF DemandStep
      <4>3. QED
        BY <1>a, <4>1, <4>2 DEF DemandedShape
    <3>2. DemandHasFetched(d)
      BY <1>2, <2>1, <2>2, <3>1 DEF DemandFetched, DemandHasFetched, exportVars
    <3>3. QED
      BY <1>b, <1>c, <3>2 DEF DemandTurn
  <2>3. CASE ~DemandActive(d)
    <3>1. DemandHasFetched(d)
      BY <1>2, <1>e, <2>1, <2>3 DEF DemandFetched, DemandHasFetched, exportVars
    <3>2. QED
      BY <1>b, <1>c, <3>1 DEF DemandTurn
  <2>4. QED
    BY <2>2, <2>3
<1>3. CASE DemandFetchFails(d)
  <2>1. \A e \in {"retry", "final"} : FetchFails(dem[d].base, e) => FetchRefused(dem[d].base, e)
    BY <1>3, <1>f, FetchAnswers DEF DemandStep, WholeIsWhole
  <2>2. DemandRefused(d)
    BY <1>3, <1>e, <2>1 DEF DemandFetchFails, DemandRefused, exportVars
  <2>3. QED
    BY <1>b, <1>c, <2>2 DEF DemandTurn
<1>4. ASSUME DemandPublishes(d), dem[d].at \in {"read", "viewer"}, UNCHANGED <<base, view, closes, exportVars, dbVars>>,
             DemandStep(d)
      PROVE  DemandTurn(d)
  <2>1. CASE DemandActive(d) /\ view = dem[d].read.view
    <3> DEFINE r == Paged(dem[d].gen, dem[d].read, dem[d].revision, dem[d].sort, dem[d].error)
    <3>1. r \in RowsShape
      BY <1>4, <1>f DEF Paged, RowsShape, DemandedShape, ReadShape
    <3>2. state' = WindowUpdated(state, r)
      BY <1>4, <2>1 DEF DemandPublishes
    <3>3. \/ state' = state
          \/ /\ state'.result = r /\ state.result # NoResult
             /\ r.gen = state.result.gen /\ r.revision = state.result.revision
      BY <1>a, <3>1, <3>2, WindowUpdatedDoes
    <3>4. /\ r.gen = dem[d].gen /\ r.revision = dem[d].revision /\ r.complete = dem[d].read.whole
          /\ r.error = dem[d].error /\ r.loading = FALSE
      BY DEF Paged
    <3>5. r # NoResult
      BY <3>1 DEF RowsShape, NoResult, None, Queries
    <3> HIDE DEF r
    <3>6. state' # state => Publishable(d)
      BY <1>4, <1>f, <2>1, <3>3, <3>4 DEF BaseInOrder, None, Queries, Publishable, DemandActive,
        IsActiveResult, IsCurrentQuery, Shows, HasResult
    <3>7. DemandHasRead(d)
      BY <1>4, <1>e, <2>1, <3>3, <3>4, <3>5, <3>6
         DEF DemandPublishes, DemandHasRead, Stays, exportVars, dbVars, HasResult
    <3>8. QED
      BY <1>b, <1>c, <3>7 DEF DemandTurn
  <2>2. CASE ~(DemandActive(d) /\ view = dem[d].read.view)
    <3>1. DemandHasRead(d)
      BY <1>4, <1>e, <2>2 DEF DemandPublishes, DemandHasRead, Stays, exportVars, dbVars
    <3>2. QED
      BY <1>b, <1>c, <3>1 DEF DemandTurn
  <2>3. QED
    BY <2>1, <2>2
<1>5. CASE DemandRead(d)
  <2>1. CASE DemandPublishes(d)
    BY <1>4, <1>5, <2>1 DEF DemandRead, DemandStep
  <2>2. CASE dem' = [dem EXCEPT ![d].at = "viewer"] /\ UNCHANGED <<state, demand>>
    <3>1. /\ dem'[d].at = "viewer" /\ dem'[d].base = dem[d].base /\ dem'[d].gen = dem[d].gen
          /\ dem'[d].revision = dem[d].revision /\ dem'[d].error = dem[d].error
          /\ dem'[d].read = dem[d].read
      BY <1>5, <1>a, <1>d, <2>2, DemandFields DEF DemandStep
    <3>2. DemandReadsOn(d)
      BY <1>5, <2>2, <3>1 DEF DemandRead, DemandReadsOn, Stays, exportVars, dbVars
    <3>3. QED
      BY <1>b, <1>c, <3>2 DEF DemandTurn
  <2>3. CASE DemandEnds(d) /\ state' = state
    <3>1. DemandLeaves(d)
      BY <1>5, <1>e, <2>3 DEF DemandRead, DemandLeaves, Stays, exportVars, dbVars
    <3>2. QED
      BY <1>b, <1>c, <3>1 DEF DemandTurn
  <2>4. QED
    BY <1>5, <2>1, <2>2, <2>3 DEF DemandRead
<1>6. CASE DemandViewer(d)
  BY <1>4, <1>6 DEF DemandViewer, DemandStep
<1>7. CASE DemandReadFails(d)
  <2>1. CASE DemandActive(d)
    <3>1. dem'[d].at = "cleanup" /\ dem'[d].base = dem[d].base /\ dem'[d].gen = dem[d].gen
      BY <1>7, <1>a, <1>d, <2>1, DemandFields DEF DemandReadFails, DemandStep
    <3>2. state'.result = PageFailed(state, "final").result
      BY <1>7, <1>a, <2>1, NoteEvents, DownloadLeaves DEF DemandReadFails, Errors, SameRows
    <3>3. ExportsLeave
      BY <1>7, <2>1, DetachLeaves DEF DemandReadFails, SupersedeExport, ExportsLeave
    <3>4. DemandUnread(d)
      BY <1>7, <3>1, <3>2, <3>3 DEF DemandReadFails, DemandUnread, Stays, DemandClears, dbVars
    <3>5. QED
      BY <1>b, <1>c, <3>4 DEF DemandTurn
  <2>2. CASE ~DemandActive(d)
    <3>1. dem'[d].at = "done"
      BY <1>7, <1>a, <2>2 DEF DemandReadFails
    <3>2. DemandLeaves(d)
      BY <1>7, <2>2, <3>1 DEF DemandReadFails, DemandLeaves, Stays, DemandClears, dbVars, exportVars
    <3>3. QED
      BY <1>b, <1>c, <3>2 DEF DemandTurn
  <2>3. QED
    BY <2>1, <2>2
<1>8. CASE DemandGivesUp(d)
  <2>1. dem'[d].at = "done"
    BY <1>8, <1>a DEF DemandGivesUp
  <2>2. Withdraws \/ (Stays /\ state' = state)
    BY <1>8, CloseWithdraws DEF DemandGivesUp, Stays
  <2>3. DemandLeaves(d)
    BY <1>8, <2>1, <2>2 DEF DemandGivesUp, DemandLeaves, exportVars
  <2>4. QED
    BY <1>b, <1>c, <2>3 DEF DemandTurn
<1>9. QED
  BY <1>1, <1>2, <1>3, <1>5, <1>6, <1>7, <1>8 DEF DemandStep

\* The counts on display may follow those of session q.
Counted(q, d) ==
    \/ state'.result = state.result
    \/ /\ HasResult /\ HasResult' /\ state.result.gen = q /\ state'.result.gen = q
       /\ state'.result.error = state.result.error /\ state'.result.revision = state.result.revision
       /\ state'.result.complete = d[q].whole

Noted(e) == state'.result = PageFailed(state, e).result

SortWaits(s) == srt[s].at # "drain" /\ UNCHANGED db /\ state'.result = state.result

SortHasFetched(s) ==
    /\ srt[s].at = "drain" /\ Answered(srt[s].base, "open")
    /\ \/ IsCurrentSort(s) /\ Counted(srt[s].q, db')
       \/ ~IsCurrentSort(s) /\ state' = state

SortRefused(s) ==
    /\ srt[s].at = "drain" /\ srt'[s].at = "unwind"
    /\ \E e \in {"retry", "final"} :
         /\ FetchRefused(srt[s].base, e)
         /\ IF IsCurrentSort(s) THEN Noted(e) ELSE state' = state

SortAdopted(s) ==
    /\ srt[s].at = "read" /\ IsCurrentSort(s) /\ srt[s].read.whole /\ UNCHANGED db
    /\ \/ state'.result = state.result
       \/ /\ HasResult /\ HasResult' /\ state'.result.gen = state.result.gen
          /\ state'.result.complete = TRUE /\ state'.result.error = "none"

SortHolds(s) ==
    activeSort' = activeSort \/ (activeSort = s /\ srt'[s].at \in {"release", "done"})

SortEffect(s) ==
    /\ UNCHANGED <<disposed, queryGen, base, demand, suspendedBy, run, dem, closes, exportGen, exp>>
    /\ \A x \in Sorts \ {s} : srt'[x] = srt[x]
    /\ SortHolds(s)
    /\ SortWaits(s) \/ SortHasFetched(s) \/ SortRefused(s) \/ SortAdopted(s)

LEMMA CountsFollow ==
    ASSUME Shapes, NEW q \in Queries, NEW revision, NEW d \in [Queries -> DbShape],
           state'.result = RefreshCounts(state, q, revision, d).result
    PROVE  Counted(q, d)
<1>1. state \in StateShape
  BY DEF Shapes, Typed
<1>2. Recounted(state, RefreshCounts(state, q, revision, d), q, d)
  BY <1>1, CountsDo
<1> DEFINE n == RefreshCounts(state, q, revision, d)
<1>3. n.result \in RowsShape => n.result # NoResult
  BY DEF RowsShape, NoResult, None, Queries
<1> HIDE DEF n
<1>4. Recounted(state, n, q, d) /\ state'.result = n.result
  BY <1>2 DEF n
<1>5. QED
  BY <1>3, <1>4 DEF Recounted, Counted, Shows, HasResult

LEMMA SortEffects ==
    ASSUME Assumptions, Shapes, Shapes', WholeIsWhole, NEW s \in Sorts, SortStep(s)
    PROVE  SortEffect(s)
<1> USE DEF SorterRest, exportVars, dbVars
<1>a. /\ srt[s] \in OrderingShape /\ SortTurn(s)
      /\ state \in StateShape /\ db \in [Queries -> DbShape] /\ db' \in [Queries -> DbShape]
      /\ srt \in [Sorts -> SortShape]
  BY SortTurns DEF Shapes, Typed
<1>b. \A x \in Sorts \ {s} : srt'[x] = srt[x]
  BY <1>a DEF SortTurn, SortTo, SortAt, SortIsDone
<1>c. UNCHANGED <<disposed, queryGen, base, demand, suspendedBy, run, dem, closes, exportGen, exp>>
  BY DEF SortStep, SortCleaned, SortJoined, SortDrained, SortDrainFails, SortCreated, SortCreateFails,
         SortRead, SortReadFails, SortReleased, SortUnwound
<1>d. \A st \in StateShape, phase \in SortPhases : Progress(st, s, phase).result = st.result
  BY SortEventsDo DEF Progress
<1>e. SortHolds(s)
  <2>1. CASE SortRead(s)
    <3>1. Commits(s) => srt'[s].at = "release"
      BY <1>a DEF Commits, OrderingShape
    <3>2. QED
      BY <2>1, <3>1 DEF SortRead, SortHolds, IsCurrentSort
  <2>2. CASE SortUnwound(s)
    BY <1>a, <2>2 DEF SortUnwound, SortHolds
  <2>3. CASE ~SortRead(s) /\ ~SortUnwound(s)
    BY <2>3 DEF SortStep, SortCleaned, SortJoined, SortDrained, SortDrainFails, SortCreated, SortCreateFails,
                SortReadFails, SortReleased, SortHolds
  <2>4. QED
    BY <2>1, <2>2, <2>3
<1>1. CASE SortCleaned(s) \/ SortJoined(s) \/ SortCreated(s) \/ SortCreateFails(s) \/ SortReadFails(s)
           \/ SortReleased(s)
  BY <1>1, <1>b, <1>c, <1>e
     DEF SortCleaned, SortJoined, SortCreated, SortCreateFails, SortReadFails, SortReleased, SortEffect,
         SortWaits
<1>2. CASE SortDrained(s)
  <2>1. Answered(srt[s].base, "open")
    BY <1>2, <1>a, FetchAnswers DEF SortDrained, WholeIsWhole, OrderingShape
  <2>2. CASE IsCurrentSort(s)
    <3> DEFINE st == RefreshCounts(state, srt[s].q, state.result.revision, db')
    <3>1. srt[s].q \in Queries
      BY <1>a, <2>2 DEF IsCurrentSort, Shows, StateShape, ResultShape, RowsShape
    <3>2. st \in StateShape
      BY <1>a, CountsShape
    <3>3. state' = Progress(st, s, "loading")
      BY <1>2, <2>2 DEF SortDrained
    <3> HIDE DEF st
    <3>4. state'.result = st.result
      BY <1>d, <3>2, <3>3 DEF SortPhases
    <3>5. Counted(srt[s].q, db')
      BY <1>a, <3>1, <3>4, CountsFollow DEF st
    <3>6. QED
      BY <1>2, <1>b, <1>c, <1>e, <2>1, <2>2, <3>5 DEF SortDrained, SortEffect, SortHasFetched
  <2>3. CASE ~IsCurrentSort(s)
    BY <1>2, <1>b, <1>c, <1>e, <2>1, <2>3 DEF SortDrained, SortEffect, SortHasFetched
  <2>4. QED
    BY <2>2, <2>3
<1>3. CASE SortDrainFails(s)
  <2>1. PICK e \in {"retry", "final"} : /\ FetchFails(srt[s].base, e)
                                        /\ state' = IF IsCurrentSort(s) THEN PageFailed(state, e) ELSE state
    BY <1>3 DEF SortDrainFails
  <2>2. FetchRefused(srt[s].base, e)
    BY <1>a, <2>1, FetchAnswers DEF WholeIsWhole, OrderingShape
  <2>3. srt'[s].at = "unwind"
    BY <1>3, <1>a, SortFields DEF SortDrainFails, SortAt, SortTo
  <2>4. QED
    BY <1>3, <1>b, <1>c, <1>e, <2>1, <2>2, <2>3 DEF SortDrainFails, SortEffect, SortRefused, Noted
<1>4. CASE SortRead(s)
  <2>1. CASE Commits(s) /\ IsCurrentSort(s) /\ srt[s].read.whole
    <3> DEFINE r == Paged(srt[s].q, srt[s].read, srt[s].from + 1, IF srt[s].kind = "order" THEN s ELSE None, "none")
    <3>1. state' = OrderCommitted(state, srt[s].q, s, srt[s].from, r)
      BY <2>1 DEF Commits
    <3> DEFINE n == [r EXCEPT !.error = "none"]
    <3>2. r.gen = srt[s].q /\ n.gen = srt[s].q /\ n.complete = srt[s].read.whole /\ n.error = "none"
      BY DEF Paged
    <3>3. srt[s].read.whole \in BOOLEAN
      BY <1>a DEF OrderingShape, ReadShape
    <3>7. state' # state =>
            state' = [state EXCEPT !.result = n, !.sorting = NoSorting] /\ r.gen = state.result.gen /\ HasResult
      BY <3>1 DEF OrderCommitted, IsSortRequest, Shows, HasResult
    <3> HIDE DEF r, n
    <3>4. \/ state' = state
          \/ state'.result = n /\ r.gen = state.result.gen /\ HasResult
      BY <1>a, <3>7 DEF StateShape
    <3>5. state' # state => HasResult'
      <4>1. state.result # NoResult => state.result.gen # None
        BY <1>a DEF StateShape, ResultShape, RowsShape, None, Queries
      <4>2. QED
        BY <3>2, <3>4, <4>1 DEF HasResult, NoResult
    <3>6. SortAdopted(s)
      BY <1>4, <2>1, <3>2, <3>3, <3>4, <3>5 DEF SortRead, SortAdopted
    <3>8. QED
      BY <1>b, <1>c, <1>e, <3>6 DEF SortEffect
  <2>2. CASE UNCHANGED <<state, view, activeSort>>
    BY <1>4, <1>b, <1>c, <1>e, <2>2 DEF SortRead, SortEffect, SortWaits
  <2>3. QED
    BY <1>4, <2>1, <2>2 DEF SortRead
<1>5. CASE SortUnwound(s)
  <2>1. Outcome(s).result = state.result
    BY <1>a, <1>d, SortEndedDoes DEF Outcome, SortPhases
  <2>2. QED
    BY <1>5, <1>b, <1>c, <1>e, <2>1 DEF SortUnwound, SortEffect, SortWaits
<1>6. QED
  BY <1>1, <1>2, <1>3, <1>4, <1>5 DEF SortStep

ExportStill == UNCHANGED <<suspendedBy, db>> /\ state'.result = state.result

ExportPicks(e) ==
    /\ exp[e].at = "cleanup" /\ exp'[e].at = "demand" /\ exp'[e].demand = demand
    /\ CleanedUp(e - 1) /\ MayGoOn(e)
    /\ suspendedBy' = e /\ db' = db /\ state'.result = state.result

ExportFetches(e) ==
    /\ exp[e].at = "demand" /\ exp'[e].at = "drain" /\ DemandSettled(exp[e].demand) /\ MayGoOn(e)
    /\ state.result.error = "none" /\ ExportStill

ExportHasFetched(e) ==
    /\ exp[e].at = "drain" /\ Answered(exp[e].base, "open") /\ UNCHANGED suspendedBy
    /\ \/ exp'[e].at \in {"drain", "encode"} /\ MayGoOn(e) /\ Counted(exp[e].gen, db')
       \/ exp'[e].at = "unwind" /\ state' = state

ExportRefused(e) ==
    /\ exp[e].at = "drain" /\ exp'[e].at = "unwind" /\ UNCHANGED suspendedBy
    /\ \E k \in {"retry", "final"} :
         /\ FetchRefused(exp[e].base, k)
         /\ IF IsCurrentExport(e) THEN Noted(k) ELSE state' = state

\* It begins to encode, or gives up before it has fetched.
ExportMoves(e) ==
    /\ UNCHANGED <<suspendedBy, db>>
    /\ \/ state'.result = state.result
       \/ MayGoOn(e) /\ state.result.error = "none" /\ Counted(exp[e].gen, db)
    /\ exp[e].at \notin {"no", "drain", "done"}
    /\ exp'[e].at \in {"encode", "commit", "finish", "unwind"}
    /\ exp[e].at = "cleanup" => CleanedUp(e - 1)

ExportIsOver(e) ==
    /\ exp[e].at \in {"commit", "finish", "unwind"} /\ exp'[e].at = "done"
    /\ suspendedBy' = (IF suspendedBy = e THEN None ELSE suspendedBy)
    /\ db' = db /\ state'.result = state.result

ExportTurn(e) ==
    /\ UNCHANGED <<disposed, queryGen, base, demand, run, dem, closes, activeSort, srt, exportGen>>
    /\ ExportLive(e) /\ \A x \in Exports \ {e} : exp'[x] = exp[x]
    /\ ExportLive(e)' => /\ exp'[e].base = exp[e].base /\ exp'[e].gen = exp[e].gen
                         /\ (exp[e].at # "cleanup" => exp'[e].demand = exp[e].demand)
    /\ \/ ExportPicks(e) \/ ExportFetches(e) \/ ExportHasFetched(e) \/ ExportRefused(e)
       \/ ExportMoves(e) \/ ExportIsOver(e)

\* The records a download goes through.
LEMMA ExportFields ==
    ASSUME NEW e \in Exports, exp \in [Exports -> ExportShape], ExportLive(e)
    PROVE  /\ exp[e] \in ExportingShape
           /\ \A w : ExportGoes(e, w) => exp'[e].at = w /\ exp'[e].demand = exp[e].demand
           /\ \A r : ExportThrows(e, r) => exp'[e].at = "unwind" /\ exp'[e].demand = exp[e].demand
<1>1. exp[e] \in ExportingShape
  BY DEF ExportLive, ExportShape
<1>2. \A w : ExportGoes(e, w) => exp'[e].at = w /\ exp'[e].demand = exp[e].demand
  BY <1>1 DEF ExportGoes, ExportingShape
<1>3. \A r : ExportThrows(e, r) => exp'[e].at = "unwind" /\ exp'[e].demand = exp[e].demand
  BY <1>1 DEF ExportThrows, ExportingShape
<1>4. QED
  BY <1>1, <1>2, <1>3

LEMMA ExportTurns ==
    ASSUME Assumptions, Shapes, Shapes', WholeIsWhole, NEW e \in Exports, ExportStep(e)
    PROVE  ExportTurn(e)
<1> USE DEF ExporterRest, sorterVars, dbVars
<1>a. /\ state \in StateShape /\ db \in [Queries -> DbShape] /\ db' \in [Queries -> DbShape]
      /\ exp \in [Exports -> ExportShape]
  BY DEF Shapes, Typed
<1>b. /\ ExportLive(e) /\ exp' = [exp EXCEPT ![e] = exp'[e]]
      /\ ExportLive(e)' => exp'[e].gen = exp[e].gen /\ exp'[e].base = exp[e].base
      /\ UNCHANGED <<disposed, queryGen, base, demand, run, dem, closes, activeSort, srt, exportGen>>
  BY ExportGoesOn
<1>c. \A x \in Exports \ {e} : exp'[x] = exp[x]
  <2>1. \A y : exp' = [exp EXCEPT ![e] = y] => \A x \in Exports \ {e} : exp'[x] = exp[x]
    BY <1>a
  <2>2. QED
    BY <1>b, <2>1
<1>d. /\ exp[e] \in ExportingShape
      /\ \A w : ExportGoes(e, w) => exp'[e].at = w /\ exp'[e].demand = exp[e].demand
      /\ \A r : ExportThrows(e, r) => exp'[e].at = "unwind" /\ exp'[e].demand = exp[e].demand
  BY <1>a, <1>b, ExportFields
<1>e. \A st \in StateShape, phase \in DownloadPhases : Report(st, e, phase).result = st.result
  BY ReportShape DEF SameRows
<1>f. exp[e].gen \in Queries /\ exp[e].base \in Queries
  BY <1>d DEF ExportingShape
<1>g. ASSUME NEW d \in {db, db'}, Encodes(e, state, d)
      PROVE  Counted(exp[e].gen, d) /\ exp'[e].at = "encode" /\ exp'[e].demand = exp[e].demand
  <2>1. d \in [Queries -> DbShape]
    BY <1>a
  <2> DEFINE st == RefreshCounts(state, exp[e].gen, exp[e].revision, d)
  <2>2. st \in StateShape
    BY <1>a, <2>1, CountsShape
  <2>3. state' = Report(st, e, "encoding")
    BY <1>g DEF Encodes
  <2> HIDE DEF st
  <2>4. state'.result = st.result
    BY <1>e, <2>2, <2>3 DEF DownloadPhases
  <2>5. Counted(exp[e].gen, d)
    BY <1>f, <2>1, <2>4, CountsFollow DEF st
  <2>6. QED
    BY <1>d, <1>g, <2>5 DEF Encodes
<1> DEFINE Fields == ExportLive(e)' => (exp[e].at # "cleanup" => exp'[e].demand = exp[e].demand)
<1>1. CASE ExportPicked(e)
  <2>1. CASE MayGoOn(e)
    <3>1. exp'[e].at = "demand" /\ exp'[e].demand = demand
      <4>1. exp' = [exp EXCEPT ![e].at = "demand", ![e].demand = demand, ![e].sink = "open"]
        BY <1>1, <2>1 DEF ExportPicked
      <4>2. QED
        BY <1>a, <1>d, <4>1 DEF ExportingShape
    <3>2. state'.result = state.result
      BY <1>1, <1>a, <1>e, <2>1 DEF ExportPicked, DownloadPhases
    <3>3. ExportPicks(e)
      BY <1>1, <2>1, <3>1, <3>2 DEF ExportPicked, ExportPicks
    <3>4. QED
      BY <1>b, <1>c, <3>3 DEF ExportTurn, ExportPicks
  <2>2. CASE ~MayGoOn(e)
    <3>1. exp'[e].at = "unwind"
      <4>1. exp' = [exp EXCEPT ![e].at = "unwind", ![e].error = "abort", ![e].sink = "aborted"]
        BY <1>1, <2>2 DEF ExportPicked
      <4>2. QED
        BY <1>a, <1>d, <4>1 DEF ExportingShape
    <3>2. ExportMoves(e)
      BY <1>1, <2>2, <3>1 DEF ExportPicked, ExportMoves, Counted
    <3>3. QED
      BY <1>1, <1>b, <1>c, <3>2 DEF ExportTurn, ExportPicked
  <2>3. QED
    BY <2>1, <2>2
<1>2. CASE ExportPickFails(e)
  <2>1. ExportMoves(e)
    BY <1>2, <1>d DEF ExportPickFails, ExportMoves, Counted
  <2>2. QED
    BY <1>2, <1>b, <1>c, <2>1 DEF ExportTurn, ExportPickFails
<1>3. CASE ExportJoined(e)
  <2>1. Fields /\ (ExportFetches(e) \/ ExportMoves(e))
    <3>1. CASE Encodes(e, state, db) /\ MayGoOn(e) /\ state.result.error = "none"
      BY <1>3, <1>g, <3>1 DEF ExportJoined, ExportMoves
    <3>2. CASE ExportGoes(e, "drain") /\ state' = state /\ MayGoOn(e) /\ state.result.error = "none"
      BY <1>3, <1>d, <3>2 DEF ExportJoined, ExportFetches, ExportStill
    <3>3. CASE (\E r : ExportThrows(e, r)) /\ state' = state
      BY <1>3, <1>d, <3>3 DEF ExportJoined, ExportMoves, Counted
    <3>4. QED
      BY <1>3, <3>1, <3>2, <3>3 DEF ExportJoined
  <2>2. QED
    BY <1>b, <1>c, <2>1 DEF ExportTurn
<1>4. CASE ExportDrained(e)
  <2>1. Answered(exp[e].base, "open")
    BY <1>4, <1>f, FetchAnswers DEF ExportDrained, WholeIsWhole
  <2>2. Fields /\ ExportHasFetched(e)
    <3>1. CASE Encodes(e, state, db') /\ MayGoOn(e)
      BY <1>4, <1>g, <2>1, <3>1 DEF ExportDrained, ExportHasFetched
    <3>2. CASE /\ state' = RefreshCounts(state, exp[e].gen, exp[e].revision, db') /\ exp' = exp
               /\ MayGoOn(e)
      <4>1. Counted(exp[e].gen, db')
        BY <1>a, <1>f, <3>2, CountsFollow
      <4>2. QED
        BY <1>4, <2>1, <3>2, <4>1 DEF ExportDrained, ExportHasFetched
    <3>3. CASE ExportThrows(e, "abort") /\ state' = state
      BY <1>4, <1>d, <2>1, <3>3 DEF ExportDrained, ExportHasFetched
    <3>4. QED
      BY <1>4, <3>1, <3>2, <3>3 DEF ExportDrained
  <2>3. QED
    BY <1>b, <1>c, <2>2 DEF ExportTurn
<1>5. CASE ExportDrainFails(e)
  <2>1. \A k \in {"retry", "final"} : FetchFails(exp[e].base, k) => FetchRefused(exp[e].base, k)
    BY <1>f, FetchAnswers DEF WholeIsWhole
  <2>2. Fields /\ ExportRefused(e)
    BY <1>5, <1>d, <2>1 DEF ExportDrainFails, ExportRefused, Noted
  <2>3. QED
    BY <1>b, <1>c, <2>2 DEF ExportTurn
<1>6. CASE ExportEncoded(e) \/ ExportEncodeFails(e) \/ ExportCommitFails(e) \/ ExportFinishFails(e)
  <2>1. exp' = [exp EXCEPT ![e].at = "commit", ![e].sink = "committing"] =>
          exp'[e].at = "commit" /\ exp'[e].demand = exp[e].demand
    BY <1>a, <1>d DEF ExportingShape
  <2>2. state'.result = state.result
    BY <1>6, <1>a, <1>e DEF ExportEncoded, ExportEncodeFails, ExportCommitFails, ExportFinishFails,
      DownloadPhases
  <2>3. Fields /\ ExportMoves(e)
    BY <1>6, <1>d, <2>1, <2>2
       DEF ExportEncoded, ExportEncodeFails, ExportCommitFails, ExportFinishFails, ExportMoves, Counted
  <2>4. QED
    BY <1>b, <1>c, <2>3 DEF ExportTurn
<1>7. CASE ExportCommitted(e)
  <2>1. CASE exp' = [exp EXCEPT ![e] = [at |-> "done", sink |-> "committed"]]
               /\ ExportEnds(e, Report(state, e, "ready-to-save"))
    <3>1. exp'[e].at = "done"
      BY <1>a, <2>1
    <3>2. state'.result = state.result
      BY <1>a, <1>e, <2>1 DEF ExportEnds, DownloadPhases
    <3>3. ExportIsOver(e)
      BY <1>7, <2>1, <3>1, <3>2 DEF ExportCommitted, ExportIsOver, ExportEnds
    <3>4. QED
      BY <1>b, <1>c, <3>1, <3>3 DEF ExportTurn, ExportLive
  <2>2. CASE /\ \/ exp' = [exp EXCEPT ![e].at = "finish", ![e].sink = "committed"]
                \/ exp' = [exp EXCEPT ![e].at = "unwind", ![e].error = "abort", ![e].sink = "committed"]
             /\ UNCHANGED <<state, suspendedBy>>
    <3>1. exp'[e].at \in {"finish", "unwind"} /\ exp'[e].demand = exp[e].demand
      BY <1>a, <1>d, <2>2 DEF ExportingShape
    <3>2. Fields /\ ExportMoves(e)
      BY <1>7, <2>2, <3>1 DEF ExportCommitted, ExportMoves, Counted
    <3>3. QED
      BY <1>b, <1>c, <3>2 DEF ExportTurn
  <2>3. QED
    BY <1>7, <2>1, <2>2 DEF ExportCommitted
<1>8. CASE ExportFinished(e) \/ ExportUnwound(e)
  <2>1. exp'[e].at = "done"
    BY <1>8, <1>a DEF ExportFinished, ExportUnwound
  <2>2. state'.result = state.result
    BY <1>8, <1>a, <1>e DEF ExportFinished, ExportUnwound, ExportEnds, DownloadPhases
  <2>3. ExportIsOver(e)
    BY <1>8, <2>1, <2>2 DEF ExportFinished, ExportUnwound, ExportIsOver, ExportEnds
  <2>4. QED
    BY <1>b, <1>c, <2>1, <2>3 DEF ExportTurn, ExportLive
<1>9. QED
  BY <1>1, <1>2, <1>3, <1>4, <1>5, <1>6, <1>7, <1>8 DEF ExportStep

-----------------------------------------------------------------------------
(* The other steps: calls, and closes.                                        *)

\* Sorts are told to stop, and go on to do so.
SortsLeave ==
    \A s \in Sorts :
      /\ srt'[s].at = srt[s].at
      /\ SortLive(s) => /\ srt'[s].base = srt[s].base /\ srt'[s].downloads = srt[s].downloads
                        /\ srt'[s].demand = srt[s].demand /\ srt'[s].read = srt[s].read

ExportsKeep ==
    \A e \in Exports :
      /\ exp'[e].at = exp[e].at
      /\ ExportLive(e) => exp'[e].base = exp[e].base /\ exp'[e].gen = exp[e].gen
                          /\ exp'[e].demand = exp[e].demand

QuietTurn ==
    /\ UNCHANGED <<disposed, queryGen, base, view, suspendedBy, activeSort, run, demand, dem>>
    /\ closes = {} <=> closes' = {}
    /\ SortsLeave /\ ExportsKeep /\ exportGen' \in {exportGen, None}
    /\ SessionsMove /\ state'.result \in {state.result, NoResult}

\* A close that ends lets the demand go.
CloseTurn ==
    /\ UNCHANGED <<disposed, queryGen, base, view, suspendedBy, activeSort, srt, run, dem, exportGen, exp, db, state>>
    /\ closes # {} /\ demand' = None

StopTurn ==
    /\ UNCHANGED <<disposed, queryGen, suspendedBy, activeSort, srt, run, demand, dem, exportGen, exp>>
    /\ Withdraws

SortAsks(s) ==
    /\ UNCHANGED <<disposed, queryGen, suspendedBy, run, demand, dem>> /\ Stays /\ ExportsLeave
    /\ srt[s].at = "no" /\ srt'[s].at = "cleanup" /\ \A x \in Sorts \ {s} : srt'[x] = srt[x]
    /\ srt'[s].base = base /\ srt'[s].downloads = LastExport
    /\ HasResult /\ ~SortBlocked(state) /\ base # None
    /\ activeSort' = s /\ state'.result = state.result

DownloadAsks(e) ==
    /\ UNCHANGED <<disposed, queryGen, activeSort, srt, run, demand, dem>> /\ Stays
    /\ exp[e].at = "no" /\ exp'[e].at = "cleanup" /\ \A x \in Exports : x < e => exp[x].at # "no"
    /\ exp'[e].base = base /\ exp'[e].gen = queryGen
    /\ \A x \in Exports \ {e} :
         /\ exp'[x].at = exp[x].at
         /\ ExportLive(x) => exp'[x].base = exp[x].base /\ exp'[x].gen = exp[x].gen
                             /\ exp'[x].demand = exp[x].demand
    /\ Exportable /\ exportGen' = e /\ suspendedBy' = e /\ state'.result = state.result

\* The generation moves: what was under way is superseded.
MoveTurn ==
    /\ queryGen' = queryGen + 1 /\ queryGen' \in Queries /\ ~disposed
    /\ UNCHANGED <<suspendedBy, demand, dem>> /\ Stays
    /\ activeSort' = None /\ SortsLeave /\ ExportsLeave
    /\ \A q \in Queries : q # queryGen' => run'[q] = run[q]
    /\ \/ run' = run /\ (state'.result \in {state.result, NoResult} \/ Noted("final"))
       \/ /\ run'[queryGen'].at = "cleanup" /\ run'[queryGen'].prior = state.result
          /\ state'.result = state.result

LEMMA LiveSorts ==
    ASSUME Shapes, NEW s \in Sorts
    PROVE  /\ SortLive(s) => srt[s] \in OrderingShape
           /\ srt' = [srt EXCEPT ![s].aborted = TRUE] /\ SortLive(s) => SortsLeave
<1>a. srt \in [Sorts -> SortShape]
  BY DEF Shapes, Typed
<1>1. SortLive(s) => srt[s] \in OrderingShape
  BY <1>a DEF SortLive, SortShape, Over
<1>2. ASSUME srt' = [srt EXCEPT ![s].aborted = TRUE], SortLive(s) PROVE SortsLeave
  <2>1. \A x \in Sorts \ {s} : srt'[x] = srt[x]
    BY <1>a, <1>2
  <2>2. /\ srt'[s].at = srt[s].at /\ srt'[s].base = srt[s].base /\ srt'[s].downloads = srt[s].downloads
        /\ srt'[s].demand = srt[s].demand /\ srt'[s].read = srt[s].read
    BY <1>a, <1>1, <1>2 DEF OrderingShape
  <2>3. QED
    BY <2>1, <2>2 DEF SortsLeave
<1>3. QED
  BY <1>1, <1>2

LEMMA SupersededLeave ==
    ASSUME Shapes
    PROVE  /\ SupersedeSort => activeSort' = None /\ SortsLeave
           /\ SupersedeExport => ExportsLeave
<1>1. activeSort # None => activeSort \in Sorts /\ SortLive(activeSort)
  BY DEF Shapes, Typed, HeldIsLive
<1>2. SupersedeSort => activeSort' = None /\ SortsLeave
  <2>1. CASE activeSort = None
    BY <2>1 DEF SupersedeSort, SortsLeave
  <2>2. CASE activeSort # None
    BY <1>1, <2>2, LiveSorts DEF SupersedeSort
  <2>3. QED
    BY <2>1, <2>2
<1>3. SupersedeExport => ExportsLeave
  BY DetachLeaves DEF SupersedeExport, ExportsLeave
<1>4. QED
  BY <1>2, <1>3

LEMMA SortIsAsked ==
    ASSUME Assumptions, Shapes, NEW s \in Sorts, Sort(s)
    PROVE  SortAsks(s)
<1> USE DEF SorterRest
<1>a. srt \in [Sorts -> SortShape] /\ state \in StateShape
  BY DEF Shapes, Typed
<1>1. /\ srt[s].at = "no" /\ HasResult /\ ~SortBlocked(state) /\ base # None /\ activeSort' = s
      /\ UNCHANGED <<disposed, queryGen, suspendedBy, run, demand, dem>> /\ Stays /\ SupersedeExport
  BY DEF Sort, HasResult, Stays, dbVars
<1>2. /\ srt'[s].at = "cleanup" /\ srt'[s].base = base /\ srt'[s].downloads = LastExport
      /\ \A x \in Sorts \ {s} : srt'[x] = srt[x]
  BY <1>a DEF Sort
<1>3. state'.result = state.result
  <2>1. PICK phase \in SortPhases :
          state' = WithoutDownload(SortUpdated(state, queryGen, state.result.revision, [id |-> s, phase |-> phase]))
    BY DEF Sort, SortPhases
  <2> DEFINE st == SortUpdated(state, queryGen, state.result.revision, [id |-> s, phase |-> phase])
  <2>2. st \in StateShape /\ st.result = state.result
    BY <1>a, SortEvents, SortEventsDo
  <2> HIDE DEF st
  <2>3. state' = WithoutDownload(st)
    BY <2>1 DEF st
  <2>4. QED
    BY <2>2, <2>3, DownloadLeaves DEF SameRows
<1>4. QED
  BY <1>1, <1>2, <1>3, SupersededLeave DEF SortAsks

LEMMA DownloadIsAsked ==
    ASSUME Assumptions, Shapes, NEW e \in Exports, Download(e)
    PROVE  DownloadAsks(e)
<1> USE DEF ExporterRest, sorterVars
<1>a. exp \in [Exports -> ExportShape]
  BY DEF Shapes, Typed
<1>1. /\ UNCHANGED <<disposed, queryGen, activeSort, srt, run, demand, dem>> /\ Stays
      /\ exp[e].at = "no" /\ Exportable /\ exportGen' = e /\ suspendedBy' = e
      /\ \A x \in Exports : x < e => exp[x].at # "no"
  BY DEF Download, Stays, dbVars
<1>2. exp'[e].at = "cleanup" /\ exp'[e].base = base /\ exp'[e].gen = queryGen
  <2>1. exp'[e] = [at |-> "cleanup", gen |-> queryGen, base |-> base, view |-> view,
                   revision |-> state.result.revision, aborted |-> FALSE,
                   sink |-> "none", demand |-> None, error |-> "none"]
    BY DEF Download
  <2>2. QED
    BY <2>1
<1>3. ASSUME NEW x \in Exports \ {e}
      PROVE  /\ exp'[x].at = exp[x].at
             /\ ExportLive(x) => exp'[x].base = exp[x].base /\ exp'[x].gen = exp[x].gen
                                 /\ exp'[x].demand = exp[x].demand
  <2>1. CASE x = activeExport
    <3>1. exp[x] \in ExportingShape
      BY <1>a, <2>1 DEF ExportShape, Shapes, HeldIsLive, ExportLive, Exports, None
    <3>2. exp'[x] = [exp[x] EXCEPT !.aborted = TRUE, !.sink = AbortSink(@)]
      BY <2>1 DEF Download
    <3>3. QED
      BY <3>1, <3>2 DEF ExportingShape
  <2>2. CASE x # activeExport /\ x = retained
    <3>1. exp[x] = [at |-> "done", sink |-> "committed"]
      BY <2>2 DEF Shapes, HeldIsLive, Exports, None
    <3>2. exp'[x] = [exp[x] EXCEPT !.sink = "disposed"]
      BY <2>2 DEF Download
    <3>3. QED
      BY <3>1, <3>2 DEF ExportLive
  <2>3. CASE x # activeExport /\ x # retained
    BY <2>3 DEF Download
  <2>4. QED
    BY <2>1, <2>2, <2>3
<1>4. state'.result = state.result
  BY DownloadCallShows DEF SameRows
<1>5. QED
  BY <1>1, <1>2, <1>3, <1>4 DEF DownloadAsks

LEMMA CallMoves ==
    ASSUME Assumptions, Shapes, RunQuery \/ OpenFiles \/ Cancel \/ Dispose
    PROVE  MoveTurn
<1> USE DEF CallsRest, dbVars
<1> DEFINE shown == WithoutDownload(state)
<1>a. state \in StateShape /\ shown \in StateShape /\ shown.result = state.result /\ run \in [Queries -> RunShape]
  BY DownloadLeaves DEF SameRows, Shapes, Typed
<1>b. /\ queryGen' = queryGen + 1 /\ queryGen' \in Queries /\ ~disposed
      /\ UNCHANGED <<suspendedBy, demand, dem>> /\ Stays /\ SupersedeSort /\ SupersedeExport
  BY DEF RunQuery, OpenFiles, Cancel, Dispose, Withdraw, Stays, Queries, Assumptions, FamilyAssumption,
         Shapes, Typed
<1>c. activeSort' = None /\ SortsLeave /\ ExportsLeave
  BY <1>b, SupersededLeave
<1>1. CASE RunQuery
  <2>1. state' = QueryStarted(shown)
    BY <1>1 DEF RunQuery
  <2> HIDE DEF shown
  <2>2. state'.result = state.result
    BY <1>a, <2>1 DEF QueryStarted, StateShape
  <2>3. /\ run'[queryGen'].at = "cleanup" /\ run'[queryGen'].prior = state.result
        /\ \A q \in Queries : q # queryGen' => run'[q] = run[q]
    BY <1>1, <1>a, <1>b DEF RunQuery
  <2>4. QED
    BY <1>b, <1>c, <2>2, <2>3 DEF MoveTurn
<1>2. CASE OpenFiles \/ Dispose
  <2>1. state' = shown \/ state' = InitialState
    BY <1>2 DEF OpenFiles, Dispose
  <2> HIDE DEF shown
  <2>2. state'.result \in {state.result, NoResult}
    BY <1>a, <2>1 DEF InitialState
  <2>3. run' = run
    BY <1>2 DEF OpenFiles, Dispose
  <2>4. QED
    BY <1>b, <1>c, <2>2, <2>3 DEF MoveTurn
<1>3. CASE Cancel
  <2>1. PICK st \in {shown, PageFailed(shown, "final")} : state' = Cancelled(st)
    BY <1>3 DEF Cancel
  <2> HIDE DEF shown
  <2>2. PageFailed(shown, "final") \in StateShape
    BY <1>a, NoteEvents DEF Errors
  <2>3. PageFailed(shown, "final").result = PageFailed(state, "final").result
    BY <1>a DEF PageFailed, StateShape
  <2>4. Cancelled(st).result \in {st.result, NoResult}
    BY <1>a, <2>2 DEF Cancelled, InitialState, StateShape
  <2>5. state'.result \in {state.result, NoResult} \/ Noted("final")
    BY <1>a, <2>1, <2>3, <2>4 DEF Noted
  <2>6. run' = run
    BY <1>3 DEF Cancel
  <2>7. QED
    BY <1>b, <1>c, <2>5, <2>6 DEF MoveTurn
<1>4. QED
  BY <1>1, <1>2, <1>3

\* The steps that leave the readers alone.
LEMMA QuietCalls ==
    ASSUME Assumptions, Shapes,
           \/ CancelSort \/ DownloadRefused \/ CancelDownload \/ SaveDownload \/ DismissDownload
           \/ (\E e \in Exports : ExportProgresses(e))
    PROVE  QuietTurn
<1> USE DEF ExporterRest, SorterRest, sorterVars, exportVars, dbVars
<1>a. state \in StateShape /\ exp \in [Exports -> ExportShape]
      /\ {exportGen, activeExport} \subseteq {None} \cup Exports
  BY DEF Shapes, Typed
<1>b. db' = db => SessionsMove
  BY DEF SessionsMove, SessionsKeep
<1>c. srt' = srt => SortsLeave
  BY DEF SortsLeave
<1>d. exp' = exp => ExportsKeep
  BY DEF ExportsKeep
<1>1. CASE CancelSort
  <2>1. activeSort \in Sorts /\ SortLive(activeSort)
    BY <1>1 DEF CancelSort, SortPending, Shapes, Typed, HeldIsLive
  <2>2. SortsLeave
    BY <1>1, <2>1, LiveSorts DEF CancelSort
  <2>3. state'.result = state.result
    <3>1. \A st \in StateShape, phase \in SortPhases : Progress(st, activeSort, phase).result = st.result
      BY <2>1, SortEventsDo DEF Progress
    <3>2. QED
      BY <1>1, <1>a, <3>1 DEF CancelSort, SortPhases
  <2>4. QED
    BY <1>1, <1>b, <1>d, <2>2, <2>3 DEF CancelSort, QuietTurn
<1>2. CASE \E e \in Exports : ExportProgresses(e)
  <2>1. state'.result = state.result
    BY <1>2, <1>a, ReportShape DEF ExportProgresses, DownloadPhases, SameRows
  <2>2. QED
    BY <1>2, <1>b, <1>c, <1>d, <2>1 DEF ExportProgresses, QuietTurn
<1>3. CASE DownloadRefused \/ CancelDownload \/ SaveDownload \/ DismissDownload
  <2>1. state'.result = state.result
    BY <1>3, DownloadCallShows DEF SameRows
  <2>2. ExportsKeep /\ exportGen' \in {exportGen, None}
    <3>1. CASE DownloadRefused \/ DismissDownload
      BY <3>1, DetachLeaves DEF DownloadRefused, DismissDownload, SupersedeExport, ExportsKeep
    <3>2. CASE CancelDownload
      <4>1. activeExport \in Exports /\ exp[activeExport] \in ExportingShape
        BY <3>2, <1>a DEF CancelDownload, Shapes, HeldIsLive, ExportLive, ExportShape
      <4>2. /\ \A x \in Exports \ {activeExport} : exp'[x] = exp[x]
            /\ exp'[activeExport].at = exp[activeExport].at
            /\ exp'[activeExport].base = exp[activeExport].base
            /\ exp'[activeExport].gen = exp[activeExport].gen
            /\ exp'[activeExport].demand = exp[activeExport].demand
        BY <3>2, <1>a, <4>1 DEF CancelDownload, ExportingShape
      <4>3. QED
        BY <3>2, <4>2 DEF CancelDownload, ExportsKeep
    <3>3. CASE SaveDownload
      BY <3>3, <1>d DEF SaveDownload
    <3>4. QED
      BY <1>3, <3>1, <3>2, <3>3
  <2>3. QED
    BY <1>3, <1>b, <1>c, <2>1, <2>2
       DEF DownloadRefused, CancelDownload, SaveDownload, DismissDownload, QuietTurn
<1>4. QED
  BY <1>1, <1>2, <1>3

LEMMA QuietAnswers ==
    ASSUME Shapes,
           \/ (\E c \in closes : ReleasesView(c)) \/ (\E q \in Queries : SessionCloses(q) \/ StopEnds(q))
           \/ Planned \/ Opened \/ UNCHANGED vars
    PROVE  QuietTurn
<1> USE DEF sorterVars, exportVars, dbVars, sessionVars, storeVars, familyVars, vars
<1>a. state \in StateShape /\ db \in [Queries -> DbShape] /\ closes \subseteq CloseShape
  BY DEF Shapes, Typed
<1>b. db' = db => SessionsMove
  BY DEF SessionsMove, SessionsKeep
<1>c. srt' = srt => SortsLeave
  BY DEF SortsLeave
<1>d. exp' = exp => ExportsKeep
  BY DEF ExportsKeep
<1>1. ASSUME NEW c \in closes, ReleasesView(c) PROVE QuietTurn
  <2>1. SessionsMove
    <3>1. CASE c.base \in Queries
      BY <1>1, <3>1, CloseSessionMoves DEF ReleasesView
    <3>2. CASE c.base \notin Queries
      BY <1>1, <1>a, <1>b, <3>2 DEF ReleasesView, CloseSession
    <3>3. QED
      BY <3>1, <3>2
  <2>2. closes # {} /\ closes' # {}
    BY <1>1 DEF ReleasesView
  <2>3. QED
    BY <1>1, <1>c, <1>d, <2>1, <2>2 DEF ReleasesView, QuietTurn
<1>2. ASSUME NEW q \in Queries, SessionCloses(q) PROVE QuietTurn
  <2>1. /\ db'[q].at = "closed" /\ db'[q].whole = db[q].whole /\ db'[q].fetches = db[q].fetches
        /\ \A p \in Queries \ {q} : db'[p] = db[p]
    BY <1>2, <1>a DEF SessionCloses, DbShape
  <2>2. SessionsMove
    BY <1>2, <2>1 DEF SessionCloses, SessionsMove, SessionsKeep
  <2>3. QED
    BY <1>2, <1>c, <1>d, <2>2 DEF SessionCloses, QuietTurn
<1>3. ASSUME NEW q \in Queries, StopEnds(q) PROVE QuietTurn
  BY <1>3, <1>b, <1>c, <1>d DEF StopEnds, QuietTurn
<1>4. CASE Planned \/ Opened
  <2>1. state'.result \in {state.result, NoResult}
    BY <1>4, <1>a DEF Planned, Opened, Opening, Failed, Ready, InitialState, StateShape
  <2>2. QED
    BY <1>4, <1>b, <1>c, <1>d, <2>1 DEF Planned, Opened, QuietTurn
<1>5. CASE UNCHANGED vars
  BY <1>5, <1>b, <1>c, <1>d DEF QuietTurn
<1>6. QED
  BY <1>1, <1>2, <1>3, <1>4, <1>5

LEMMA OtherTurns ==
    ASSUME Shapes
    PROVE  /\ \A c \in closes : CloseEnds(c) => CloseTurn
           /\ \A q \in Queries : StopCloses(q) => StopTurn
<1> USE DEF sorterVars, exportVars, dbVars, storeVars
<1>1. ASSUME NEW c \in closes, CloseEnds(c) PROVE CloseTurn
  BY <1>1 DEF CloseEnds, CloseTurn
<1>2. ASSUME NEW q \in Queries, StopCloses(q) PROVE StopTurn
  BY <1>2, CloseWithdraws DEF StopCloses, StopTurn
<1>3. QED
  BY <1>1, <1>2

\* What a step is to the readers.  A demand is made when the turns that are due have run.
ReaderTurn ==
    \/ \E q \in Queries : RunTurn(q)
    \/ \E d \in Demands : DemandTurn(d) /\ (DemandAsks(d) => ContinuationsRun)
    \/ \E s \in Sorts : SortTurn(s) /\ SortEffect(s)
    \/ \E s \in Sorts : SortAsks(s)
    \/ \E e \in Exports : ExportTurn(e)
    \/ \E e \in Exports : DownloadAsks(e)
    \/ QuietTurn \/ CloseTurn \/ StopTurn \/ MoveTurn

LEMMA ReaderSteps ==
    ASSUME Assumptions, Shapes, Shapes', BaseInOrder, WholeIsWhole, [Next]_vars
    PROVE  ReaderTurn
<1>1. ASSUME NEW d \in Demands, DemandStep(d) PROVE DemandTurn(d) /\ ~DemandAsks(d)
  BY <1>1, DemandTurns
     DEF DemandStep, DemandFetched, DemandFetchFails, DemandRead, DemandViewer, DemandReadFails,
         DemandGivesUp,
         DemandAsks
<1>2. ASSUME NEW d \in Demands, Demand(d), ContinuationsRun PROVE DemandTurn(d) /\ ContinuationsRun
  BY <1>2, DemandTurns
<1>3. CASE Answers
  <2>1. ASSUME NEW q \in Queries, RunStep(q) PROVE ReaderTurn
    BY <2>1, RunTurns DEF ReaderTurn
  <2>2. ASSUME NEW d \in Demands, DemandStep(d) PROVE ReaderTurn
    BY <1>1, <2>2 DEF ReaderTurn
  <2>3. ASSUME NEW s \in Sorts, SortStep(s) PROVE ReaderTurn
    BY <2>3, SortTurns, SortEffects DEF ReaderTurn
  <2>4. ASSUME NEW e \in Exports, ExportStep(e) PROVE ReaderTurn
    BY <2>4, ExportTurns DEF ReaderTurn
  <2>5. ASSUME NEW c \in closes, CloseStep(c) PROVE ReaderTurn
    BY <2>5, OtherTurns, QuietAnswers DEF CloseStep, ReaderTurn
  <2>6. ASSUME NEW q \in Queries, SessionCloses(q) \/ StopCloses(q) \/ StopEnds(q) PROVE ReaderTurn
    BY <2>6, OtherTurns, QuietAnswers DEF ReaderTurn
  <2>7. CASE Planned \/ Opened
    BY <2>7, QuietAnswers DEF ReaderTurn
  <2>8. QED
    BY <1>3, <2>1, <2>2, <2>3, <2>4, <2>5, <2>6, <2>7 DEF Answers
<1>4. CASE UserCalls
  BY <1>2, <1>4, CallMoves, SortIsAsked, DownloadIsAsked, QuietCalls DEF UserCalls, ReaderTurn
<1>5. CASE UNCHANGED vars
  BY <1>5, QuietAnswers DEF ReaderTurn
<1>6. QED
  BY <1>3, <1>4, <1>5 DEF Next

-----------------------------------------------------------------------------
(* The invariant, and what every step does to the parts of the family.         *)

ReaderInv ==
    /\ SessionsInOrder /\ OneDemand /\ OneFetch /\ FamilyIsShown /\ ExportsInOrder /\ SortsAreAlone
    /\ WholeIsWhole /\ RetriesAreHeld /\ ExportsAreAlone /\ RunsAreAlone

\* What holds before a step, and what the other invariants say of the state it reaches.
Before ==
    /\ Assumptions /\ Shapes /\ OrderInv /\ OpenInv /\ ReaderInv
    /\ Shapes' /\ OrderInv' /\ OpenInv'

RunningAts == {"cleanup", "closing", "start", "drop", "fetch", "read", "viewer", "fail"}
Begun(q) == run[q].at \notin {"no", "cleanup", "closing", "start"}

RunsGo ==
    \A q \in Queries :
      /\ run[q].at = "done" => run'[q].at = "done"
      /\ Begun(q) => Begun(q)'

DemandGoes(d) ==
    /\ DemandLive(d) /\ dem'[d].base = dem[d].base /\ dem'[d].gen = dem[d].gen
    /\ dem'[d].at = "fetch" => dem[d].at = "fetch"
    /\ DemandBusy(d)' => DemandBusy(d)

DemandsGo == \A d \in Demands : DemandLive(d)' => DemandAsks(d) \/ DemandGoes(d)

SessionsEnd ==
    \A q \in Queries :
      \/ db'[q].at = db[q].at
      \/ db[q].at \in {"open", "closing"} /\ db'[q].at \in {"closing", "closed"}
      \/ run[q].at = "start" /\ db[q].at \in {"none", "cancelled"} /\ db'[q].at = "cancelled"

WholeStays == \A q \in Queries : db[q].whole => db'[q].whole

LEMMA RunsGoOn ==
    ASSUME Before, ReaderTurn
    PROVE  RunsGo
<1>1. ASSUME NEW q \in Queries, RunTurn(q) PROVE RunsGo
  <2>1. run[q].at # "done" /\ run'[q].at # "no"
    BY <1>1 DEF RunTurn, RunWithdraws, RunNotes, RunLeaves, RunStarted, RunHasFetched, RunReadsOn, RunShows
  <2>2. Begun(q) => Begun(q)'
    BY <1>1 DEF RunTurn, RunWithdraws, RunNotes, RunLeaves, RunStarted, RunHasFetched, RunReadsOn,
      RunShows, Begun
  <2>3. QED
    BY <1>1, <2>1, <2>2 DEF RunTurn, RunsGo, Begun
<1>2. CASE MoveTurn
  <2>1. run[queryGen'].at = "no"
    BY <1>2 DEF Before, MoveTurn, OrderInv, RunsInOrder, Shapes, Typed, Queries
  <2>2. QED
    BY <1>2, <2>1 DEF MoveTurn, RunsGo, Begun
<1>3. run' = run => RunsGo
  BY DEF RunsGo, Begun
<1>4. QED
  BY <1>1, <1>2, <1>3
     DEF ReaderTurn, DemandTurn, SortEffect, SortAsks, ExportTurn, DownloadAsks, QuietTurn, CloseTurn,
         StopTurn

LEMMA DemandsGoOn ==
    ASSUME Before, ReaderTurn
    PROVE  DemandsGo
<1>1. ASSUME NEW d \in Demands, DemandTurn(d) PROVE DemandsGo
  <2>1. DemandLive(d)' => DemandAsks(d) \/ DemandGoes(d)
    BY <1>1 DEF DemandTurn, DemandHasFetched, DemandRefused, DemandReadsOn, DemandHasRead, DemandUnread,
      DemandLeaves,
                DemandLive, DemandBusy, DemandGoes
  <2>2. QED
    BY <1>1, <2>1 DEF DemandTurn, DemandsGo, DemandGoes, DemandLive, DemandBusy
<1>2. dem' = dem => DemandsGo
  BY DEF DemandsGo, DemandGoes, DemandLive, DemandBusy
<1>3. QED
  BY <1>1, <1>2
     DEF ReaderTurn, RunTurn, SortEffect, SortAsks, ExportTurn, DownloadAsks, QuietTurn, CloseTurn,
         StopTurn, MoveTurn

LEMMA SessionsGoOn ==
    ASSUME Before, ReaderTurn
    PROVE  /\ SessionsEnd \/ \E q \in Queries : RunTurn(q) /\ RunStarted(q)
           /\ WholeStays
<1>1. /\ Stays => SessionsEnd /\ WholeStays
      /\ SessionsMove => SessionsEnd /\ WholeStays
      /\ \A q \in Queries : Answered(q, "open") \/ Answered(q, "retry") => SessionsEnd /\ WholeStays
      /\ \A q \in Queries : \A e \in {"retry", "final"} : FetchRefused(q, e) => SessionsEnd /\ WholeStays
      /\ \A q \in Queries : RunStarted(q) => WholeStays
      /\ db' = db => SessionsEnd /\ WholeStays
  BY DEF Stays, SessionsMove, SessionsKeep, Answered, FetchRefused, RunStarted, SessionsEnd, WholeStays
<1>2. Withdraws => SessionsEnd /\ WholeStays
  BY <1>1 DEF Withdraws
<1> DEFINE Goal == (SessionsEnd \/ \E q \in Queries : RunTurn(q) /\ RunStarted(q)) /\ WholeStays
<1>3. ASSUME NEW q \in Queries, RunTurn(q) PROVE Goal
  BY <1>1, <1>2, <1>3 DEF RunTurn, RunWithdraws, RunNotes, RunLeaves, RunHasFetched, RunReadsOn, RunShows
<1>4. ASSUME NEW d \in Demands, DemandTurn(d) PROVE Goal
  <2>1. DemandLive(d) => dem[d].base \in Queries
    BY DEF Before, Shapes, Typed, DemandShape, Over, DemandedShape, DemandLive
  <2>2. dem[d].at = "fetch" => dem[d].base \in Queries
    BY <2>1 DEF DemandLive
  <2>3. QED
    BY <1>1, <1>2, <1>4, <2>2
       DEF DemandTurn, DemandAsks, DemandHasFetched, DemandRefused, DemandReadsOn, DemandHasRead,
           DemandUnread,
           DemandLeaves
<1>5. ASSUME NEW s \in Sorts, SortTurn(s), SortEffect(s) PROVE Goal
  <2>1. SortLive(s) => srt[s].base \in Queries
    BY DEF Before, Shapes, Typed, SortShape, Over, OrderingShape, SortLive
  <2>2. srt[s].at = "drain" => srt[s].base \in Queries
    BY <2>1 DEF SortLive
  <2>3. QED
    BY <1>1, <1>5, <2>2 DEF SortEffect, SortWaits, SortHasFetched, SortRefused, SortAdopted
<1>6. ASSUME NEW e \in Exports, ExportTurn(e) PROVE Goal
  <2>1. exp[e].base \in Queries
    BY <1>6 DEF Before, Shapes, Typed, ExportShape, ExportingShape, ExportLive, ExportTurn
  <2>2. QED
    BY <1>1, <1>6, <2>1
       DEF ExportTurn, ExportPicks, ExportFetches, ExportStill, ExportHasFetched, ExportRefused,
           ExportMoves, ExportIsOver
<1>7. QED
  BY <1>1, <1>2, <1>3, <1>4, <1>5, <1>6
     DEF ReaderTurn, SortAsks, DownloadAsks, QuietTurn, CloseTurn, StopTurn, MoveTurn

SameButMarks ==
    /\ HasResult' /\ state'.result.gen = state.result.gen /\ state'.result.revision = state.result.revision
    /\ state'.result.complete = state.result.complete

LEMMA NotesDo ==
    ASSUME Shapes
    PROVE  /\ \A e \in Errors : Noted(e) =>
                /\ HasResult => SameButMarks /\ state'.result.error = e
                /\ ~HasResult => ~HasResult'
           /\ HasResult /\ state' = Loading(state) =>
                SameButMarks /\ state'.result.error = "none" /\ state'.result.loading = TRUE
<1>a. state \in StateShape
  BY DEF Shapes, Typed
<1>1. ASSUME NEW e \in Errors, Noted(e)
      PROVE  /\ HasResult => SameButMarks /\ state'.result.error = e
             /\ ~HasResult => ~HasResult'
  <2> DEFINE n == PageFailed(state, e)
  <2>1. /\ SameButNotes(state.result, n.result) /\ ((n.result = NoResult) <=> (state.result = NoResult))
        /\ state.result # NoResult => n.result.error = e
    BY <1>a, PageFailedDoes
  <2>2. state'.result = n.result
    BY <1>1 DEF Noted
  <2> HIDE DEF n
  <2>3. QED
    BY <2>1, <2>2 DEF SameButNotes, SameButMarks, HasResult
<1>2. ASSUME HasResult, state' = Loading(state)
      PROVE  SameButMarks /\ state'.result.error = "none" /\ state'.result.loading = TRUE
  <2>1. state.result \in RowsShape
    BY <1>a, <1>2 DEF StateShape, ResultShape, HasResult
  <2>2. state'.result = [state.result EXCEPT !.loading = TRUE, !.error = "none"]
    BY <1>a, <1>2 DEF Loading, StateShape
  <2>3. /\ state'.result.gen = state.result.gen /\ state'.result.revision = state.result.revision
        /\ state'.result.complete = state.result.complete
        /\ state'.result.error = "none" /\ state'.result.loading = TRUE
    BY <2>1, <2>2 DEF RowsShape
  <2>4. HasResult'
    BY <2>3 DEF HasResult, NoResult
  <2>5. QED
    BY <2>3, <2>4 DEF SameButMarks
<1>3. QED
  BY <1>1, <1>2

\* The result is the one it was, unless a query shows its own.
ResultGoes ==
    HasResult' => \/ HasResult /\ state'.result.gen = state.result.gen
                  \/ \E q \in Queries : RunTurn(q) /\ RunShows(q)

LEMMA ResultGoOn ==
    ASSUME Before, ReaderTurn
    PROVE  ResultGoes
<1>a. Shapes /\ {"none", "retry", "final"} \subseteq Errors
  BY DEF Before, Errors
<1>b. /\ state'.result \in {state.result, NoResult} => ResultGoes
      /\ \A e \in {"none", "retry", "final"} : Noted(e) => ResultGoes
      /\ \A q, d : Counted(q, d) => ResultGoes
  <2>1. state'.result \in {state.result, NoResult} => ResultGoes
    BY DEF ResultGoes, HasResult
  <2>2. ASSUME NEW e \in {"none", "retry", "final"}, Noted(e) PROVE ResultGoes
    <3>1. HasResult => SameButMarks
      BY <1>a, <2>2, NotesDo
    <3>2. ~HasResult => ~HasResult'
      BY <1>a, <2>2, NotesDo
    <3>3. QED
      BY <3>1, <3>2 DEF SameButMarks, ResultGoes
  <2>3. ASSUME NEW q, NEW d, Counted(q, d) PROVE ResultGoes
    BY <2>3 DEF Counted, ResultGoes, HasResult
  <2>4. QED
    BY <2>1, <2>2, <2>3
<1>1. ASSUME NEW q \in Queries, RunTurn(q) PROVE ResultGoes
  <2>1. RunNotes(q) => Noted("final") \/ state' = state
    BY DEF RunNotes, Noted
  <2>2. RunShows(q) => ResultGoes
    BY <1>1 DEF ResultGoes
  <2>3. QED
    BY <1>1, <1>b, <2>1, <2>2 DEF RunTurn, RunWithdraws, Withdraws, RunLeaves, RunStarted, RunHasFetched,
      RunReadsOn
<1>2. ASSUME NEW d \in Demands, DemandTurn(d) PROVE ResultGoes
  <2>1. DemandAsks(d) => ResultGoes
    BY <1>a, <1>b, NotesDo DEF DemandAsks, SameButMarks, ResultGoes
  <2>2. DemandRefused(d) => ResultGoes
    BY <1>b DEF DemandRefused, Noted
  <2>3. DemandUnread(d) => ResultGoes
    BY <1>b DEF DemandUnread, Noted
  <2>4. DemandHasRead(d) => ResultGoes
    BY <1>b DEF DemandHasRead, Publishable, ResultGoes
  <2>5. QED
    BY <1>2, <1>b, <2>1, <2>2, <2>3, <2>4 DEF DemandTurn, DemandHasFetched, DemandReadsOn, DemandLeaves,
      Withdraws
<1>3. ASSUME NEW s \in Sorts, SortEffect(s) PROVE ResultGoes
  BY <1>3, <1>b DEF SortEffect, SortWaits, SortHasFetched, SortRefused, SortAdopted, ResultGoes
<1>4. ASSUME NEW e \in Exports, ExportTurn(e) PROVE ResultGoes
  BY <1>4, <1>b DEF ExportTurn, ExportPicks, ExportFetches, ExportStill, ExportHasFetched, ExportRefused,
    ExportMoves,
                    ExportIsOver
<1>5. CASE (\E s \in Sorts : SortAsks(s)) \/ (\E e \in Exports : DownloadAsks(e)) \/ QuietTurn \/ CloseTurn
           \/ StopTurn \/ MoveTurn
  BY <1>5, <1>b DEF SortAsks, DownloadAsks, QuietTurn, CloseTurn, StopTurn, MoveTurn, Withdraws
<1>6. QED
  BY <1>1, <1>2, <1>3, <1>4, <1>5 DEF ReaderTurn

\* The base is the one on display, none, or that of a query just started.
BaseGoes ==
    \/ base' = base
    \/ base' = None /\ closes' # {}
    \/ \E q \in Queries : RunTurn(q) /\ RunStarted(q) /\ base' = q /\ q = queryGen

LEMMA BaseGoOn ==
    ASSUME Before, ReaderTurn
    PROVE  BaseGoes /\ (queryGen' = queryGen \/ MoveTurn)
<1>1. ASSUME NEW q \in Queries, RunTurn(q) PROVE BaseGoes
  BY <1>1 DEF RunTurn, RunWithdraws, Withdraws, RunNotes, RunLeaves, RunStarted, RunHasFetched,
    RunReadsOn, RunShows,
              Stays, IsCurrentQuery, BaseGoes
<1>2. ASSUME NEW d \in Demands, DemandTurn(d) PROVE BaseGoes
  BY <1>2 DEF DemandTurn, DemandAsks, DemandHasFetched, DemandRefused, DemandReadsOn, DemandHasRead,
    DemandUnread,
              DemandLeaves, Withdraws, Stays, BaseGoes
<1>3. QED
  BY <1>1, <1>2 DEF ReaderTurn, RunTurn, DemandTurn, SortEffect, SortAsks, ExportTurn, DownloadAsks,
    QuietTurn,
                    CloseTurn, StopTurn, MoveTurn, Stays, Withdraws, BaseGoes

-----------------------------------------------------------------------------
(* Each part of the invariant is kept.                                        *)

LEMMA SessionsKept ==
    ASSUME Before, ReaderTurn
    PROVE  SessionsInOrder'
<1>a. SessionsInOrder /\ RunsGo /\ DemandsGo
  BY RunsGoOn, DemandsGoOn DEF Before, ReaderInv
<1>b. SessionsEnd \/ \E q \in Queries : RunTurn(q) /\ RunStarted(q)
  BY SessionsGoOn
<1>c. run \in [Queries -> RunShape] /\ base \in {None} \cup Queries /\ (base # None => db[base].at = "open")
  BY DEF Before, Shapes, Typed, OpenInv, BaseIsOpen
\* Where the run of a query is, the session is what it was.
<1>1. ASSUME NEW q \in Queries,
             run'[q].at \in {"no", "cleanup", "closing", "start"}
      PROVE  \/ run[q].at \in {"no", "cleanup", "closing"} /\ db[q].at = "none"
             \/ run[q].at = "start" /\ run'[q].at = "start"
  <2>1. CASE run'[q] = run[q]
    BY <1>1, <1>a, <2>1 DEF SessionsInOrder
  <2>2. ASSUME NEW p \in Queries, RunTurn(p) PROVE run'[q] = run[q] \/ run[q].at \in {"cleanup", "closing"}
    <3>1. p # q => run'[q] = run[q]
      BY <2>2 DEF RunTurn
    <3>2. p = q => run[q].at \in {"cleanup", "closing"}
      BY <1>1, <2>2 DEF RunTurn, RunWithdraws, RunNotes, RunLeaves, RunStarted, RunHasFetched,
        RunReadsOn, RunShows
    <3>3. QED
      BY <3>1, <3>2
  <2>3. CASE MoveTurn
    <3>1. queryGen' = queryGen + 1 /\ queryGen \in Nat /\ (q # queryGen' => run'[q] = run[q])
      BY <2>3 DEF MoveTurn, Before, Shapes, Typed
    <3>2. run[queryGen'].at = "no"
      BY <2>3, <3>1 DEF MoveTurn, Before, OrderInv, RunsInOrder
    <3>3. QED
      BY <2>1, <3>1, <3>2, <1>a DEF SessionsInOrder
  <2>4. QED
    BY <1>a, <2>1, <2>2, <2>3
       DEF ReaderTurn, DemandTurn, SortEffect, SortAsks, ExportTurn, DownloadAsks, QuietTurn, CloseTurn,
           StopTurn,
           SessionsInOrder
<1>2. ASSUME NEW q \in Queries
      PROVE  /\ run'[q].at \in {"no", "cleanup", "closing"} => db'[q].at = "none"
             /\ run'[q].at = "start" => db'[q].at \in {"none", "cancelled"}
  <2>1. CASE SessionsEnd
    BY <1>1, <1>a, <2>1 DEF SessionsEnd, SessionsInOrder
  <2>2. ASSUME NEW p \in Queries, RunTurn(p), RunStarted(p)
        PROVE  /\ run'[q].at \in {"no", "cleanup", "closing"} => db'[q].at = "none"
               /\ run'[q].at = "start" => db'[q].at \in {"none", "cancelled"}
    BY <1>a, <2>2 DEF RunTurn, RunStarted, SessionsInOrder
  <2>3. QED
    BY <1>b, <2>1, <2>2
<1>3. ASSUME NEW d \in Demands, DemandLive(d)'
      PROVE  run'[dem'[d].base].at \notin {"no", "cleanup", "closing", "start"}
  <2>0. dem'[d].base \in Queries
    BY <1>3 DEF Before, Shapes, Typed, DemandShape, Over, DemandedShape, DemandLive
  <2>1. CASE DemandGoes(d)
    BY <1>a, <2>0, <2>1 DEF DemandGoes, SessionsInOrder, RunsGo, Begun
  <2>2. CASE DemandAsks(d)
    <3>1. dem'[d].base = base /\ db[base].at = "open"
      BY <1>c, <2>2 DEF DemandAsks
    <3>2. Begun(base)
      BY <1>a, <2>0, <3>1 DEF SessionsInOrder, Begun
    <3>3. QED
      BY <1>a, <2>0, <3>1, <3>2 DEF RunsGo, Begun
  <2>3. QED
    BY <1>3, <1>a, <2>1, <2>2 DEF DemandsGo
<1>4. QED
  BY <1>2, <1>3 DEF SessionsInOrder

LEMMA OneDemandKept ==
    ASSUME Before, ReaderTurn
    PROVE  OneDemand' /\ OneFetch'
<1>a. OneDemand /\ OneFetch /\ DemandsGo /\ BaseGoes
  BY DemandsGoOn, BaseGoOn DEF Before, ReaderInv
<1>b. /\ base \in {None} \cup Queries /\ demand \in {None} \cup Demands /\ (base # None => db[base].at = "open")
      /\ closes # {} => base = None
      /\ \A d \in Demands : DemandLive(d) => dem[d].base \in Queries
      /\ \A d \in Demands : DemandLive(d)' => dem'[d].base \in Queries
      /\ \A d \in Demands : d # None
      /\ \A q \in Queries : q # None
  BY DEF Before, Shapes, Typed, OpenInv, BaseIsOpen, DemandShape, Over, DemandedShape, DemandLive,
    Demands, Queries, None
<1>1. OneFetch'
  <2>1. SUFFICES ASSUME NEW c \in Demands, NEW d \in Demands, dem'[c].at = "fetch", dem'[d].at = "fetch",
                        dem'[c].base = dem'[d].base
                 PROVE  c = d
    BY DEF OneFetch
  <2>2. (DemandAsks(c) \/ DemandGoes(c)) /\ (DemandAsks(d) \/ DemandGoes(d))
    BY <1>a, <2>1 DEF DemandsGo, DemandLive
  <2>3. CASE DemandAsks(c) /\ DemandAsks(d)
    BY <2>3 DEF DemandAsks
  <2>4. CASE DemandGoes(c) /\ DemandGoes(d)
    BY <1>a, <2>1, <2>4 DEF DemandGoes, OneFetch
  <2>5. CASE (DemandAsks(c) /\ DemandGoes(d)) \/ (DemandGoes(c) /\ DemandAsks(d))
    <3>1. PICK x \in Demands : DemandGoes(x) /\ dem'[x].at = "fetch" /\ dem'[x].base = base /\ demand = None
      BY <2>1, <2>5 DEF DemandAsks
    <3>2. DemandBusy(x) /\ dem[x].base = base
      BY <3>1 DEF DemandGoes, DemandBusy
    <3>3. QED
      BY <1>a, <1>b, <3>1, <3>2 DEF OneDemand
  <2>6. QED
    BY <2>2, <2>3, <2>4, <2>5
<1>2. ASSUME UNCHANGED <<base, demand, dem>>, closes = {} <=> closes' = {} PROVE OneDemand'
  BY <1>2, <1>a DEF OneDemand, DemandBusy
<1>3. ASSUME base' = None, closes' # {} PROVE OneDemand'
  <2>1. \A d \in Demands : DemandBusy(d)' => dem'[d].base # base'
    BY <1>3, <1>b DEF DemandBusy, DemandLive
  <2>2. QED
    BY <1>3, <2>1 DEF OneDemand
<1>4. ASSUME NEW q \in Queries, RunTurn(q) PROVE OneDemand'
  <2>1. CASE RunStarted(q)
    <3>1. base = None
      BY <1>b, <2>1 DEF RunStarted
    <3>2. demand = None
      BY <1>a, <2>1, <3>1 DEF OneDemand, RunStarted
    <3>3. \A d \in Demands : DemandBusy(d) => dem[d].base # q
      BY <2>1 DEF RunStarted, Before, ReaderInv, SessionsInOrder, DemandBusy, DemandLive
    <3>4. demand' = None /\ base' \in {None, q} /\ dem' = dem
      BY <1>4, <2>1, <3>1, <3>2 DEF RunTurn, RunStarted
    <3>5. \A d \in Demands : DemandBusy(d)' => dem'[d].base # base'
      BY <1>b, <3>3, <3>4 DEF DemandBusy, DemandLive
    <3>6. QED
      BY <3>4, <3>5 DEF OneDemand
  <2>2. CASE RunWithdraws(q)
    BY <1>3, <2>2 DEF RunWithdraws, Withdraws
  <2>3. CASE ~RunStarted(q) /\ ~RunWithdraws(q)
    BY <1>2, <1>4, <2>3 DEF RunTurn, RunNotes, RunLeaves, RunHasFetched, RunReadsOn, RunShows, Stays
  <2>4. QED
    BY <2>1, <2>2, <2>3
<1>5. ASSUME NEW d \in Demands, DemandTurn(d) PROVE OneDemand'
  <2>1. CASE DemandAsks(d)
    <3>1. \A c \in Demands : DemandBusy(c) => dem[c].base # base
      BY <1>a, <1>b, <2>1 DEF DemandAsks, OneDemand
    <3>2. \A c \in Demands : DemandBusy(c)' /\ dem'[c].base = base => c = d
      BY <1>5, <3>1 DEF DemandTurn, DemandBusy
    <3>3. base' = base /\ base # None /\ demand' = d /\ DemandBusy(d)' /\ dem'[d].base = base
      BY <2>1 DEF DemandAsks, Stays, DemandBusy
    <3>4. QED
      BY <3>2, <3>3 DEF OneDemand
  <2>2. ASSUME DemandGoes(d), DemandBusy(d)', demand' = demand, UNCHANGED <<base, closes>> PROVE OneDemand'
    <3>1. /\ \A c \in Demands \ {d} : dem'[c] = dem[c]
          /\ DemandBusy(d) /\ dem'[d].base = dem[d].base
      BY <1>5, <2>2 DEF DemandTurn, DemandGoes
    <3>2. QED
      BY <1>a, <1>b, <2>2, <3>1 DEF OneDemand, DemandBusy
  <2>3. ASSUME ~DemandBusy(d)', DemandClears(d) \/ (demand' = demand /\ ~DemandBusy(d)), UNCHANGED <<base, closes>>
        PROVE OneDemand'
    <3>1. \A c \in Demands \ {d} : dem'[c] = dem[c]
      BY <1>5 DEF DemandTurn
    <3>2. QED
      BY <1>a, <1>b, <2>3, <3>1 DEF OneDemand, DemandBusy, DemandClears
  <2>4. CASE DemandHasFetched(d)
    BY <2>2, <2>3, <2>4 DEF DemandHasFetched, DemandGoes, DemandBusy, DemandLive
  <2>5. CASE DemandRefused(d) \/ DemandHasRead(d) \/ DemandUnread(d)
    BY <2>3, <2>5 DEF DemandRefused, DemandHasRead, DemandUnread, DemandBusy, Stays
  <2>6. CASE DemandReadsOn(d)
    BY <2>2, <2>6 DEF DemandReadsOn, DemandGoes, DemandBusy, DemandLive, Stays
  <2>7. CASE DemandLeaves(d)
    BY <1>3, <2>3, <2>7 DEF DemandLeaves, Withdraws, Stays, DemandBusy
  <2>8. QED
    BY <1>5, <2>1, <2>4, <2>5, <2>6, <2>7 DEF DemandTurn
<1>6. CASE CloseTurn
  <2>1. base = None /\ base' = None /\ demand' = None
    BY <1>6, <1>b DEF CloseTurn
  <2>2. \A d \in Demands : DemandBusy(d)' => dem'[d].base # base'
    BY <1>b, <2>1 DEF DemandBusy, DemandLive
  <2>3. QED
    BY <1>1, <2>1, <2>2 DEF OneDemand
<1>7. CASE StopTurn
  BY <1>1, <1>3, <1>7 DEF StopTurn, Withdraws
<1>8. OneDemand'
  BY <1>2, <1>4, <1>5, <1>6, <1>7
     DEF ReaderTurn, SortEffect, SortAsks, ExportTurn, DownloadAsks, QuietTurn, MoveTurn, Stays
<1>9. QED
  BY <1>1, <1>8

LEMMA FamilyKept ==
    ASSUME Before, ReaderTurn
    PROVE  FamilyIsShown'
<1>a. FamilyIsShown /\ BaseGoes /\ ResultGoes /\ RunsGo
  BY BaseGoOn, ResultGoOn, RunsGoOn DEF Before, ReaderInv
<1>b. /\ base \in {None} \cup Queries /\ (base # None => db[base].at = "open" /\ base <= queryGen)
      /\ queryGen \in Nat /\ \A q \in Queries : q # None /\ q \in Nat
      /\ \A q \in Queries : run[q].at \in {"fetch", "read", "viewer"} /\ base = q => view = Base(q)
      /\ HasResult => run[state.result.gen].at = "done"
  BY DEF Before, Shapes, Typed, OpenInv, BaseIsOpen, OrderInv, BaseInOrder, RunsInOrder, Queries, None
<1>1. CASE MoveTurn
  <2>1. /\ base' = base /\ queryGen' = queryGen + 1 /\ queryGen' \in Queries
        /\ \A q \in Queries : q # queryGen' => run'[q] = run[q]
    BY <1>1 DEF MoveTurn, Stays
  <2>2. base' # None => base' # queryGen'
    BY <1>b, <2>1
  <2>3. \A q \in Queries : base' = q => run'[q] = run[q]
    BY <1>b, <2>1, <2>2
  <2>4. QED
    BY <1>a, <2>1, <2>2, <2>3 DEF FamilyIsShown
\* Of the run of the family on display.
<1>2. ASSUME ~MoveTurn, run' = run, base' \in {base, None}, disposed' = disposed
      PROVE  FamilyIsShown'
  <2>1. queryGen' = queryGen
    BY <1>2, BaseGoOn
  <2>2. \A q \in Queries : RunTurn(q) => run'[q].at # run[q].at
    BY DEF RunTurn, RunWithdraws, RunNotes, RunLeaves, RunStarted, RunHasFetched, RunReadsOn, RunShows
  <2>3. HasResult' => HasResult /\ state'.result.gen = state.result.gen
    BY <1>2, <1>a, <2>2 DEF ResultGoes
  <2>4. CASE base' = base
    BY <1>a, <1>2, <2>1, <2>3, <2>4 DEF FamilyIsShown
  <2>5. CASE base' = None
    BY <1>b, <2>5 DEF FamilyIsShown
  <2>6. QED
    BY <1>2, <2>4, <2>5
<1>3. ASSUME NEW q \in Queries, RunTurn(q) PROVE FamilyIsShown'
  <2>0. /\ queryGen' = queryGen /\ disposed' = disposed /\ \A p \in Queries \ {q} : run'[p] = run[p]
    BY <1>3 DEF RunTurn
  <2>1. CASE RunWithdraws(q)
    BY <1>b, <2>1 DEF RunWithdraws, Withdraws, FamilyIsShown
  <2>2. CASE RunStarted(q)
    <3>1. base = None
      BY <1>b, <2>2 DEF RunStarted
    <3>2. base' \in {None, q} /\ (base' = q => ~disposed /\ run'[q].at = "fetch" /\ q = queryGen)
      BY <1>b, <2>2, <3>1 DEF RunStarted, IsCurrentQuery
    <3>3. QED
      BY <1>b, <2>0, <3>2 DEF FamilyIsShown
  \* The run ends with another family on display, or with none.
  <2>3. ASSUME base' = base, run'[q].at = "done", q = queryGen => base # q, ResultGoes /\ ~RunShows(q)
        PROVE  FamilyIsShown'
    <3>1. \A p \in Queries : p # q => ~RunTurn(p)
      <4>1. \A p \in Queries : RunTurn(p) => run'[p] # run[p]
        BY DEF RunTurn, RunWithdraws, RunNotes, RunLeaves, RunStarted, RunHasFetched, RunReadsOn, RunShows
      <4>2. QED
        BY <2>0, <4>1
    <3>2. HasResult' => HasResult /\ state'.result.gen = state.result.gen
      BY <2>3, <3>1 DEF ResultGoes
    <3>3. base' # None /\ base' = queryGen' => run'[queryGen] = run[queryGen]
      BY <1>b, <2>0, <2>3
    <3>4. QED
      BY <1>a, <2>0, <2>3, <3>2, <3>3 DEF FamilyIsShown
  <2>4. CASE RunLeaves(q)
    <3>1. base' = base /\ run'[q].at = "done" /\ ~RunShows(q)
      <4>1. RunShows(q) => HasResult' /\ state'.result.gen = q /\ run[q].at # "done"
        BY DEF RunShows
      <4>2. RunShows(q) => ~HasResult \/ state.result.gen # q
        BY <1>b, <4>1
      <4>3. QED
        BY <2>4, <4>1, <4>2 DEF RunLeaves, Stays, HasResult
    <3>2. q = queryGen => base # q
      <4>1. SUFFICES ASSUME q = queryGen, base = q PROVE FALSE
        OBVIOUS
      <4>2. ~disposed /\ base # None
        BY <1>a, <1>b, <4>1 DEF FamilyIsShown
      <4>3. run[q].at \notin {"drop", "fail"}
        BY <1>a, <4>1 DEF FamilyIsShown
      <4>4. run[q].at \in {"read", "viewer"} => run[q].read.view = Base(q) /\ view = Base(q)
        BY <1>a, <1>b, <4>1 DEF FamilyIsShown
      <4>5. run[q].at \in RunningAts
        BY <2>4 DEF RunLeaves, Before, Shapes, Typed, RunShape, Over, RunningShape, RunningAts
      <4>6. QED
        BY <2>4, <4>1, <4>2, <4>3, <4>4, <4>5 DEF RunLeaves, IsCurrentQuery, RunningAts
    <3>3. QED
      BY <1>a, <2>3, <3>1, <3>2
  <2>5. CASE RunHasFetched(q)
    <3>1. CASE run'[q].at = "done"
      <4>1. ~(IsCurrentQuery(q) /\ base = q) /\ base' = base /\ ~RunShows(q)
        BY <2>5, <3>1 DEF RunHasFetched, RunShows
      <4>2. q = queryGen => base # q
        BY <1>a, <1>b, <4>1 DEF IsCurrentQuery, FamilyIsShown
      <4>3. QED
        BY <1>a, <2>3, <3>1, <4>1, <4>2
    <3>2. CASE run'[q].at # "done"
      <4>1. /\ IsCurrentQuery(q) /\ base = q /\ base' = base /\ run'[q].at = "read"
            /\ run'[q].read = Reading(view, db') /\ view = Base(q)
        BY <1>b, <2>5, <3>2 DEF RunHasFetched
      <4>2. run'[q].read.view = Base(q)
        BY <4>1 DEF Reading
      <4>3. QED
        BY <1>a, <2>0, <4>1, <4>2 DEF FamilyIsShown, IsCurrentQuery
    <3>3. QED
      BY <3>1, <3>2
  <2>6. CASE RunNotes(q) \/ RunReadsOn(q)
    <3>1. base' = base /\ run'[q].at \in {"start", "viewer"}
          /\ (run'[q].at = "viewer" => run[q].at = "read" /\ run'[q].read = run[q].read)
      BY <2>6 DEF RunNotes, RunReadsOn, Stays
    <3>2. ~RunShows(q)
      BY <2>6 DEF RunNotes, RunReadsOn, RunShows
    <3>3. \A p \in Queries : p # q => ~RunTurn(p)
      <4>1. \A p \in Queries : RunTurn(p) => run'[p] # run[p]
        BY DEF RunTurn, RunWithdraws, RunNotes, RunLeaves, RunStarted, RunHasFetched, RunReadsOn, RunShows
      <4>2. QED
        BY <2>0, <4>1
    <3>4. HasResult' => HasResult /\ state'.result.gen = state.result.gen
      BY <1>a, <3>2, <3>3 DEF ResultGoes
    <3>5. QED
      BY <1>a, <1>b, <2>0, <3>1, <3>4 DEF FamilyIsShown
  <2>7. CASE RunShows(q)
    <3>1. base' = base /\ IsCurrentQuery(q) /\ base = q /\ run'[q].at = "done" /\ state'.result.gen = q
      BY <2>7 DEF RunShows, Stays
    <3>2. QED
      BY <1>a, <2>0, <3>1 DEF FamilyIsShown, IsCurrentQuery
  <2>8. QED
    BY <1>3, <2>1, <2>2, <2>4, <2>5, <2>6, <2>7 DEF RunTurn
<1>4. QED
  <2>1. ~MoveTurn /\ ~(\E q \in Queries : RunTurn(q)) => run' = run /\ base' \in {base, None} /\ disposed' = disposed
    BY <1>a DEF ReaderTurn, BaseGoes, DemandTurn, SortEffect, SortAsks, ExportTurn, DownloadAsks, QuietTurn,
                CloseTurn, StopTurn
  <2>2. QED
    BY <1>1, <1>2, <1>3, <2>1

\* The downloads are where they were, unless one goes on or begins.
ExportsGo ==
    \/ ExportsKeep /\ suspendedBy' = suspendedBy /\ exportGen' \in {exportGen, None}
    \/ \E e \in Exports : ExportTurn(e) \/ DownloadAsks(e)

LEMMA ExportsGoOn ==
    ASSUME Before, ReaderTurn
    PROVE  ExportsGo
<1>1. (exp' = exp => ExportsKeep) /\ (ExportsLeave => ExportsKeep /\ exportGen' = None)
  BY DEF ExportsKeep, ExportsLeave
<1>2. ASSUME NEW d \in Demands, DemandTurn(d) PROVE ExportsGo
  BY <1>1, <1>2 DEF DemandTurn, DemandAsks, DemandHasFetched, DemandRefused, DemandReadsOn,
    DemandHasRead, DemandUnread,
                    DemandLeaves, ExportsGo
<1>3. QED
  BY <1>1, <1>2 DEF ReaderTurn, RunTurn, SortEffect, SortAsks, QuietTurn, CloseTurn, StopTurn, MoveTurn,
    exportVars, ExportsGo

LEMMA ExportsInOrderKept ==
    ASSUME Before, ReaderTurn
    PROVE  ExportsInOrder'
<1>a. ExportsInOrder /\ ExportsGo /\ RunsGo /\ (queryGen' = queryGen \/ queryGen' = queryGen + 1)
  BY ExportsGoOn, RunsGoOn, BaseGoOn DEF Before, ReaderInv, MoveTurn
<1>b. /\ \A e \in Exports : e \in Nat /\ e # None
      /\ \A e \in Exports : ExportLive(e) => exp[e].gen \in Queries
      /\ queryGen \in Nat /\ exportGen \in {None} \cup Exports
      /\ \A q \in Queries : q \in Nat
  BY DEF Before, Shapes, Typed, ExportShape, ExportLive, ExportingShape, Exports, None, Queries
<1>c. \A e \in Exports : ExportLive(e) /\ exp'[e].gen = exp[e].gen =>
        exp'[e].gen <= queryGen' /\ run'[exp'[e].gen].at = "done"
  BY <1>a, <1>b DEF ExportsInOrder, RunsGo
<1>1. CASE ExportsKeep /\ suspendedBy' = suspendedBy /\ exportGen' \in {exportGen, None}
  <2>1. \A e \in Exports : exp'[e].at = exp[e].at
    BY <1>1 DEF ExportsKeep
  <2>2. ASSUME NEW e \in Exports, ExportLive(e)'
        PROVE  /\ suspendedBy' >= e /\ exp'[e].base = exp'[e].gen /\ exp'[e].gen <= queryGen'
               /\ run'[exp'[e].gen].at = "done"
    BY <1>1, <1>a, <1>c, <2>2 DEF ExportsKeep, ExportsInOrder, ExportLive
  <2>3. QED
    BY <1>1, <1>a, <2>1, <2>2 DEF ExportsInOrder, Settled
<1>2. ASSUME NEW e \in Exports, ExportTurn(e) PROVE ExportsInOrder'
  <2>a. /\ ExportLive(e) /\ exportGen' = exportGen /\ \A x \in Exports \ {e} : exp'[x] = exp[x]
        /\ ExportLive(e)' => exp'[e].base = exp[e].base /\ exp'[e].gen = exp[e].gen
    BY <1>2 DEF ExportTurn
  <2>b. exp'[e].at # "no"
    BY <1>2 DEF ExportTurn, ExportPicks, ExportFetches, ExportHasFetched, ExportRefused, ExportMoves,
      ExportIsOver
  <2>1. ASSUME NEW x \in Exports, NEW y \in Exports, x < y, exp'[y].at # "no" PROVE exp'[x].at # "no"
    BY <1>a, <2>1, <2>a, <2>b DEF ExportsInOrder, ExportLive
  <2>2. exp'[e].at \notin {"cleanup", "done"} => exp[e].at # "cleanup" \/ CleanedUp(e - 1)
    BY <1>2 DEF ExportTurn, ExportPicks, ExportFetches, ExportHasFetched, ExportRefused, ExportMoves,
      ExportIsOver
  <2>3. ASSUME NEW x \in Exports, NEW y \in Exports, x < y, exp'[y].at \notin {"no", "cleanup", "done"}
        PROVE  Settled(x)'
    <3>1. CASE y = e
      <4>1. Settled(x)
        BY <1>a, <1>b, <2>3, <2>2, <2>a, <3>1 DEF CleanedUp, ExportsInOrder, ExportLive
      <4>2. QED
        BY <1>b, <2>3, <2>a, <3>1, <4>1 DEF Settled
    <3>2. CASE y # e
      <4>1. Settled(x)
        BY <1>a, <2>3, <2>a, <3>2 DEF ExportsInOrder
      <4>2. x # e
        BY <2>a, <4>1 DEF Settled, ExportLive
      <4>3. QED
        BY <2>a, <4>1, <4>2 DEF Settled
    <3>3. QED
      BY <3>1, <3>2
  <2>4. exportGen' # None => \A x \in Exports : x > exportGen' => exp'[x].at = "no"
    BY <1>a, <2>a DEF ExportsInOrder, ExportLive
  <2>5. ASSUME NEW x \in Exports, ExportLive(x)' PROVE suspendedBy' >= x
    <3>1. ExportLive(x) /\ suspendedBy >= x
      BY <1>a, <2>5, <2>a DEF ExportsInOrder, ExportLive
    <3>2. CASE ExportPicks(e)
      <4>1. suspendedBy' = e /\ exportGen = e
        BY <3>2 DEF ExportPicks, MayGoOn, IsCurrentExport
      <4>2. ~(x > e)
        BY <1>a, <1>b, <3>1, <4>1 DEF ExportsInOrder, ExportLive
      <4>3. QED
        BY <1>b, <4>1, <4>2
    <3>3. CASE ExportIsOver(e)
      <4>1. x # e /\ exp[e].at \notin {"no", "cleanup", "done"}
        BY <2>5, <3>3 DEF ExportIsOver, ExportLive
      <4>2. ~(x < e)
        BY <1>a, <3>1, <4>1 DEF ExportsInOrder, Settled, ExportLive
      <4>3. QED
        BY <1>b, <3>1, <3>3, <4>1, <4>2 DEF ExportIsOver
    <3>4. CASE ~ExportPicks(e) /\ ~ExportIsOver(e)
      BY <1>2, <3>1, <3>4
         DEF ExportTurn, ExportFetches, ExportStill, ExportHasFetched, ExportRefused, ExportMoves
    <3>5. QED
      BY <3>2, <3>3, <3>4
  <2>6. ASSUME NEW x \in Exports, ExportLive(x)'
        PROVE  exp'[x].base = exp'[x].gen /\ exp'[x].gen <= queryGen' /\ run'[exp'[x].gen].at = "done"
    BY <1>a, <1>c, <2>6, <2>a DEF ExportsInOrder, ExportLive
  <2>7. QED
    BY <2>1, <2>3, <2>4, <2>5, <2>6 DEF ExportsInOrder
<1>3. ASSUME NEW e \in Exports, DownloadAsks(e) PROVE ExportsInOrder'
  <2>a. /\ exp[e].at = "no" /\ exp'[e].at = "cleanup" /\ exp'[e].base = base /\ exp'[e].gen = queryGen
        /\ exportGen' = e /\ suspendedBy' = e /\ queryGen' = queryGen
        /\ \A x \in Exports : x < e => exp[x].at # "no"
        /\ \A x \in Exports \ {e} :
             /\ exp'[x].at = exp[x].at
             /\ ExportLive(x) => exp'[x].base = exp[x].base /\ exp'[x].gen = exp[x].gen
    BY <1>3 DEF DownloadAsks
  <2>b. \A x \in Exports : x > e => exp[x].at = "no"
    BY <1>a, <2>a DEF ExportsInOrder
  <2>1. base = queryGen /\ run[queryGen].at = "done" /\ queryGen \in Queries
    BY <1>3 DEF DownloadAsks, Exportable, Before, OrderInv, BaseInOrder, RunsInOrder, HasResult, Shapes,
      Typed, None
  <2>2. ASSUME NEW x \in Exports, ExportLive(x)'
        PROVE  /\ suspendedBy' >= x /\ exp'[x].base = exp'[x].gen /\ exp'[x].gen <= queryGen'
               /\ run'[exp'[x].gen].at = "done"
    <3>1. CASE x = e
      BY <1>a, <1>b, <2>1, <2>a, <3>1 DEF RunsGo
    <3>2. CASE x # e
      <4>1. ExportLive(x) /\ ~(x > e)
        BY <2>2, <2>a, <2>b, <3>2 DEF ExportLive
      <4>2. QED
        BY <1>a, <1>b, <1>c, <2>a, <3>2, <4>1 DEF ExportsInOrder
    <3>3. QED
      BY <3>1, <3>2
  <2>3. \A x, y \in Exports : x < y /\ exp'[y].at # "no" => exp'[x].at # "no"
    BY <1>a, <1>b, <2>a, <2>b DEF ExportsInOrder
  <2>4. \A x, y \in Exports : x < y /\ exp'[y].at \notin {"no", "cleanup", "done"} => Settled(x)'
    BY <1>a, <1>b, <2>a, <2>b DEF ExportsInOrder, Settled
  <2>5. \A x \in Exports : x > exportGen' => exp'[x].at = "no"
    BY <1>b, <2>a, <2>b
  <2>6. QED
    BY <2>2, <2>3, <2>4, <2>5 DEF ExportsInOrder
<1>4. QED
  BY <1>1, <1>2, <1>3, <1>a DEF ExportsGo

\* The downloads asked for are the first ones.
LEMMA DownloadsCount ==
    ASSUME Assumptions, ExportsInOrder, NEW e \in Exports, exp[e].at # "no"
    PROVE  e <= LastExport
<1> DEFINE asked == {x \in Exports : exp[x].at # "no"}
<1>1. IsFiniteSet(Exports) /\ asked \subseteq Exports
  BY FS_Interval DEF Exports, Assumptions, FamilyAssumption
<1>2. 1..e \subseteq asked
  <2>1. ASSUME NEW x \in 1..e PROVE x \in Exports /\ (x < e \/ x = e)
    BY DEF Exports, Assumptions, FamilyAssumption
  <2>2. QED
    BY <2>1 DEF ExportsInOrder
<1>3. IsFiniteSet(asked) /\ Cardinality(1..e) <= Cardinality(asked)
  BY <1>1, <1>2, FS_Subset
<1>4. Cardinality(1..e) = e
  BY FS_Interval DEF Exports
<1>5. QED
  BY <1>3, <1>4 DEF LastExport

LEMMA SortsKeptAlone ==
    ASSUME Before, ReaderTurn
    PROVE  SortsAreAlone'
<1>a. SortsAreAlone /\ ExportsInOrder /\ OneDemand /\ DemandsGo /\ ExportsGo
  BY DemandsGoOn, ExportsGoOn DEF Before, ReaderInv
<1>b. /\ \A s \in Sorts : s # None
      /\ \A d \in Demands : d # None
      /\ queryGen \in Nat
      /\ \A s \in Sorts : SortLive(s) => srt[s].base \in Queries /\ srt[s].base <= queryGen
      /\ \A q \in Queries : q \in Nat /\ q # None
  <2>1. \A s \in Sorts : SortLive(s) => srt[s] \in OrderingShape
    BY LiveSorts DEF Before
  <2>2. \A s \in Sorts : SortLive(s) => srt[s].base \in Queries /\ srt[s].q \in Nat
    BY <2>1 DEF OrderingShape
  <2>3. \A s \in Sorts : SortLive(s) => srt[s].base <= queryGen
    BY <2>2 DEF Before, OrderInv, SortsInOrder, Shapes, Typed, Queries
  <2>4. QED
    BY <2>2, <2>3 DEF Before, Shapes, Typed, Sorts, Demands, Queries, None
\* Nothing a sort that owns the result has excluded comes back.
<1>1. ASSUME NEW s \in Sorts, SortOwns(s), queryGen' = queryGen, ~(\E d \in Demands : DemandAsks(d)),
             ~(\E e \in Exports : DownloadAsks(e))
      PROVE  /\ \A e \in Exports : exp'[e].at # "no" => exp[e].at # "no"
             /\ \A e \in Exports : Settled(e) => Settled(e)'
             /\ \A d \in Demands : DemandBusy(d)' => DemandBusy(d) /\ dem'[d].base = dem[d].base
  <2>1. /\ \A e \in Exports : exp'[e].at # "no" => exp[e].at # "no"
        /\ \A e \in Exports : Settled(e) => Settled(e)'
    <3>1. CASE ExportsKeep
      BY <3>1 DEF ExportsKeep, Settled
    <3>2. ASSUME NEW x \in Exports, ExportTurn(x)
          PROVE  /\ \A e \in Exports : exp'[e].at # "no" => exp[e].at # "no"
                 /\ \A e \in Exports : Settled(e) => Settled(e)'
      BY <3>2 DEF ExportTurn, ExportLive, Settled
    <3>3. QED
      BY <1>a, <1>1, <3>1, <3>2 DEF ExportsGo
  <2>2. \A d \in Demands : DemandBusy(d)' => DemandBusy(d) /\ dem'[d].base = dem[d].base
    BY <1>a, <1>1 DEF DemandsGo, DemandGoes, DemandBusy, DemandLive
  <2>3. QED
    BY <2>1, <2>2
\* A sort that stays where it is.
<1>2. ASSUME NEW s \in Sorts, SortOwns(s), queryGen' = queryGen, activeSort' = activeSort,
             ~(\E d \in Demands : DemandAsks(d)), ~(\E e \in Exports : DownloadAsks(e)),
             srt'[s].at = srt[s].at, srt'[s].downloads = srt[s].downloads, srt'[s].demand = srt[s].demand
      PROVE  /\ activeSort' = s
             /\ srt'[s].at = "cleanup" => \A e \in Exports : exp'[e].at # "no" => e <= srt'[s].downloads
             /\ srt'[s].at \notin {"cleanup", "unwind"} => \A e \in Exports : Settled(e)'
             /\ srt'[s].at = "demand" =>
                  \A d \in Demands : DemandBusy(d)' /\ dem'[d].base = queryGen' => srt'[s].demand = d
             /\ srt'[s].at \in {"drain", "create", "read"} =>
                  \A d \in Demands : DemandBusy(d)' => dem'[d].base # queryGen'
  BY <1>a, <1>1, <1>2 DEF SortsAreAlone
<1>3. ASSUME SortsLeave, queryGen' = queryGen, activeSort' = activeSort,
             ~(\E d \in Demands : DemandAsks(d)), ~(\E e \in Exports : DownloadAsks(e))
      PROVE  SortsAreAlone'
  <2>1. SUFFICES ASSUME NEW s \in Sorts, SortOwns(s)'
                 PROVE  /\ SortOwns(s)
                        /\ srt'[s].at = srt[s].at /\ srt'[s].downloads = srt[s].downloads
                        /\ srt'[s].demand = srt[s].demand
    BY <1>2, <1>3 DEF SortsAreAlone
  <2>2. QED
    BY <1>3, <2>1 DEF SortOwns, SortLive, SortsLeave
<1>4. (srt' = srt => SortsLeave) /\ (dem' = dem => ~(\E d \in Demands : DemandAsks(d)))
      /\ (exp' = exp => ~(\E e \in Exports : DownloadAsks(e)))
  BY DEF SortsLeave, DemandAsks, DownloadAsks
<1>5. ASSUME NEW d \in Demands, DemandTurn(d) PROVE SortsAreAlone'
  <2>1. CASE DemandAsks(d)
    <3>1. activeSort = None /\ UNCHANGED <<srt, queryGen>>
      BY <1>5, <2>1 DEF DemandAsks, DemandTurn
    <3>2. \A s \in Sorts : ~SortOwns(s)'
      BY <1>a, <1>b, <3>1 DEF SortOwns, SortLive, SortsAreAlone
    <3>3. QED
      BY <3>2 DEF SortsAreAlone
  <2>2. CASE ~DemandAsks(d)
    <3>1. ~(\E c \in Demands : DemandAsks(c))
      BY <1>5, <2>2 DEF DemandTurn, DemandAsks
    <3>2. \A e \in Exports : ~DownloadAsks(e)
      BY <1>5 DEF DemandTurn, DownloadAsks, DemandAsks, DemandHasFetched, DemandRefused, DemandReadsOn,
        DemandHasRead,
                  DemandUnread, DemandLeaves, ExportsLeave
    <3>3. QED
      BY <1>3, <1>4, <1>5, <3>1, <3>2 DEF DemandTurn
  <2>3. QED
    BY <2>1, <2>2
<1>6. ASSUME NEW s \in Sorts, SortTurn(s), SortEffect(s) PROVE SortsAreAlone'
  <2>a. /\ queryGen' = queryGen /\ UNCHANGED <<dem, exp, base>> /\ \A x \in Sorts \ {s} : srt'[x] = srt[x]
        /\ SortHolds(s)
    BY <1>6 DEF SortEffect
  <2>b. SortOwns(s)' => SortOwns(s)
    BY <1>6, <2>a DEF SortTurn, SortTo, SortAt, SortIsDone, SortOwns, SortLive
  <2>1. ASSUME NEW x \in Sorts \ {s}, SortOwns(x)'
        PROVE  /\ activeSort' = x
               /\ srt'[x].at = "cleanup" => \A e \in Exports : exp'[e].at # "no" => e <= srt'[x].downloads
               /\ srt'[x].at \notin {"cleanup", "unwind"} => \A e \in Exports : Settled(e)'
               /\ srt'[x].at = "demand" =>
                    \A d \in Demands : DemandBusy(d)' /\ dem'[d].base = queryGen' => srt'[x].demand = d
               /\ srt'[x].at \in {"drain", "create", "read"} =>
                    \A d \in Demands : DemandBusy(d)' => dem'[d].base # queryGen'
    <3>1. SortOwns(x)
      BY <2>1, <2>a DEF SortOwns, SortLive
    <3>2. activeSort' = activeSort
      BY <1>a, <2>a, <3>1 DEF SortsAreAlone, SortHolds
    <3>3. QED
      BY <1>2, <1>4, <2>a, <3>1, <3>2
  <2>2. ASSUME SortOwns(s)'
        PROVE  /\ activeSort' = s
               /\ srt'[s].at = "cleanup" => \A e \in Exports : exp'[e].at # "no" => e <= srt'[s].downloads
               /\ srt'[s].at \notin {"cleanup", "unwind"} => \A e \in Exports : Settled(e)'
               /\ srt'[s].at = "demand" =>
                    \A d \in Demands : DemandBusy(d)' /\ dem'[d].base = queryGen' => srt'[s].demand = d
               /\ srt'[s].at \in {"drain", "create", "read"} =>
                    \A d \in Demands : DemandBusy(d)' => dem'[d].base # queryGen'
    <3>1. activeSort = s /\ activeSort' = s
      BY <1>a, <2>2, <2>a, <2>b DEF SortsAreAlone, SortHolds, SortOwns, SortLive
    <3>2. srt'[s].at # "cleanup"
      BY <1>6 DEF SortTurn, SortTo, SortAt, SortIsDone
    <3>3. ASSUME srt'[s].at # "unwind", NEW e \in Exports PROVE Settled(e)
      <4>1. srt[s].at = "cleanup" => CleanedUp(srt[s].downloads)
        BY <1>6, <3>3 DEF SortTurn, SortTo, SortAt, SortIsDone
      <4>2. srt[s].at \notin {"unwind", "release"}
        BY <1>6, <2>2, <2>b DEF SortTurn, SortTo, SortAt, SortIsDone, SortOwns, SortLive
      <4>3. CASE srt[s].at = "cleanup"
        <5>1. exp[e].at # "no" => e <= srt[s].downloads
          BY <1>a, <2>2, <2>b, <4>3 DEF SortsAreAlone
        <5>2. QED
          BY <4>1, <4>3, <5>1 DEF CleanedUp, Settled
      <4>4. CASE srt[s].at # "cleanup"
        BY <1>a, <2>2, <2>b, <4>2, <4>4 DEF SortsAreAlone
      <4>5. QED
        BY <4>3, <4>4
    <3>4. ASSUME srt'[s].at = "demand", NEW d \in Demands, DemandBusy(d), dem[d].base = queryGen
          PROVE  srt'[s].demand = d
      <4>1. srt[s].at = "cleanup" /\ IsCurrentSort(s) /\ srt'[s].demand = demand
        BY <1>6, <3>4 DEF SortTurn, SortTo, SortAt, SortIsDone
      <4>2. base = queryGen
        BY <2>2, <2>b, <4>1 DEF IsCurrentSort, SortOwns
      <4>3. QED
        BY <1>a, <3>4, <4>1, <4>2 DEF OneDemand
    <3>5. ASSUME srt'[s].at \in {"drain", "create", "read"}, NEW d \in Demands, DemandBusy(d), dem[d].base = queryGen
          PROVE  FALSE
      <4>1. \/ srt[s].at \in {"drain", "create", "read"}
            \/ srt[s].at = "demand" /\ DemandSettled(srt[s].demand)
        BY <1>6, <3>5 DEF SortTurn, SortTo, SortAt, SortIsDone
      <4>2. CASE srt[s].at \in {"drain", "create", "read"}
        BY <1>a, <2>2, <2>b, <3>5, <4>2 DEF SortsAreAlone
      <4>3. CASE srt[s].at = "demand" /\ DemandSettled(srt[s].demand)
        <5>1. srt[s].demand = d
          BY <1>a, <2>2, <2>b, <3>5, <4>3 DEF SortsAreAlone
        <5>2. QED
          BY <1>b, <3>5, <4>3, <5>1 DEF DemandSettled, DemandBusy
      <4>4. QED
        BY <4>1, <4>2, <4>3
    <3>6. QED
      BY <2>a, <3>1, <3>2, <3>3, <3>4, <3>5 DEF Settled, DemandBusy
  <2>3. QED
    BY <2>1, <2>2 DEF SortsAreAlone
<1>7. ASSUME NEW s \in Sorts, SortAsks(s) PROVE SortsAreAlone'
  <2>a. /\ UNCHANGED <<queryGen, dem>> /\ \A x \in Sorts \ {s} : srt'[x] = srt[x]
        /\ srt'[s].at = "cleanup" /\ srt'[s].downloads = LastExport /\ activeSort' = s
        /\ \A e \in Exports : exp'[e].at = exp[e].at
    BY <1>7 DEF SortAsks, ExportsLeave
  <2>1. \A x \in Sorts \ {s} : ~SortOwns(x)'
    <3>1. SUFFICES ASSUME NEW x \in Sorts \ {s}, SortOwns(x) PROVE FALSE
      BY <2>a DEF SortOwns, SortLive
    <3>2. activeSort = x /\ srt[x].base = queryGen
      BY <1>a, <3>1 DEF SortsAreAlone, SortOwns
    <3>3. state.current /\ ~IsSorting(state)
      BY <1>7 DEF SortAsks, SortBlocked
    <3>4. QED
      BY <1>b, <3>2, <3>3 DEF Before, OrderInv, SortIsShown
  <2>2. \A e \in Exports : exp'[e].at # "no" => e <= srt'[s].downloads
    BY <1>a, <2>a, DownloadsCount DEF Before
  <2>3. QED
    BY <2>1, <2>2, <2>a DEF SortsAreAlone
<1>8. ASSUME NEW e \in Exports, DownloadAsks(e) PROVE SortsAreAlone'
  <2>1. activeSort = None /\ UNCHANGED <<srt, queryGen>>
    BY <1>8 DEF DownloadAsks, Exportable, SortPending
  <2>2. \A s \in Sorts : ~SortOwns(s)'
    BY <1>a, <1>b, <2>1 DEF SortOwns, SortLive, SortsAreAlone
  <2>3. QED
    BY <2>2 DEF SortsAreAlone
<1>9. ASSUME NEW e \in Exports, ExportTurn(e) PROVE SortsAreAlone'
  <2>1. \A x \in Exports : ~DownloadAsks(x)
    BY <1>9 DEF ExportTurn, ExportLive, DownloadAsks
  <2>2. QED
    BY <1>3, <1>4, <1>9, <2>1 DEF ExportTurn
<1>10. CASE MoveTurn
  <2>1. queryGen' = queryGen + 1 /\ SortsLeave
    BY <1>10 DEF MoveTurn
  <2>2. \A s \in Sorts : ~SortOwns(s)'
    BY <1>b, <2>1 DEF SortOwns, SortLive, SortsLeave
  <2>3. QED
    BY <2>2 DEF SortsAreAlone
<1>11. CASE QuietTurn
  <2>1. \A x \in Exports : ~DownloadAsks(x)
    BY <1>11 DEF QuietTurn, ExportsKeep, DownloadAsks
  <2>2. QED
    BY <1>3, <1>4, <1>11, <2>1 DEF QuietTurn
<1>12. ASSUME NEW q \in Queries, RunTurn(q) PROVE SortsAreAlone'
  BY <1>3, <1>4, <1>12 DEF RunTurn, exportVars
<1>13. CASE CloseTurn \/ StopTurn
  BY <1>3, <1>4, <1>13 DEF CloseTurn, StopTurn
<1>14. QED
  BY <1>5, <1>6, <1>7, <1>8, <1>9, <1>10, <1>11, <1>12, <1>13 DEF ReaderTurn

\* A page kept stays so until a demand has it stored; none is kept of a whole result.
FetchesGo ==
    \A q \in Queries :
      /\ db'[q].fetches = "retry" => db'[q].whole = db[q].whole /\ (db[q].fetches = "retry" \/ ~db[q].whole)
      /\ db[q].fetches = "retry" =>
           \/ db'[q].fetches = "retry"
           \/ \E d \in Demands : DemandTurn(d) /\ DemandHasFetched(d) /\ dem[d].base = q

LEMMA FetchesGoOn ==
    ASSUME Before, ReaderTurn
    PROVE  FetchesGo
<1>1. /\ Stays => FetchesGo
      /\ SessionsMove => FetchesGo
      /\ \A q \in Queries : Answered(q, "open") => FetchesGo
      /\ \A q \in Queries : \A e \in {"retry", "final"} : FetchRefused(q, e) => FetchesGo
      /\ SessionsKeep => FetchesGo
      /\ db' = db => FetchesGo
  <2>1. SessionsKeep => FetchesGo
    BY DEF SessionsKeep, FetchesGo
  <2>2. (db' = db => FetchesGo) /\ (Stays => FetchesGo)
    BY DEF Stays, FetchesGo
  <2>3. ASSUME NEW q \in Queries, Answered(q, "open") PROVE FetchesGo
    BY <2>3 DEF Answered, FetchesGo, Before, ReaderInv, WholeIsWhole
  <2>4. ASSUME NEW q \in Queries, NEW e \in {"retry", "final"}, FetchRefused(q, e) PROVE FetchesGo
    BY <2>4 DEF FetchRefused, FetchesGo, Before, ReaderInv, WholeIsWhole
  <2>5. QED
    BY <2>1, <2>2, <2>3, <2>4 DEF SessionsMove
<1>2. Withdraws => FetchesGo
  BY <1>1 DEF Withdraws
<1>3. ASSUME NEW q \in Queries, RunTurn(q) PROVE FetchesGo
  BY <1>1, <1>2, <1>3 DEF RunTurn, RunWithdraws, RunNotes, RunLeaves, RunStarted, RunHasFetched,
    RunReadsOn, RunShows
<1>4. ASSUME NEW d \in Demands, DemandTurn(d) PROVE FetchesGo
  <2>1. dem[d].at = "fetch" => dem[d].base \in Queries
    BY DEF Before, Shapes, Typed, DemandShape, Over, DemandedShape
  <2>2. CASE DemandHasFetched(d)
    <3>1. CASE Answered(dem[d].base, "open")
      BY <1>1, <2>1, <2>2, <3>1 DEF DemandHasFetched
    <3>2. CASE Answered(dem[d].base, "retry")
      <4>1. /\ db'[dem[d].base].fetches = "open"
            /\ \A p \in Queries : p # dem[d].base => db'[p].fetches = db[p].fetches /\ db'[p].whole = db[p].whole
        BY <3>2 DEF Answered
      <4>2. QED
        BY <1>4, <2>2, <4>1 DEF FetchesGo, Before, ReaderInv, WholeIsWhole
    <3>3. QED
      BY <2>2, <3>1, <3>2 DEF DemandHasFetched
  <2>3. CASE DemandRefused(d)
    BY <1>1, <2>1, <2>3 DEF DemandRefused
  <2>4. CASE ~DemandHasFetched(d) /\ ~DemandRefused(d)
    BY <1>1, <1>2, <1>4, <2>4 DEF DemandTurn, DemandAsks, DemandReadsOn, DemandHasRead, DemandUnread,
      DemandLeaves
  <2>5. QED
    BY <2>2, <2>3, <2>4
<1>5. ASSUME NEW s \in Sorts, SortTurn(s), SortEffect(s) PROVE FetchesGo
  <2>1. SortLive(s) => srt[s].base \in Queries
    BY DEF Before, Shapes, Typed, SortShape, Over, OrderingShape, SortLive
  <2>2. srt[s].at = "drain" => srt[s].base \in Queries
    BY <2>1 DEF SortLive
  <2>3. QED
    BY <1>1, <1>5, <2>2 DEF SortEffect, SortWaits, SortHasFetched, SortRefused, SortAdopted
<1>6. ASSUME NEW e \in Exports, ExportTurn(e) PROVE FetchesGo
  <2>1. exp[e].base \in Queries
    BY <1>6 DEF Before, Shapes, Typed, ExportShape, ExportingShape, ExportLive, ExportTurn
  <2>2. QED
    BY <1>1, <1>6, <2>1
       DEF ExportTurn, ExportPicks, ExportFetches, ExportStill, ExportHasFetched, ExportRefused,
           ExportMoves, ExportIsOver
<1>7. QED
  BY <1>1, <1>2, <1>3, <1>4, <1>5, <1>6
     DEF ReaderTurn, SortAsks, DownloadAsks, QuietTurn, CloseTurn, StopTurn, MoveTurn

\* What is captured of a view on display is of its base.
LEMMA WhatIsRead ==
    ASSUME Shapes, NEW q \in Queries, base = q, NEW d
    PROVE  Reading(view, d).whole = d[q].whole /\ Reading(Base(q), d).whole = d[q].whole
<1>1. view[1] = q /\ Base(q)[1] = q
  BY ViewFields DEF Shapes, ViewOfBase, None, Queries
<1>2. QED
  BY <1>1 DEF Reading

LEMMA WholeKept ==
    ASSUME Before, ReaderTurn
    PROVE  WholeIsWhole'
<1>a. WholeIsWhole /\ WholeStays /\ FetchesGo /\ DemandsGo
  BY SessionsGoOn, FetchesGoOn, DemandsGoOn DEF Before, ReaderInv
<1>b. /\ Shapes /\ \A q \in Queries : q # None
      /\ base \in {None} \cup Queries
      /\ HasResult => state.result.gen \in Queries
      /\ \A d \in Demands : DemandLive(d) => dem[d].base \in Queries
      /\ \A s \in Sorts : SortLive(s) => srt[s].base \in Queries
      /\ HasResult /\ state.result.gen = queryGen => base \in {None, queryGen}
      /\ db' \in [Queries -> DbShape]
  BY DEF Before, Shapes, Typed, StateShape, ResultShape, RowsShape, HasResult, DemandShape, Over,
    DemandedShape, DemandLive,
         SortLive, SortShape, OrderingShape, OrderInv, BaseInOrder, Queries, None
<1>c. ASSUME NEW q \in Queries, base = q
      PROVE  \A x \in {db, db'} : Reading(view, x).whole = x[q].whole /\ Reading(Base(q), x).whole = x[q].whole
  BY <1>b, <1>c, WhatIsRead
<1>d. base \in Queries =>
        \A x \in {db, db'} : Reading(view, x).whole = x[base].whole /\ Reading(Base(base), x).whole = x[base].whole
  BY <1>c
<1>1. \A q \in Queries : db'[q].whole => db'[q].fetches # "retry"
  BY <1>a DEF FetchesGo, WholeIsWhole
<1> DEFINE Result == HasResult' /\ state'.result.complete => db'[state'.result.gen].whole
<1>2. HasResult' /\ state'.result.complete => db'[state'.result.gen].whole
  <2>1. (state'.result \in {state.result, NoResult} => Result) /\ (SameButMarks /\ HasResult => Result)
    BY <1>a, <1>b DEF WholeIsWhole, WholeStays, SameButMarks, HasResult
  <2>2. \A e \in {"retry", "final"} : Noted(e) => Result
    <3>1. \A e \in {"retry", "final"} : Noted(e) => (HasResult => SameButMarks) /\ (~HasResult => ~HasResult')
      BY <1>b, NotesDo DEF Errors
    <3>2. QED
      BY <2>1, <3>1
  <2>3. ASSUME NEW q, NEW d \in {db, db'}, d = db => db' = db, Counted(q, d) PROVE Result
    BY <2>1, <2>3 DEF Counted
  <2>4. ASSUME NEW q \in Queries, RunTurn(q) PROVE Result
    <3>1. CASE RunShows(q)
      <4>1. state'.result.gen = q /\ state'.result.complete = run[q].read.whole /\ run[q].at \in {"read", "viewer"}
        BY <3>1 DEF RunShows
      <4>2. QED
        BY <1>a, <4>1 DEF WholeIsWhole, WholeStays
    <3>2. CASE RunNotes(q)
      BY <2>1, <2>2, <3>2 DEF RunNotes, Noted
    <3>3. CASE ~RunShows(q) /\ ~RunNotes(q)
      BY <2>1, <2>4, <3>3 DEF RunTurn, RunWithdraws, Withdraws, RunLeaves, RunStarted, RunHasFetched,
        RunReadsOn
    <3>4. QED
      BY <3>1, <3>2, <3>3
  <2>5. ASSUME NEW d \in Demands, DemandTurn(d) PROVE Result
    <3>1. CASE DemandAsks(d)
      BY <1>b, <2>1, <3>1, NotesDo DEF DemandAsks
    <3>2. CASE DemandRefused(d) \/ DemandUnread(d)
      BY <2>1, <2>2, <3>2 DEF DemandRefused, DemandUnread, Noted
    <3>3. CASE DemandHasRead(d)
      <4>1. CASE state' = state
        BY <2>1, <4>1
      <4>2. CASE state' # state
        <5>1. /\ state'.result.gen = dem[d].base /\ state'.result.complete = dem[d].read.whole
              /\ dem[d].at \in {"read", "viewer"} /\ dem[d].base \in Queries
          BY <1>b, <3>3, <4>2 DEF DemandHasRead, Publishable, DemandLive
        <5>2. QED
          BY <1>a, <5>1 DEF WholeIsWhole, WholeStays
      <4>3. QED
        BY <4>1, <4>2
    <3>4. CASE DemandHasFetched(d) \/ DemandReadsOn(d) \/ DemandLeaves(d)
      BY <2>1, <3>4 DEF DemandHasFetched, DemandReadsOn, DemandLeaves, Withdraws
    <3>5. QED
      BY <2>5, <3>1, <3>2, <3>3, <3>4 DEF DemandTurn
  <2>6. ASSUME NEW s \in Sorts, SortEffect(s) PROVE Result
    <3>1. CASE SortAdopted(s) /\ state'.result # state.result
      <4>1. /\ srt[s].at = "read" /\ srt[s].read.whole /\ db' = db /\ base = srt[s].base /\ queryGen = srt[s].q
            /\ HasResult /\ state.result.gen = srt[s].q /\ state'.result.gen = state.result.gen
        BY <3>1 DEF SortAdopted, IsCurrentSort, Shows, HasResult
      <4>2. srt[s].base \in Queries /\ db[srt[s].base].whole
        BY <1>a, <1>b, <4>1 DEF WholeIsWhole, SortLive
      <4>3. srt[s].base = state.result.gen
        BY <1>b, <4>1, <4>2
      <4>4. QED
        BY <4>1, <4>2, <4>3
    <3>2. CASE SortRefused(s)
      BY <2>1, <2>2, <3>2 DEF SortRefused
    <3>3. CASE SortHasFetched(s)
      BY <2>1, <2>3, <3>3 DEF SortHasFetched
    <3>4. CASE SortWaits(s) \/ (SortAdopted(s) /\ state'.result = state.result)
      BY <2>1, <3>4 DEF SortWaits
    <3>5. QED
      BY <2>6, <3>1, <3>2, <3>3, <3>4 DEF SortEffect
  <2>7. ASSUME NEW e \in Exports, ExportTurn(e) PROVE Result
    BY <2>1, <2>2, <2>3, <2>7
       DEF ExportTurn, ExportPicks, ExportFetches, ExportStill, ExportHasFetched, ExportRefused,
           ExportMoves, ExportIsOver
  <2>8. CASE MoveTurn
    BY <2>1, <2>2, <2>8 DEF MoveTurn
  <2>9. QED
    BY <2>1, <2>4, <2>5, <2>6, <2>7, <2>8
       DEF ReaderTurn, SortAsks, DownloadAsks, QuietTurn, CloseTurn, StopTurn, Withdraws
<1>3. ASSUME NEW d \in Demands, dem'[d].at \in {"read", "viewer"}, dem'[d].read.whole
      PROVE  db'[dem'[d].base].whole
  <2>1. CASE dem'[d] = dem[d]
    BY <1>3, <1>a, <1>b, <2>1 DEF WholeIsWhole, WholeStays, DemandLive
  <2>2. ASSUME DemandTurn(d) PROVE db'[dem'[d].base].whole
    <3>1. CASE DemandAsks(d)
      <4>1. base \in Queries /\ dem'[d].base = base /\ dem'[d].read = Reading(view, db) /\ db' = db
        BY <1>b, <3>1 DEF DemandAsks, Stays
      <4>2. QED
        BY <1>3, <1>d, <4>1
    <3>2. CASE DemandHasFetched(d)
      <4>1. /\ dem'[d].base = dem[d].base /\ base = dem[d].base /\ dem[d].base \in Queries
            /\ dem'[d].read = Reading(view, db')
        BY <1>3, <1>b, <3>2 DEF DemandHasFetched, DemandActive, IsActiveResult, DemandLive
      <4>2. QED
        BY <1>3, <1>d, <4>1
    <3>3. CASE DemandReadsOn(d)
      BY <1>3, <1>a, <1>b, <3>3 DEF DemandReadsOn, WholeIsWhole, WholeStays, DemandLive
    <3>4. QED
      BY <1>3, <2>2, <3>1, <3>2, <3>3 DEF DemandTurn, DemandRefused, DemandHasRead, DemandUnread, DemandLeaves
  <2>3. QED
    BY <2>1, <2>2 DEF ReaderTurn, RunTurn, DemandTurn, SortEffect, SortAsks, ExportTurn, DownloadAsks,
      QuietTurn,
                      CloseTurn, StopTurn, MoveTurn
<1>4. ASSUME NEW q \in Queries, run'[q].at \in {"read", "viewer"}, run'[q].read.whole
      PROVE  db'[q].whole
  <2>1. CASE run'[q] = run[q]
    BY <1>4, <1>a, <2>1 DEF WholeIsWhole, WholeStays
  <2>2. ASSUME RunTurn(q) PROVE db'[q].whole
    <3>1. CASE RunHasFetched(q)
      <4>1. base = q /\ run'[q].read = Reading(view, db')
        BY <1>4, <3>1 DEF RunHasFetched
      <4>2. QED
        BY <1>4, <1>c, <4>1
    <3>2. CASE RunReadsOn(q)
      BY <1>4, <1>a, <3>2 DEF RunReadsOn, WholeIsWhole, WholeStays
    <3>3. QED
      BY <1>4, <2>2, <3>1, <3>2 DEF RunTurn, RunWithdraws, RunNotes, RunLeaves, RunStarted, RunShows
  <2>3. CASE MoveTurn
    BY <1>4, <2>1, <2>3 DEF MoveTurn
  <2>4. QED
    BY <2>1, <2>2, <2>3 DEF ReaderTurn, RunTurn, DemandTurn, SortEffect, SortAsks, ExportTurn,
      DownloadAsks, QuietTurn,
                            CloseTurn, StopTurn
<1>5. ASSUME NEW s \in Sorts, srt'[s].at = "read", srt'[s].read.whole
      PROVE  db'[srt'[s].base].whole
  <2>1. CASE srt'[s].at = srt[s].at /\ (SortLive(s) => srt'[s].base = srt[s].base /\ srt'[s].read = srt[s].read)
    BY <1>5, <1>a, <1>b, <2>1 DEF WholeIsWhole, WholeStays, SortLive
  <2>2. ASSUME SortTurn(s), SortEffect(s) PROVE db'[srt'[s].base].whole
    <3>1. CASE IsCurrentSort(s) /\ SortTo(s, "read", Base(base), Reading(Base(base), db), srt[s].demand)
               /\ srt[s].at = "demand"
      <4>1. srt'[s].read = Reading(Base(base), db) /\ srt'[s].base = base /\ base \in Queries
        BY <1>b, <3>1 DEF SortTo, IsCurrentSort, SortLive
      <4>2. db[base].whole
        BY <1>5, <1>d, <4>1
      <4>3. QED
        BY <1>a, <4>1, <4>2 DEF WholeStays
    <3>2. CASE srt[s].at = "create" /\ SortTo(s, "read", SortedView(s), Reading(SortedView(s), db), srt[s].demand)
      <4>1. srt'[s].read = Reading(SortedView(s), db) /\ srt'[s].base = srt[s].base /\ srt[s].base \in Queries
        BY <1>b, <3>2 DEF SortTo, SortLive
      <4>2. db[srt[s].base].whole
        BY <1>5, <4>1, ViewFields DEF Reading
      <4>3. QED
        BY <1>a, <4>1, <4>2 DEF WholeStays
    <3>3. QED
      <4>1. \/ IsCurrentSort(s) /\ SortTo(s, "read", Base(base), Reading(Base(base), db), srt[s].demand)
               /\ srt[s].at = "demand"
            \/ srt[s].at = "create" /\ SortTo(s, "read", SortedView(s), Reading(SortedView(s), db), srt[s].demand)
        BY <1>5, <2>2 DEF SortTurn, SortTo, SortAt, SortIsDone
      <4>2. QED
        BY <3>1, <3>2, <4>1
  <2>3. ASSUME NEW x \in Sorts \ {s}, SortEffect(x) PROVE db'[srt'[s].base].whole
    BY <2>1, <2>3 DEF SortEffect
  <2>4. ASSUME NEW x \in Sorts, SortAsks(x) PROVE db'[srt'[s].base].whole
    BY <1>5, <2>1, <2>4 DEF SortAsks
  <2>5. QED
    BY <2>1, <2>2, <2>3, <2>4 DEF ReaderTurn, RunTurn, DemandTurn, ExportTurn, DownloadAsks, QuietTurn,
                                  CloseTurn, StopTurn, MoveTurn, SortsLeave
<1>6. QED
  BY <1>1, <1>2, <1>3, <1>4, <1>5 DEF WholeIsWhole

\* A page is refused to the one that was to have it.
Refuses ==
    /\ ShowsBase /\ FetchRefused(queryGen, "retry") /\ SameButMarks /\ state'.result.error = "retry"
    /\ \/ \E d \in Demands : DemandTurn(d) /\ DemandRefused(d) /\ dem[d].base = queryGen
       \/ \E s \in Sorts : SortOwns(s) /\ srt[s].at = "drain"
       \/ \E e \in Exports : exp[e].at = "drain" /\ exp[e].base = queryGen /\ exp'[e].at = "unwind"

Publishes(d) ==
    /\ DemandTurn(d) /\ DemandHasRead(d) /\ Publishable(d)
    /\ HasResult' /\ state'.result.gen = state.result.gen /\ state'.result.revision = state.result.revision
    /\ state'.result.complete = dem[d].read.whole /\ state'.result.error = dem[d].error

\* The rows on display have no error any more.
Clears ==
    /\ HasResult' /\ state'.result.error = "none"
    /\ \/ \E d \in Demands : DemandTurn(d) /\ DemandAsks(d) /\ SameButMarks
       \/ \E q \in Queries : RunTurn(q) /\ RunShows(q)
       \/ \E s \in Sorts : SortOwns(s) /\ srt[s].at = "read"

\* What a step does to the error, and to the revision.
MarksGo ==
    \/ state'.result \in {state.result, NoResult}
    \/ /\ HasResult /\ HasResult' /\ state.result.gen = queryGen
       /\ state'.result.revision = state.result.revision
       /\ state'.result.error = state.result.error /\ state'.result.error # "retry"
    \/ SameButMarks /\ state'.result.error = "final"
    \/ Refuses \/ Clears \/ \E d \in Demands : Publishes(d)

LEMMA MarksGoOn ==
    ASSUME Before, ReaderTurn
    PROVE  MarksGo
<1>a. Shapes /\ {"retry", "final"} \subseteq Errors /\ RetriesAreHeld
  BY DEF Before, Errors, ReaderInv
<1>b. /\ base \in {None} \cup Queries /\ (HasResult /\ state.result.gen = queryGen => base \in {None, queryGen})
      /\ \A q \in Queries : q # None
      /\ \A d \in Demands : DemandLive(d) => dem[d].base \in Queries
      /\ \A s \in Sorts : SortLive(s) => srt[s].base \in Queries
      /\ \A e \in Exports : ExportLive(e) => exp[e].base \in Queries
  BY DEF Before, Shapes, Typed, OrderInv, BaseInOrder, DemandShape, Over, DemandedShape, DemandLive,
         SortLive, SortShape, OrderingShape, ExportLive, ExportShape, ExportingShape, Queries, None
\* A result that is noted is there.
<1>1. ASSUME Noted("final") PROVE MarksGo
  <2>1. HasResult => SameButMarks /\ state'.result.error = "final"
    BY <1>a, <1>1, NotesDo
  <2>2. ~HasResult => ~HasResult'
    BY <1>a, <1>1, NotesDo
  <2>3. QED
    BY <2>1, <2>2 DEF MarksGo, HasResult
<1>2. ASSUME HasResult, state.result.gen = queryGen, base \in Queries, NEW k \in {"retry", "final"},
             FetchRefused(base, k), Noted(k),
             \/ \E d \in Demands : DemandTurn(d) /\ DemandRefused(d) /\ dem[d].base = base
             \/ \E s \in Sorts : SortLive(s) /\ srt[s].base = base /\ srt[s].at = "drain"
             \/ \E e \in Exports : exp[e].at = "drain" /\ exp[e].base = base /\ exp'[e].at = "unwind"
      PROVE  MarksGo
  <2>1. CASE k = "final"
    BY <1>1, <1>2, <2>1
  <2>2. CASE k = "retry"
    <3>1. base = queryGen /\ ShowsBase
      BY <1>b, <1>2 DEF ShowsBase
    <3>2. SameButMarks /\ state'.result.error = "retry"
      BY <1>a, <1>2, <2>2, NotesDo
    <3>3. QED
      BY <1>2, <2>2, <3>1, <3>2 DEF MarksGo, Refuses, SortOwns
  <2>3. QED
    BY <1>2, <2>1, <2>2
<1>3. ASSUME NEW d, NEW q, Counted(q, d), q = queryGen, base \in Queries, Answered(base, "open")
      PROVE  MarksGo
  <2>1. CASE state'.result = state.result
    BY <2>1 DEF MarksGo
  <2>2. CASE state'.result # state.result
    <3>1. /\ HasResult /\ HasResult' /\ state.result.gen = queryGen
          /\ state'.result.error = state.result.error /\ state'.result.revision = state.result.revision
      BY <1>3, <2>2 DEF Counted
    <3>2. base = queryGen /\ ShowsBase
      BY <1>b, <1>3, <3>1 DEF ShowsBase
    <3>3. state.result.error # "retry"
      BY <1>a, <1>3, <3>2 DEF RetriesAreHeld, Answered
    <3>4. QED
      BY <3>1, <3>3 DEF MarksGo
  <2>3. QED
    BY <2>1, <2>2
<1>4. ASSUME NEW q \in Queries, RunTurn(q) PROVE MarksGo
  <2>1. RunNotes(q) => Noted("final") \/ state' = state
    BY DEF RunNotes, Noted
  <2>2. RunShows(q) => MarksGo
    BY <1>4 DEF MarksGo, Clears, RunShows
  <2>3. QED
    BY <1>1, <1>4, <2>1, <2>2
       DEF RunTurn, RunWithdraws, Withdraws, RunLeaves, RunStarted, RunHasFetched, RunReadsOn, MarksGo
<1>5. ASSUME NEW d \in Demands, DemandTurn(d) PROVE MarksGo
  <2>1. CASE DemandAsks(d)
    <3>1. CASE state' = Loading(state)
      <4>1. SameButMarks /\ state'.result.error = "none"
        BY <1>a, <2>1, <3>1, NotesDo DEF DemandAsks
      <4>2. QED
        BY <1>5, <2>1, <4>1 DEF MarksGo, Clears, SameButMarks
    <3>2. CASE state' = state
      BY <3>2 DEF MarksGo
    <3>3. QED
      BY <2>1, <3>1, <3>2 DEF DemandAsks
  <2>2. CASE DemandRefused(d)
    <3>1. CASE state' = state
      BY <3>1 DEF MarksGo
    <3>2. CASE DemandActive(d)
      <4>1. HasResult /\ state.result.gen = queryGen /\ base = dem[d].base /\ base \in Queries
        BY <1>b, <2>2, <3>2 DEF DemandActive, IsActiveResult, Shows, IsCurrentQuery, HasResult,
          DemandRefused, DemandLive
      <4>2. PICK e \in {"retry", "final"} : FetchRefused(dem[d].base, e) /\ (state' = PageFailed(state, e) \/ state' = state)
        BY <2>2 DEF DemandRefused
      <4>3. CASE state' = PageFailed(state, e)
        BY <1>2, <1>5, <2>2, <4>1, <4>2, <4>3 DEF Noted
      <4>4. QED
        BY <3>1, <4>2, <4>3
    <3>3. QED
      BY <2>2, <3>1, <3>2 DEF DemandRefused
  <2>3. CASE DemandUnread(d)
    BY <1>1, <2>3 DEF DemandUnread, Noted
  <2>4. CASE DemandHasRead(d)
    <3>1. CASE state' = state
      BY <3>1 DEF MarksGo
    <3>2. CASE state' # state
      <4>1. Publishes(d)
        BY <1>5, <2>4, <3>2 DEF DemandHasRead, Publishes
      <4>2. QED
        BY <4>1 DEF MarksGo
    <3>3. QED
      BY <3>1, <3>2
  <2>5. CASE DemandHasFetched(d) \/ DemandReadsOn(d) \/ DemandLeaves(d)
    BY <2>5 DEF DemandHasFetched, DemandReadsOn, DemandLeaves, Withdraws, MarksGo
  <2>6. QED
    BY <1>5, <2>1, <2>2, <2>3, <2>4, <2>5 DEF DemandTurn
<1>6. ASSUME NEW s \in Sorts, SortEffect(s) PROVE MarksGo
  <2>0. IsCurrentSort(s) => /\ HasResult /\ state.result.gen = queryGen /\ base = srt[s].base /\ queryGen = srt[s].q
                            /\ (SortLive(s) => base \in Queries /\ base = queryGen)
    BY <1>b DEF IsCurrentSort, Shows, HasResult
  <2>1. CASE SortWaits(s)
    BY <2>1 DEF SortWaits, MarksGo
  <2>2. CASE SortHasFetched(s)
    <3>1. SortLive(s)
      BY <2>2 DEF SortHasFetched, SortLive
    <3>2. QED
      BY <1>3, <2>0, <2>2, <3>1 DEF SortHasFetched, MarksGo
  <2>3. CASE SortRefused(s)
    <3>1. SortLive(s) /\ srt[s].at = "drain"
      BY <2>3 DEF SortRefused, SortLive
    <3>2. CASE state' = state
      BY <3>2 DEF MarksGo
    <3>3. CASE IsCurrentSort(s)
      <4>1. PICK e \in {"retry", "final"} : FetchRefused(srt[s].base, e) /\ Noted(e)
        BY <2>3, <3>3 DEF SortRefused
      <4>2. QED
        BY <1>2, <2>0, <3>1, <3>3, <4>1
    <3>4. QED
      BY <2>3, <3>2, <3>3 DEF SortRefused
  <2>4. CASE SortAdopted(s)
    <3>1. SortOwns(s) /\ srt[s].at = "read"
      BY <2>0, <2>4 DEF SortAdopted, SortOwns, SortLive
    <3>2. QED
      BY <2>4, <3>1 DEF SortAdopted, MarksGo, Clears
  <2>5. QED
    BY <1>6, <2>1, <2>2, <2>3, <2>4 DEF SortEffect
<1>7. ASSUME NEW e \in Exports, ExportTurn(e) PROVE MarksGo
  <2>0. IsCurrentExport(e) \/ MayGoOn(e) =>
          /\ HasResult /\ state.result.gen = queryGen /\ base = exp[e].base /\ queryGen = exp[e].gen /\ base \in Queries
    BY <1>b, <1>7 DEF IsCurrentExport, MayGoOn, Shows, HasResult, ExportTurn
  <2>1. CASE ExportHasFetched(e)
    BY <1>3, <2>0, <2>1 DEF ExportHasFetched, MarksGo
  <2>2. CASE ExportRefused(e)
    <3>1. CASE state' = state
      BY <3>1 DEF MarksGo
    <3>2. CASE IsCurrentExport(e)
      <4>1. PICK k \in {"retry", "final"} : FetchRefused(exp[e].base, k) /\ Noted(k)
        BY <2>2, <3>2 DEF ExportRefused
      <4>2. QED
        BY <1>2, <2>0, <2>2, <3>2, <4>1 DEF ExportRefused
    <3>3. QED
      BY <2>2, <3>1, <3>2 DEF ExportRefused
  <2>3. CASE ExportMoves(e)
    BY <2>0, <2>3 DEF ExportMoves, Counted, MarksGo
  <2>4. CASE ExportPicks(e) \/ ExportFetches(e) \/ ExportIsOver(e)
    BY <2>4 DEF ExportPicks, ExportFetches, ExportStill, ExportIsOver, MarksGo
  <2>5. QED
    BY <1>7, <2>1, <2>2, <2>3, <2>4 DEF ExportTurn
<1>8. CASE MoveTurn
  BY <1>1, <1>8 DEF MoveTurn, MarksGo
<1>9. QED
  BY <1>4, <1>5, <1>6, <1>7, <1>8
     DEF ReaderTurn, SortAsks, DownloadAsks, QuietTurn, CloseTurn, StopTurn, Withdraws, MarksGo

\* The family on display with its rows was so, and on the same query.
ShownGoes ==
    ShowsBase' =>
      /\ base' = base /\ queryGen' = queryGen
      /\ ShowsBase \/ \E q \in Queries : RunTurn(q) /\ RunShows(q)

LEMMA ShownGoOn ==
    ASSUME Before, ReaderTurn
    PROVE  ShownGoes
<1>a. BaseGoes /\ ResultGoes /\ (queryGen' = queryGen \/ MoveTurn)
  BY BaseGoOn, ResultGoOn
<1>b. /\ queryGen \in Nat /\ base \in {None} \cup Queries /\ (base # None => base <= queryGen)
      /\ (HasResult' => run'[state'.result.gen].at = "done")
  BY DEF Before, Shapes, Typed, OrderInv, BaseInOrder, RunsInOrder, HasResult
<1>1. SUFFICES ASSUME ShowsBase'
               PROVE  /\ base' = base /\ queryGen' = queryGen
                      /\ ShowsBase \/ \E q \in Queries : RunTurn(q) /\ RunShows(q)
  BY DEF ShownGoes
<1>2. base' # None /\ base' = queryGen' /\ HasResult' /\ state'.result.gen = queryGen' /\ run'[queryGen'].at = "done"
  BY <1>1, <1>b DEF ShowsBase
<1>3. base' = base
  <2>1. ASSUME NEW q \in Queries, RunTurn(q), RunStarted(q), base' = q, q = queryGen PROVE FALSE
    BY <1>2, <2>1 DEF RunTurn, RunStarted
  <2>2. QED
    BY <1>a, <1>2, <2>1 DEF BaseGoes
<1>4. queryGen' = queryGen
  <2>1. ~MoveTurn
    BY <1>b, <1>2, <1>3 DEF MoveTurn
  <2>2. QED
    BY <1>a, <2>1
<1>5. QED
  BY <1>a, <1>2, <1>3, <1>4 DEF ResultGoes, ShowsBase

\* A demand that goes on as it was, and whose window would be shown, is one whose window would have been.
LEMMA PublishableStays ==
    ASSUME Before, ReaderTurn, NEW d \in Demands, dem'[d] = dem[d], Publishable(d)'
    PROVE  /\ Publishable(d) /\ DemandBusy(d) /\ dem[d].base = base /\ base = queryGen /\ base # None
           /\ queryGen' = queryGen /\ ~(\E q \in Queries : RunTurn(q) /\ RunShows(q))
           /\ ~(\E s \in Sorts : SortOwns(s) /\ srt[s].at = "read")
<1>a. ShownGoes /\ MarksGo /\ SortsAreAlone
  BY ShownGoOn, MarksGoOn DEF Before, ReaderInv
<1>1. DemandLive(d) /\ DemandBusy(d) /\ dem[d].base \in Queries /\ run[dem[d].gen].at = "done"
  BY DEF Publishable, DemandLive, DemandBusy, Before, Shapes, Typed, DemandShape, Over, DemandedShape,
    OrderInv, DemandsInOrder
<1>2. ShowsBase' /\ dem[d].base = base'
  BY <1>1 DEF Publishable, ShowsBase, Queries, None
<1>3. /\ base' = base /\ queryGen' = queryGen /\ base = queryGen /\ dem[d].base = base /\ dem[d].gen = queryGen
      /\ base # None
  BY <1>a, <1>2 DEF ShownGoes, Publishable, ShowsBase
<1>4. ~(\E q \in Queries : RunTurn(q) /\ RunShows(q))
  BY <1>1, <1>3 DEF RunShows, IsCurrentQuery
<1>5. ~(\E s \in Sorts : SortOwns(s) /\ srt[s].at = "read")
  BY <1>a, <1>1, <1>3 DEF SortsAreAlone
<1>6. ShowsBase
  BY <1>a, <1>2, <1>4 DEF ShownGoes
<1>7. state'.result.revision = state.result.revision
  BY <1>a, <1>2, <1>4, <1>5 DEF MarksGo, Refuses, Clears, Publishes, SameButMarks, ShowsBase, HasResult
<1>8. QED
  BY <1>1, <1>3, <1>4, <1>5, <1>6, <1>7 DEF Publishable, ShowsBase

LEMMA RetriesKept ==
    ASSUME Before, ReaderTurn
    PROVE  RetriesAreHeld'
<1>a. /\ RetriesAreHeld /\ WholeIsWhole /\ OneDemand /\ SortsAreAlone /\ ExportsAreAlone
      /\ MarksGo /\ ShownGoes /\ FetchesGo /\ DemandsGo
  BY MarksGoOn, ShownGoOn, FetchesGoOn, DemandsGoOn DEF Before, ReaderInv
<1>b. /\ base \in {None} \cup Queries
      /\ \A q \in Queries : q # None
      /\ \A d \in Demands : d # None
      /\ \A d \in Demands : DemandLive(d) => dem[d].base \in Queries
      /\ HasResult /\ state.result.gen = queryGen => base \in {None, queryGen}
  BY DEF Before, Shapes, Typed, OrderInv, BaseInOrder, DemandShape, Over, DemandedShape, DemandLive,
    Queries, None, Demands
<1>c. \A d \in Demands : Publishable(d) => DemandBusy(d) /\ dem[d].base = base /\ base = queryGen /\ base # None
  BY <1>b DEF Publishable, DemandBusy, DemandLive
<1>1. HasResult' /\ state'.result.complete => state'.result.error # "retry"
  <2>1. SUFFICES ASSUME HasResult', state'.result.complete, state'.result.error = "retry" PROVE FALSE
    OBVIOUS
  <2>2. CASE state'.result \in {state.result, NoResult}
    BY <1>a, <2>1, <2>2 DEF RetriesAreHeld, HasResult
  <2>3. CASE Refuses
    BY <1>a, <2>1, <2>3 DEF Refuses, SameButMarks, WholeIsWhole, FetchRefused, ShowsBase
  <2>4. ASSUME NEW d \in Demands, Publishes(d) PROVE FALSE
    <3>1. Publishable(d) /\ dem[d].error = "retry" /\ dem[d].read.whole
      BY <2>1, <2>4 DEF Publishes
    <3>2. db[queryGen].fetches = "retry" /\ db[dem[d].base].whole /\ dem[d].base = queryGen /\ queryGen \in Queries
      BY <1>a, <1>b, <1>c, <3>1 DEF RetriesAreHeld, WholeIsWhole, Publishable
    <3>3. QED
      BY <1>a, <3>2 DEF WholeIsWhole
  <2>5. QED
    BY <1>a, <2>1, <2>2, <2>3, <2>4 DEF MarksGo, Clears
\* The page kept stays kept while no demand fetches it.
<1>2. ASSUME base \in Queries, base = queryGen, db[queryGen].fetches = "retry",
             \A d \in Demands : dem[d].at = "fetch" => dem[d].base # queryGen
      PROVE  db'[queryGen].fetches = "retry"
  BY <1>a, <1>2 DEF FetchesGo, DemandHasFetched
<1>3. ShowsBase' /\ state'.result.error = "retry" => db'[queryGen'].fetches = "retry"
  <2>1. SUFFICES ASSUME ShowsBase', state'.result.error = "retry" PROVE db'[queryGen].fetches = "retry"
    BY <1>a DEF ShownGoes
  <2>2. ShowsBase /\ base \in Queries /\ base = queryGen
    BY <1>a, <1>b, <2>1 DEF ShownGoes, RunShows, ShowsBase
  <2>3. CASE state'.result \in {state.result, NoResult}
    <3>1. state.result.error = "retry"
      BY <2>1, <2>3 DEF ShowsBase, HasResult
    <3>2. QED
      BY <1>a, <1>2, <2>2, <3>1 DEF RetriesAreHeld
  <2>4. CASE Refuses
    BY <2>2, <2>4 DEF Refuses, FetchRefused
  <2>5. ASSUME NEW d \in Demands, Publishes(d) PROVE db'[queryGen].fetches = "retry"
    <3>1. Publishable(d) /\ dem[d].error = "retry" /\ db' = db
      BY <2>1, <2>5 DEF Publishes, DemandHasRead, Stays
    <3>2. QED
      BY <1>a, <3>1 DEF RetriesAreHeld
  <2>6. QED
    BY <1>a, <2>1, <2>3, <2>4, <2>5 DEF MarksGo, Clears
\* A demand on the base is the only one.
<1>4. ASSUME NEW c \in Demands, NEW d \in Demands, DemandBusy(c), DemandBusy(d), dem[c].base = base, dem[d].base = base
      PROVE  c = d
  BY <1>a, <1>4 DEF OneDemand
<1>5. ASSUME NEW d \in Demands, Publishable(d)', dem'[d] = dem[d]
      PROVE  /\ dem'[d].error = "retry" => db'[queryGen'].fetches = "retry"
             /\ dem'[d].error # "none" => state'.result.error # "none"
  <2>1. /\ Publishable(d) /\ DemandBusy(d) /\ dem[d].base = base /\ base = queryGen /\ base # None
        /\ queryGen' = queryGen /\ ~(\E q \in Queries : RunTurn(q) /\ RunShows(q))
        /\ ~(\E s \in Sorts : SortOwns(s) /\ srt[s].at = "read")
    BY <1>5, PublishableStays
  <2>2. \A c \in Demands : DemandBusy(c) /\ dem[c].base = base => c = d
    BY <1>4, <2>1
  <2>3. \A c \in Demands : dem[c].at = "fetch" => dem[c].base # queryGen
    BY <2>1, <2>2 DEF DemandBusy, Publishable
  <2>4. dem'[d].error = "retry" => db'[queryGen'].fetches = "retry"
    BY <1>a, <1>b, <1>2, <1>5, <2>1, <2>3 DEF RetriesAreHeld
  <2>5. ASSUME dem'[d].error # "none", state'.result.error = "none" PROVE FALSE
    <3>1. state.result.error # "none" /\ HasResult'
      BY <1>a, <1>5, <2>1, <2>5 DEF RetriesAreHeld, Publishable
    <3>2. ASSUME NEW c \in Demands, Publishes(c) PROVE FALSE
      <4>1. Publishable(c) /\ dem'[c].at = "done"
        BY <3>2 DEF Publishes, DemandHasRead
      <4>2. c = d
        BY <1>c, <2>2, <4>1
      <4>3. QED
        BY <1>5, <2>1, <4>1, <4>2 DEF Publishable
    <3>3. ASSUME NEW c \in Demands, DemandAsks(c) PROVE FALSE
      BY <1>a, <1>b, <2>1, <3>3 DEF OneDemand, DemandAsks
    <3>4. QED
      BY <1>a, <2>1, <2>5, <3>1, <3>2, <3>3 DEF MarksGo, Refuses, Clears, SameButMarks, HasResult
  <2>6. QED
    BY <2>4, <2>5
<1>6. ASSUME NEW d \in Demands, Publishable(d)', DemandTurn(d)
      PROVE  /\ dem'[d].error = "retry" => db'[queryGen'].fetches = "retry"
             /\ dem'[d].error # "none" => state'.result.error # "none"
  <2>a. queryGen' = queryGen
    BY <1>6 DEF DemandTurn
  <2>b. dem'[d].at \in {"read", "viewer"} /\ dem'[d].base \in Queries /\ ShowsBase' /\ base' = dem'[d].base
    <3>1. dem'[d].at \in {"read", "viewer"}
      BY <1>6 DEF Publishable
    <3>2. dem'[d].base \in Queries
      BY <3>1 DEF Before, Shapes, Typed, DemandShape, Over, DemandedShape
    <3>3. QED
      BY <1>6, <1>b, <3>1, <3>2 DEF Publishable, ShowsBase
  <2>1. CASE DemandAsks(d)
    <3>1. /\ state' = state /\ base' = base /\ db' = db /\ dem'[d].error = state.result.error
      BY <2>1, <2>b DEF DemandAsks, Stays
    <3>2. ShowsBase
      BY <2>a, <2>b, <3>1 DEF ShowsBase, HasResult
    <3>3. QED
      BY <1>a, <2>a, <3>1, <3>2 DEF RetriesAreHeld
  <2>2. CASE DemandHasFetched(d)
    <3>1. /\ state' = state /\ base' = base /\ dem'[d].error = state.result.error /\ dem[d].at = "fetch"
          /\ dem'[d].base = dem[d].base
      BY <2>2, <2>b DEF DemandHasFetched
    <3>2. ShowsBase /\ dem[d].base = queryGen
      BY <2>a, <2>b, <3>1 DEF ShowsBase, HasResult
    <3>3. QED
      BY <1>a, <2>a, <3>1, <3>2 DEF RetriesAreHeld
  <2>3. CASE DemandReadsOn(d)
    <3>1. /\ state' = state /\ base' = base /\ db' = db /\ dem'[d].error = dem[d].error /\ dem[d].at = "read"
          /\ dem'[d].base = dem[d].base /\ dem'[d].gen = dem[d].gen /\ dem'[d].revision = dem[d].revision
      BY <2>3 DEF DemandReadsOn, Stays
    <3>2. Publishable(d)
      BY <1>6, <2>a, <3>1 DEF Publishable, HasResult
    <3>3. QED
      BY <1>a, <2>a, <3>1, <3>2 DEF RetriesAreHeld
  <2>4. QED
    BY <1>6, <2>b, <2>1, <2>2, <2>3 DEF DemandTurn, DemandRefused, DemandHasRead, DemandUnread, DemandLeaves
<1>7. ASSUME NEW d \in Demands, ShowsBase', dem'[d].at = "fetch", dem'[d].base = queryGen', state'.result.error = "retry"
      PROVE  FALSE
  <2>1. base' = base /\ queryGen' = queryGen /\ ShowsBase /\ base = queryGen /\ base # None
    BY <1>a, <1>7 DEF ShownGoes, RunShows, ShowsBase
  <2>2. ~DemandAsks(d)
    <3>1. DemandAsks(d) => HasResult /\ state' = Loading(state)
      BY <1>7 DEF DemandAsks
    <3>2. QED
      BY <1>7, <3>1, NotesDo DEF Before
  <2>3. dem[d].at = "fetch" /\ dem[d].base = queryGen /\ DemandBusy(d)
    BY <1>a, <1>7, <2>1, <2>2 DEF DemandsGo, DemandGoes, DemandLive, DemandBusy
  <2>4. state.result.error # "retry"
    BY <1>a, <2>1, <2>3 DEF RetriesAreHeld
  <2>5. ~Refuses
    <3>1. ASSUME NEW c \in Demands, DemandRefused(c), dem[c].base = queryGen PROVE FALSE
      <4>1. c = d
        BY <1>4, <2>1, <2>3, <3>1 DEF DemandRefused, DemandBusy
      <4>2. QED
        BY <1>7, <3>1, <4>1 DEF DemandRefused
    <3>2. ASSUME NEW s \in Sorts, SortOwns(s), srt[s].at = "drain" PROVE FALSE
      BY <1>a, <2>3, <3>2 DEF SortsAreAlone
    <3>3. ASSUME NEW e \in Exports, exp[e].at = "drain", exp[e].base = queryGen PROVE FALSE
      BY <1>a, <2>3, <3>3 DEF ExportsAreAlone, ExportLive
    <3>4. QED
      BY <3>1, <3>2, <3>3 DEF Refuses
  <2>6. \A c \in Demands : ~Publishes(c)
    <3>1. SUFFICES ASSUME NEW c \in Demands, Publishes(c) PROVE FALSE
      OBVIOUS
    <3>2. Publishable(c)
      BY <3>1 DEF Publishes
    <3>3. c = d
      BY <1>4, <1>c, <2>1, <2>3, <3>2
    <3>4. QED
      BY <2>3, <3>2, <3>3 DEF Publishable
  <2>7. QED
    BY <1>a, <1>7, <2>4, <2>5, <2>6 DEF MarksGo, Clears, ShowsBase, HasResult
<1>8. \A d \in Demands : dem'[d] = dem[d] \/ DemandTurn(d)
  BY DEF ReaderTurn, RunTurn, DemandTurn, SortEffect, SortAsks, ExportTurn, DownloadAsks, QuietTurn,
    CloseTurn,
         StopTurn, MoveTurn
<1>9. QED
  BY <1>1, <1>3, <1>5, <1>6, <1>7, <1>8 DEF RetriesAreHeld

LEMMA DemandsStayAsked ==
    ASSUME Before, ReaderTurn, NEW d \in Demands, dem[d].at # "no"
    PROVE  dem'[d].at # "no"
<1>1. DemandTurn(d) => dem'[d].at # "no"
  BY DEF DemandTurn, DemandAsks, DemandHasFetched, DemandRefused, DemandReadsOn, DemandHasRead,
    DemandUnread, DemandLeaves
<1>2. dem'[d] = dem[d] \/ DemandTurn(d)
  BY DEF ReaderTurn, RunTurn, DemandTurn, SortEffect, SortAsks, ExportTurn, DownloadAsks, QuietTurn,
    CloseTurn,
         StopTurn, MoveTurn
<1>3. QED
  BY <1>1, <1>2

\* A demand to fetch from the base is not made while a download fetches or is about to.
LEMMA DownloadsKeepOthersOut ==
    ASSUME Before, ReaderTurn, NEW e \in Exports, exp[e].at \in {"demand", "drain"}, exp[e].base = queryGen,
           NEW d \in Demands, DemandAsks(d), dem'[d].at = "fetch", base = queryGen
    PROVE  FALSE
<1>a. ExportsAreAlone /\ OneDemand /\ FamilyIsShown /\ ExportsInOrder
  BY DEF Before, ReaderInv
<1>b. /\ \A x \in Exports : x \in Nat /\ x > 0
      /\ \A c \in Demands : c # None
      /\ exp[e].demand \in {None} \cup Demands
      /\ \A c \in Demands : dem[c].at \in {"no", "done", "fetch", "read", "viewer", "cleanup"}
      /\ suspendedBy \in {None} \cup Exports
  <2>1. /\ suspendedBy \in {None} \cup Exports /\ exp \in [Exports -> ExportShape] /\ dem \in [Demands -> DemandShape]
    BY DEF Before, Shapes, Typed
  <2>2. exp[e].demand \in {None} \cup Demands
    BY <2>1 DEF ExportShape, ExportingShape, Over
  <2>3. \A c \in Demands : dem[c].at \in {"no", "done", "fetch", "read", "viewer", "cleanup"}
    BY <2>1 DEF DemandShape, DemandedShape, Over
  <2>4. (\A x \in Exports : x \in Nat /\ x > 0) /\ (\A c \in Demands : c # None)
    BY DEF Exports, Demands, None
  <2>5. QED
    BY <2>1, <2>2, <2>3, <2>4
<1>1. suspendedBy >= e /\ run[queryGen].at = "done"
  BY <1>a DEF ExportsInOrder, ExportLive
<1>2. state.result.error = "retry"
  BY <1>1, <1>b DEF DemandAsks, Loading, None
<1>3. ContinuationsRun
  <2>1. dem'[d] # dem[d]
    BY DEF DemandAsks
  <2>2. DemandTurn(d)
    BY <2>1 DEF ReaderTurn, RunTurn, DemandTurn, SortEffect, SortAsks, ExportTurn, DownloadAsks,
      QuietTurn, CloseTurn,
                StopTurn, MoveTurn
  <2>3. \A c \in Demands \ {d} : ~DemandTurn(c)
    BY <2>1 DEF DemandTurn
  <2>4. QED
    BY <2>1, <2>3
       DEF ReaderTurn, RunTurn, SortEffect, SortAsks, ExportTurn, DownloadAsks, QuietTurn, CloseTurn,
           StopTurn, MoveTurn
<1>4. CASE exp[e].at = "demand"
  <2>1. exp[e].demand # None /\ dem[exp[e].demand].at \notin {"cleanup", "done"}
    BY <1>3, <1>4 DEF ContinuationsRun, DemandSettled
  <2>2. DemandBusy(exp[e].demand) /\ dem[exp[e].demand].base = queryGen /\ exp[e].demand \in Demands
    BY <1>a, <1>b, <1>4, <2>1 DEF ExportsAreAlone, ExportLive, DemandBusy
  <2>3. QED
    BY <1>a, <1>b, <2>2 DEF OneDemand, DemandAsks
<1>5. CASE exp[e].at = "drain"
  <2>1. ShowsBase
    BY <1>a, <1>1 DEF FamilyIsShown, DemandAsks, ShowsBase
  <2>2. QED
    BY <1>a, <1>2, <1>5, <2>1 DEF ExportsAreAlone, ExportLive
<1>6. QED
  BY <1>4, <1>5

LEMMA ExportsKeptAlone ==
    ASSUME Before, ReaderTurn
    PROVE  ExportsAreAlone'
<1>a. /\ ExportsAreAlone /\ OneDemand /\ SortsAreAlone /\ ExportsInOrder /\ RetriesAreHeld
      /\ MarksGo /\ ShownGoes /\ DemandsGo /\ ExportsGo /\ (queryGen' = queryGen \/ MoveTurn)
  BY MarksGoOn, ShownGoOn, DemandsGoOn, ExportsGoOn, BaseGoOn DEF Before, ReaderInv
<1>b. /\ queryGen \in Nat
      /\ \A e \in Exports : e \in Nat /\ (ExportLive(e) => exp[e].base \in Nat /\ exp[e].base <= queryGen
                                                           /\ exp[e].demand \in {None} \cup Demands)
      /\ base \in {None} \cup Queries /\ demand \in {None} \cup Demands
      /\ \A d \in Demands : d # None
      /\ \A q \in Queries : q # None
  <2>1. \A e \in Exports : ExportLive(e) => exp[e].base \in Queries /\ exp[e].demand \in {None} \cup Demands
    BY DEF Before, Shapes, Typed, ExportShape, ExportingShape, ExportLive
  <2>2. QED
    BY <1>a, <2>1 DEF Before, Shapes, Typed, Exports, Queries, Demands, None, ExportsInOrder
<1>1. SUFFICES ASSUME NEW e \in Exports, ExportLive(e)', exp'[e].base = queryGen'
      PROVE  /\ exp'[e].at = "demand" =>
                  /\ \A d \in Demands : dem'[d].at = "fetch" /\ dem'[d].base = queryGen' => exp'[e].demand = d
                  /\ exp'[e].demand # None =>
                       dem'[exp'[e].demand].at # "no"
                       /\ (dem'[exp'[e].demand].at \in {"fetch", "read", "viewer"} => dem'[exp'[e].demand].base = queryGen')
             /\ exp'[e].at = "drain" =>
                  /\ \A d \in Demands : dem'[d].at = "fetch" => dem'[d].base # queryGen'
                  /\ ShowsBase' => state'.result.error # "retry"
                  /\ \A d \in Demands : Publishable(d)' => dem'[d].error # "retry"
  BY DEF ExportsAreAlone, DemandBusy
<1> DEFINE AtDemand ==
             /\ \A d \in Demands : dem'[d].at = "fetch" /\ dem'[d].base = queryGen' => exp'[e].demand = d
             /\ exp'[e].demand # None =>
                  dem'[exp'[e].demand].at # "no"
                  /\ (dem'[exp'[e].demand].at \in {"fetch", "read", "viewer"} => dem'[exp'[e].demand].base = queryGen')
           AtDrain ==
             /\ \A d \in Demands : dem'[d].at = "fetch" => dem'[d].base # queryGen'
             /\ ShowsBase' => state'.result.error # "retry"
             /\ \A d \in Demands : Publishable(d)' => dem'[d].error # "retry"
\* Of the demands that fetch from the base after the step, none is new.
<1>2. ASSUME exp[e].at \in {"demand", "drain"}, exp[e].base = queryGen, queryGen' = queryGen,
             NEW d \in Demands, dem'[d].at = "fetch", dem'[d].base = queryGen'
      PROVE  dem[d].at = "fetch" /\ dem[d].base = queryGen
  <2>1. ~DemandAsks(d)
    <3>1. DemandAsks(d) => base = queryGen
      BY <1>2 DEF DemandAsks
    <3>2. QED
      BY <1>2, <3>1, DownloadsKeepOthersOut
  <2>2. QED
    BY <1>a, <1>2, <2>1 DEF DemandsGo, DemandGoes, DemandLive
<1>3. ASSUME exp'[e].at = "demand", exp[e].at = "demand", exp[e].base = queryGen, queryGen' = queryGen,
             exp'[e].demand = exp[e].demand
      PROVE  AtDemand
  <2>1. \A d \in Demands : dem'[d].at = "fetch" /\ dem'[d].base = queryGen' => exp'[e].demand = d
    BY <1>a, <1>2, <1>3 DEF ExportsAreAlone, ExportLive
  <2>2. ASSUME exp'[e].demand # None
        PROVE  /\ dem'[exp'[e].demand].at # "no"
               /\ dem'[exp'[e].demand].at \in {"fetch", "read", "viewer"} => dem'[exp'[e].demand].base = queryGen'
    <3> DEFINE c == exp[e].demand
    <3>1. c \in Demands /\ exp'[e].demand = c
      BY <1>b, <1>3, <2>2 DEF ExportLive
    <3>2. dem[c].at # "no" /\ (DemandBusy(c) => dem[c].base = queryGen)
      BY <1>a, <1>3, <2>2 DEF ExportsAreAlone, ExportLive
    <3>3. dem'[c].at # "no"
      BY <3>1, <3>2, DemandsStayAsked
    <3>4. ASSUME dem'[c].at \in {"fetch", "read", "viewer"} PROVE dem'[c].base = queryGen'
      <4>1. DemandGoes(c)
        BY <1>a, <3>1, <3>2, <3>4 DEF DemandsGo, DemandAsks, DemandLive
      <4>2. QED
        BY <1>3, <3>2, <3>4, <4>1 DEF DemandGoes, DemandBusy
    <3>5. QED
      BY <3>1, <3>3, <3>4
  <2>3. QED
    BY <2>1, <2>2
<1>4. ASSUME exp'[e].at = "drain", exp[e].at = "drain", exp[e].base = queryGen, queryGen' = queryGen
      PROVE  AtDrain
  <2>a. /\ \A d \in Demands : dem[d].at = "fetch" => dem[d].base # queryGen
        /\ ShowsBase => state.result.error # "retry"
        /\ \A d \in Demands : Publishable(d) => dem[d].error # "retry"
    BY <1>a, <1>4 DEF ExportsAreAlone, ExportLive
  <2>1. \A d \in Demands : dem'[d].at = "fetch" => dem'[d].base # queryGen'
    BY <1>2, <1>4, <2>a
  <2>2. ASSUME ShowsBase', state'.result.error = "retry" PROVE FALSE
    <3>1. ShowsBase
      BY <1>a, <2>2 DEF ShownGoes, RunShows
    <3>2. ~Refuses
      <4>1. ASSUME NEW d \in Demands, DemandRefused(d), dem[d].base = queryGen PROVE FALSE
        BY <2>a, <4>1 DEF DemandRefused
      <4>2. ASSUME NEW s \in Sorts, SortOwns(s), srt[s].at = "drain" PROVE FALSE
        BY <1>a, <1>4, <4>2 DEF SortsAreAlone, Settled
      <4>3. ASSUME NEW x \in Exports, exp[x].at = "drain", exp'[x].at = "unwind" PROVE FALSE
        <5>1. x # e
          BY <1>4, <4>3
        <5>2. x < e \/ e < x
          BY <1>b, <5>1
        <5>3. QED
          BY <1>a, <1>4, <4>3, <5>2 DEF ExportsInOrder, Settled
      <4>4. QED
        BY <4>1, <4>2, <4>3 DEF Refuses
    <3>3. QED
      BY <1>a, <2>2, <2>a, <3>1, <3>2 DEF MarksGo, Clears, Publishes, ShowsBase, HasResult
  <2>3. ASSUME NEW d \in Demands, Publishable(d)', dem'[d].error = "retry" PROVE FALSE
    <3>1. CASE dem'[d] = dem[d]
      BY <2>3, <2>a, <3>1, PublishableStays
    <3>2. CASE DemandTurn(d)
      <4>a. dem'[d].at \in {"read", "viewer"} /\ dem'[d].base \in Queries /\ ShowsBase' /\ base' = dem'[d].base
        <5>1. dem'[d].at \in {"read", "viewer"}
          BY <2>3 DEF Publishable
        <5>2. dem'[d].base \in Queries
          BY <5>1 DEF Before, Shapes, Typed, DemandShape, Over, DemandedShape
        <5>3. QED
          BY <2>3, <1>b, <5>1, <5>2 DEF Publishable, ShowsBase
      <4>1. CASE DemandAsks(d)
        <5>1. /\ state' = state /\ base' = base /\ dem'[d].error = state.result.error
          BY <4>1, <4>a DEF DemandAsks, Stays
        <5>2. ShowsBase
          BY <1>4, <4>a, <5>1 DEF ShowsBase, HasResult
        <5>3. QED
          BY <2>3, <2>a, <5>1, <5>2
      <4>2. CASE DemandHasFetched(d)
        BY <1>4, <2>3, <2>a, <4>a, <4>2 DEF DemandHasFetched, ShowsBase
      <4>3. CASE DemandReadsOn(d)
        <5>1. /\ state' = state /\ base' = base /\ dem'[d].error = dem[d].error /\ dem[d].at = "read"
              /\ dem'[d].base = dem[d].base /\ dem'[d].gen = dem[d].gen /\ dem'[d].revision = dem[d].revision
          BY <4>3 DEF DemandReadsOn, Stays
        <5>2. Publishable(d)
          BY <1>4, <2>3, <5>1 DEF Publishable, HasResult
        <5>3. QED
          BY <2>3, <2>a, <5>1, <5>2
      <4>4. QED
        BY <3>2, <4>a, <4>1, <4>2, <4>3 DEF DemandTurn, DemandRefused, DemandHasRead, DemandUnread,
          DemandLeaves
    <3>3. dem'[d] = dem[d] \/ DemandTurn(d)
      BY DEF ReaderTurn, RunTurn, DemandTurn, SortEffect, SortAsks, ExportTurn, DownloadAsks, QuietTurn,
        CloseTurn,
             StopTurn, MoveTurn
    <3>4. QED
      BY <3>1, <3>2, <3>3
  <2>4. QED
    BY <2>1, <2>2, <2>3
\* Where it was, the download goes on under the same query.
<1>5. ASSUME exp'[e].at \in {"demand", "drain"}, exp'[e].at = exp[e].at, ExportLive(e) => exp'[e].base = exp[e].base
      PROVE  exp[e].base = queryGen /\ queryGen' = queryGen
  <2>1. exp'[e].base = exp[e].base /\ exp[e].base \in Nat /\ exp[e].base <= queryGen
    BY <1>b, <1>5 DEF ExportLive
  <2>2. queryGen' = queryGen
    BY <1>1, <1>a, <1>b, <2>1 DEF MoveTurn
  <2>3. QED
    BY <1>1, <2>1, <2>2
<1> DEFINE Goal == (exp'[e].at = "demand" => AtDemand) /\ (exp'[e].at = "drain" => AtDrain)
<1> HIDE DEF AtDemand, AtDrain
<1>6. ASSUME exp'[e].at = exp[e].at,
             ExportLive(e) => exp'[e].base = exp[e].base /\ exp'[e].demand = exp[e].demand
      PROVE  Goal
  <2>1. exp'[e].at = "demand" => AtDemand
    BY <1>3, <1>5, <1>6 DEF ExportLive
  <2>2. exp'[e].at = "drain" => AtDrain
    BY <1>4, <1>5, <1>6 DEF ExportLive
  <2>3. QED
    BY <2>1, <2>2
<1>7. ASSUME ExportTurn(e) PROVE Goal
  <2>a. /\ UNCHANGED <<queryGen, dem, base>> /\ exp'[e].base = exp[e].base /\ exp[e].base = queryGen
    BY <1>1, <1>7 DEF ExportTurn
  <2>1. CASE ExportPicks(e)
    <3>1. base = queryGen /\ base # None /\ exp'[e].demand = demand /\ exp'[e].at = "demand"
      <4>1. base = exp[e].base /\ exp[e].base \in Queries
        BY <1>7, <2>1 DEF ExportPicks, MayGoOn, IsCurrentExport, ExportTurn, Before, Shapes, Typed,
          ExportShape,
                          ExportingShape, ExportLive
      <4>2. QED
        BY <1>b, <2>1, <2>a, <4>1 DEF ExportPicks
    <3>2. AtDemand
      BY <1>a, <1>b, <2>a, <3>1 DEF OneDemand, DemandBusy, AtDemand
    <3>3. QED
      BY <3>1, <3>2
  <2>2. CASE ExportFetches(e)
    <3>1. exp[e].at = "demand" /\ exp'[e].at = "drain" /\ DemandSettled(exp[e].demand) /\ ExportLive(e)
          /\ state'.result = state.result /\ state.result.error = "none"
      BY <2>2 DEF ExportFetches, ExportStill, ExportLive
    <3>2. \A d \in Demands : dem'[d].at = "fetch" => dem'[d].base # queryGen'
      BY <1>a, <1>b, <2>a, <3>1 DEF ExportsAreAlone, DemandSettled
    <3>3. \A d \in Demands : Publishable(d)' => dem'[d].error # "retry"
      <4>1. ASSUME NEW d \in Demands, Publishable(d)' PROVE dem'[d].error # "retry"
        <5>1. Publishable(d) /\ dem'[d] = dem[d]
          BY <2>a, <4>1, PublishableStays
        <5>2. QED
          BY <1>a, <3>1, <5>1 DEF RetriesAreHeld
      <4>2. QED
        BY <4>1
    <3>4. QED
      BY <3>1, <3>2, <3>3 DEF AtDrain
  <2>3. CASE ExportHasFetched(e)
    <3>1. CASE exp'[e].at = "drain"
      BY <1>1, <1>6, <1>7, <2>3, <3>1 DEF ExportHasFetched, ExportTurn
    <3>2. QED
      BY <2>3, <3>1 DEF ExportHasFetched
  <2>4. CASE ExportRefused(e) \/ ExportMoves(e) \/ ExportIsOver(e)
    BY <2>4 DEF ExportRefused, ExportMoves, ExportIsOver
  <2>5. QED
    BY <1>7, <2>1, <2>2, <2>3, <2>4 DEF ExportTurn
<1>8. ASSUME NEW x \in Exports, DownloadAsks(x) PROVE Goal
  BY <1>6, <1>8 DEF DownloadAsks
<1>9. ASSUME NEW x \in Exports \ {e}, ExportTurn(x) PROVE Goal
  BY <1>6, <1>9 DEF ExportTurn
<1>10. Goal
  BY <1>a, <1>6, <1>7, <1>8, <1>9 DEF ExportsGo, ExportsKeep
<1>11. QED
  BY <1>10 DEF AtDemand, AtDrain

\* While a query has rows of the one before on display, they stay, or cannot be asked for.
LEMMA OldRowsStay ==
    ASSUME Before, ReaderTurn, queryGen \in Queries, run[queryGen].at \in {"cleanup", "closing", "start", "fetch"}
    PROVE  state'.result = state.result \/ ~Demandable(state'.result)
<1>a. MarksGo /\ (HasResult => run[state.result.gen].at = "done")
      /\ \A s \in Sorts : SortOwns(s) => run[queryGen].at = "done"
  BY MarksGoOn DEF Before, OrderInv, RunsInOrder, SortsInOrder, SortOwns
<1>1. CASE state'.result \in {state.result, NoResult}
  BY <1>1 DEF Demandable
<1>2. CASE SameButMarks /\ state'.result.error = "final"
  BY <1>2 DEF Demandable
<1>3. CASE Clears
  <2>1. ASSUME NEW d \in Demands, DemandAsks(d), SameButMarks
        PROVE state'.result = state.result \/ ~Demandable(state'.result)
    <3>1. HasResult /\ Shapes /\ (state' = Loading(state) \/ state' = state)
      BY <2>1 DEF DemandAsks, Before
    <3>2. state' = Loading(state) => state'.result.error = "none" /\ state'.result.loading = TRUE
      BY <3>1, NotesDo
    <3>3. QED
      BY <3>1, <3>2 DEF Demandable
  <2>2. ASSUME NEW q \in Queries, RunShows(q) PROVE FALSE
    BY <2>2 DEF RunShows, IsCurrentQuery
  <2>3. QED
    BY <1>3, <1>a, <2>1, <2>2 DEF Clears
<1>4. ~Refuses /\ \A d \in Demands : ~Publishes(d)
  BY <1>a DEF Refuses, ShowsBase, Publishes, Publishable
<1>5. QED
  BY <1>1, <1>2, <1>3, <1>4, <1>a DEF MarksGo

LEMMA RunsKeptAlone ==
    ASSUME Before, ReaderTurn
    PROVE  RunsAreAlone'
<1>a. /\ RunsAreAlone /\ RetriesAreHeld /\ SessionsInOrder /\ DemandsGo /\ (queryGen' = queryGen \/ MoveTurn)
      /\ HasResult => run[state.result.gen].at = "done"
  BY DemandsGoOn, BaseGoOn DEF Before, ReaderInv, OrderInv, RunsInOrder
<1>b. /\ queryGen \in Nat /\ queryGen' \in Nat /\ (queryGen' # 0 => queryGen' \in Queries)
      /\ \A q \in Queries : q \in Nat
  BY DEF Before, Shapes, Typed, Queries
<1>1. SUFFICES ASSUME queryGen' # 0
      PROVE  /\ \A d \in Demands : DemandLive(d)' /\ dem'[d].base = queryGen' => run'[queryGen'].at # "fetch"
             /\ run'[queryGen'].at \in {"start", "fetch"} => ~Demandable(state'.result)
             /\ run'[queryGen'].at \in {"cleanup", "closing"} =>
                  state'.result = run'[queryGen'].prior \/ ~Demandable(state'.result)
  BY DEF RunsAreAlone, Demandable
<1> DEFINE Goal ==
             /\ \A d \in Demands : DemandLive(d)' /\ dem'[d].base = queryGen' => run'[queryGen'].at # "fetch"
             /\ run'[queryGen'].at \in {"start", "fetch"} => ~Demandable(state'.result)
             /\ run'[queryGen'].at \in {"cleanup", "closing"} =>
                  state'.result = run'[queryGen'].prior \/ ~Demandable(state'.result)
<1>2. CASE MoveTurn
  <2>1. run[queryGen'].at = "no"
    BY <1>2, <1>b DEF MoveTurn, Before, OrderInv, RunsInOrder
  <2>2. QED
    BY <1>2, <2>1 DEF MoveTurn
<1>3. ASSUME queryGen' = queryGen, run'[queryGen] = run[queryGen] PROVE Goal
  <2>a. queryGen \in Queries /\ queryGen # 0
    BY <1>1, <1>3, <1>b
  <2>1. ASSUME NEW d \in Demands, DemandLive(d)', dem'[d].base = queryGen, run[queryGen].at = "fetch"
        PROVE FALSE
    <3>1. CASE DemandGoes(d)
      BY <1>a, <2>1, <2>a, <3>1 DEF DemandGoes, RunsAreAlone
    <3>2. CASE DemandAsks(d)
      <4>1. HasResult /\ (Demandable(state.result) \/ IsActiveResult(base, state.result.gen))
        BY <3>2 DEF DemandAsks, Demandable, HasResult
      <4>2. ~Demandable(state.result)
        BY <1>a, <2>1, <2>a DEF RunsAreAlone
      <4>3. ~IsActiveResult(base, state.result.gen)
        BY <1>a, <2>1, <4>1 DEF IsActiveResult, IsCurrentQuery
      <4>4. QED
        BY <4>1, <4>2, <4>3
    <3>3. QED
      BY <1>a, <2>1, <3>1, <3>2 DEF DemandsGo
  <2>2. ASSUME run[queryGen].at \in {"start", "fetch"} PROVE ~Demandable(state'.result)
    <3>1. ~Demandable(state.result)
      BY <1>a, <2>2, <2>a DEF RunsAreAlone
    <3>2. QED
      BY <2>2, <2>a, <3>1, OldRowsStay
  <2>3. ASSUME run[queryGen].at \in {"cleanup", "closing"}
        PROVE  state'.result = run[queryGen].prior \/ ~Demandable(state'.result)
    <3>1. state.result = run[queryGen].prior \/ ~Demandable(state.result)
      BY <1>a, <2>3, <2>a DEF RunsAreAlone
    <3>2. QED
      BY <2>3, <2>a, <3>1, OldRowsStay
  <2>4. QED
    BY <1>3, <2>1, <2>2, <2>3
<1>4. ASSUME NEW q \in Queries, RunTurn(q) PROVE Goal
  <2>a. queryGen' = queryGen /\ \A p \in Queries \ {q} : run'[p] = run[p]
    BY <1>4 DEF RunTurn
  <2>1. CASE q # queryGen
    BY <1>1, <1>3, <1>b, <2>1, <2>a
  <2>2. CASE q = queryGen
    <3>a. queryGen # 0
      BY <1>1, <2>a
    <3>1. CASE RunNotes(q)
      <4>1. run'[queryGen'].at = "start" /\ run[q].at = "closing"
        BY <2>2, <2>a, <3>1 DEF RunNotes
      <4>2. state.result = run[q].prior \/ ~Demandable(state.result)
        BY <1>a, <2>2, <3>a, <4>1 DEF RunsAreAlone
      <4>3. CASE run[q].prior # NoResult /\ ~run[q].prior.complete /\ state.result = run[q].prior
        <5>1. Noted("final") /\ HasResult
          BY <3>1, <4>3 DEF RunNotes, Noted, HasResult
        <5>2. state'.result.error = "final"
          BY <5>1, NotesDo DEF Before, Errors
        <5>3. QED
          BY <4>1, <5>2 DEF Demandable
      <4>4. CASE ~(run[q].prior # NoResult /\ ~run[q].prior.complete /\ state.result = run[q].prior)
        <5>1. state'.result = state.result
          BY <3>1, <4>4 DEF RunNotes
        <5>2. ~Demandable(state.result)
          BY <1>a, <4>2, <4>4 DEF Demandable, RetriesAreHeld, HasResult
        <5>3. QED
          BY <4>1, <5>1, <5>2
      <4>5. QED
        BY <4>3, <4>4
    <3>2. CASE RunStarted(q)
      <4>1. run[q].at = "start" /\ state' = state
        BY <3>2 DEF RunStarted
      <4>2. ~Demandable(state'.result)
        BY <1>a, <2>2, <3>a, <4>1 DEF RunsAreAlone
      <4>3. \A d \in Demands : DemandLive(d)' => dem'[d].base # queryGen'
        BY <1>4, <1>a, <2>2, <2>a, <4>1 DEF RunTurn, SessionsInOrder, DemandLive
      <4>4. run'[queryGen'].at \in {"fetch", "drop"}
        BY <2>2, <2>a, <3>2 DEF RunStarted
      <4>5. QED
        BY <4>2, <4>3, <4>4
    <3>3. CASE RunWithdraws(q)
      <4>1. CASE run[q].at = "cleanup" /\ run'[q].at = "closing" /\ run'[q].prior = run[q].prior
        <5>1. state.result = run[q].prior \/ ~Demandable(state.result)
          BY <1>a, <2>2, <3>a, <4>1 DEF RunsAreAlone
        <5>2. state'.result = state.result
          BY <3>3 DEF RunWithdraws, Withdraws
        <5>3. QED
          BY <2>2, <2>a, <4>1, <5>1, <5>2
      <4>2. CASE run'[q].at = "fail"
        BY <2>2, <2>a, <4>2
      <4>3. QED
        BY <3>3, <4>1, <4>2 DEF RunWithdraws
    <3>4. CASE RunLeaves(q) \/ RunHasFetched(q) \/ RunReadsOn(q) \/ RunShows(q)
      BY <2>2, <2>a, <3>4 DEF RunLeaves, RunHasFetched, RunReadsOn, RunShows
    <3>5. QED
      BY <1>4, <3>1, <3>2, <3>3, <3>4 DEF RunTurn
  <2>3. QED
    BY <2>1, <2>2
<1>5. ~MoveTurn /\ ~(\E q \in Queries : RunTurn(q)) => run' = run
  BY DEF ReaderTurn, DemandTurn, SortEffect, SortAsks, ExportTurn, DownloadAsks, QuietTurn, CloseTurn,
    StopTurn
<1>6. QED
  BY <1>2, <1>3, <1>4, <1>5, <1>a

-----------------------------------------------------------------------------
(* The cursor of the current query has one reader.                             *)

LEMMA InitReaders ==
    ASSUME Assumptions, Init
    PROVE  OpenInv /\ ReaderInv
<1>a. /\ state.result = NoResult /\ base = None /\ view = NoView /\ closes = {} /\ demand = None
      /\ queryGen = 0 /\ exportGen = None
      /\ \A q \in Queries : run[q].at = "no" /\ db[q].at = "none" /\ ~db[q].whole
      /\ \A d \in Demands : dem[d].at = "no"
      /\ \A s \in Sorts : srt[s].at = "no"
      /\ \A e \in Exports : exp[e].at = "no"
  BY DEF Init, FamilyInit, Ready, InitialState
<1>1. OpenInv
  BY <1>a DEF OpenInv, BaseIsOpen, ViewsAreKept, NoView
<1>2. SessionsInOrder /\ OneDemand /\ OneFetch
  BY <1>a DEF SessionsInOrder, OneDemand, OneFetch, DemandLive, DemandBusy
<1>3. FamilyIsShown /\ ExportsInOrder /\ SortsAreAlone
  BY <1>a DEF FamilyIsShown, ExportsInOrder, SortsAreAlone, SortOwns, SortLive, ExportLive, Queries, None
<1>4. WholeIsWhole /\ RetriesAreHeld /\ ExportsAreAlone /\ RunsAreAlone
  BY <1>a DEF WholeIsWhole, RetriesAreHeld, ExportsAreAlone, RunsAreAlone, HasResult, ShowsBase, Publishable,
              ExportLive
<1>5. QED
  BY <1>1, <1>2, <1>3, <1>4 DEF ReaderInv

LEMMA ReadersKept ==
    ASSUME Assumptions, Shapes, Shapes', OrderInv, OpenInv, ReaderInv, [Next]_vars
    PROVE  (OrderInv /\ OpenInv /\ ReaderInv)'
<1>1. OrderInv' /\ OpenInv'
  BY OrderKept, OpenKept
<1>2. Before /\ ReaderTurn
  BY <1>1, ReaderSteps DEF Before, ReaderInv, OrderInv
<1>3. QED
  BY <1>1, <1>2, SessionsKept, OneDemandKept, FamilyKept, ExportsInOrderKept, SortsKeptAlone, WholeKept,
      RetriesKept,
     ExportsKeptAlone, RunsKeptAlone
     DEF ReaderInv

LEMMA AtMostOne ==
    ASSUME NEW S, \A x, y \in S : x = y
    PROVE  Cardinality(S) \in {0, 1} /\ (S = {} => Cardinality(S) = 0)
<1>1. CASE S = {}
  BY <1>1, FS_EmptySet
<1>2. CASE S # {}
  <2>1. PICK x : x \in S
    BY <1>2
  <2>2. S = {x}
    BY <2>1
  <2>3. QED
    BY <1>2, <2>2, FS_Singleton
<1>3. QED
  BY <1>1, <1>2

\* Those that may fetch exclude one another.
LEMMA ReadersExclude ==
    ASSUME Assumptions, Shapes, OrderInv, ReaderInv
    PROVE  OneFetcher
<1>1. SUFFICES ASSUME NEW q \in Queries, q = queryGen
      PROVE  Cardinality({d \in Demands : dem[d].at = "fetch" /\ dem[d].base = q})
               + Cardinality({s \in Sorts : srt[s].at = "drain" /\ srt[s].base = q})
               + Cardinality({e \in Exports : exp[e].at = "drain" /\ exp[e].base = q})
               + (IF run[q].at = "fetch" THEN 1 ELSE 0) <= 1
  BY DEF OneFetcher
<1> DEFINE D == {d \in Demands : dem[d].at = "fetch" /\ dem[d].base = q}
           S == {s \in Sorts : srt[s].at = "drain" /\ srt[s].base = q}
           E == {e \in Exports : exp[e].at = "drain" /\ exp[e].base = q}
<1>a. /\ OneFetch /\ SortsAreAlone /\ ExportsInOrder /\ ExportsAreAlone /\ RunsAreAlone /\ SortsInOrder
      /\ q # 0 /\ \A e \in Exports : e \in Nat
  BY DEF ReaderInv, OrderInv, Queries, Exports
<1>b. \A s \in S : s \in Sorts /\ SortOwns(s) /\ srt[s].at = "drain"
  BY <1>1 DEF SortOwns, SortLive
<1>2. \A c, d \in D : c = d
  BY <1>a DEF OneFetch
<1>3. \A r, s \in S : r = s
  BY <1>a, <1>b DEF SortsAreAlone
<1>4. \A x, e \in E : x = e
  <2>1. ASSUME NEW x \in E, NEW e \in E, x # e PROVE FALSE
    <3>1. x < e \/ e < x
      BY <1>a, <2>1
    <3>2. QED
      BY <1>a, <2>1, <3>1 DEF ExportsInOrder, Settled
  <2>2. QED
    BY <2>1
<1>5. \A s \in S : D = {} /\ E = {} /\ run[q].at # "fetch"
  <2>1. ASSUME NEW s \in S, NEW d \in D PROVE FALSE
    BY <1>1, <1>a, <1>b, <2>1 DEF SortsAreAlone, DemandBusy
  <2>2. ASSUME NEW s \in S, NEW e \in E PROVE FALSE
    BY <1>a, <1>b, <2>2 DEF SortsAreAlone, Settled
  <2>3. ASSUME NEW s \in S PROVE run[q].at = "done"
    BY <1>1, <1>a, <1>b, <2>3 DEF SortsInOrder, SortOwns
  <2>4. QED
    BY <2>1, <2>2, <2>3
<1>6. \A e \in E : D = {} /\ run[q].at # "fetch"
  <2>1. ASSUME NEW e \in E PROVE D = {} /\ run[q].at # "fetch"
    <3>1. ExportLive(e) /\ e \in Exports /\ exp[e].base = queryGen /\ exp[e].at = "drain"
      BY <1>1, <2>1 DEF ExportLive
    <3>2. run[q].at = "done"
      BY <1>1, <1>a, <3>1 DEF ExportsInOrder
    <3>3. \A d \in Demands : dem[d].at = "fetch" => dem[d].base # q
      BY <1>1, <1>a, <3>1 DEF ExportsAreAlone
    <3>4. QED
      BY <3>2, <3>3
  <2>2. QED
    BY <2>1
<1>7. \A d \in D : run[q].at # "fetch"
  BY <1>1, <1>a DEF RunsAreAlone, DemandLive
<1>8. /\ Cardinality(D) \in {0, 1} /\ (D = {} => Cardinality(D) = 0)
      /\ Cardinality(S) \in {0, 1} /\ (S = {} => Cardinality(S) = 0)
      /\ Cardinality(E) \in {0, 1} /\ (E = {} => Cardinality(E) = 0)
  <2> HIDE DEF D, S, E
  <2>1. QED
    BY <1>2, <1>3, <1>4, AtMostOne
<1>9. Cardinality(D) + Cardinality(S) + Cardinality(E) + (IF run[q].at = "fetch" THEN 1 ELSE 0) <= 1
  <2> HIDE DEF D, S, E
  <2>1. CASE S # {}
    BY <1>5, <1>8, <2>1
  <2>2. CASE S = {} /\ E # {}
    BY <1>6, <1>8, <2>2
  <2>3. CASE S = {} /\ E = {} /\ D # {}
    BY <1>7, <1>8, <2>3
  <2>4. CASE S = {} /\ E = {} /\ D = {}
    BY <1>8, <2>4
  <2>5. QED
    BY <2>1, <2>2, <2>3, <2>4
<1>10. QED
  BY <1>9

\* The cursor of the current query has one reader: a run, a demand, a sort and a download
\* never fetch its pages at the same time (result-sorter.ts:204-206, result-exporter.ts:245-247).
THEOREM OneReaderFetches ==
    ASSUME Assumptions
    PROVE  Spec => []OneFetcher
<1>1. Init => OrderInv /\ OpenInv /\ ReaderInv
  BY InitOrder, InitReaders
<1>2. Shapes /\ Shapes' /\ (OrderInv /\ OpenInv /\ ReaderInv) /\ [Next]_vars => (OrderInv /\ OpenInv /\ ReaderInv)'
  BY ReadersKept
<1>3. Shapes /\ OrderInv /\ OpenInv /\ ReaderInv => OneFetcher
  BY ReadersExclude
<1>4. QED
  BY <1>1, <1>2, <1>3, ShapesHold, PTL DEF Spec
=============================================================================
