---------------------------- MODULE Database_proofs ----------------------------
(***************************************************************************)
(* Proofs about Database, for any number of calls of any kinds: the         *)
(* connection has one owner, a disposed database is quiet, and only the     *)
(* latest query opens.                                                     *)
(***************************************************************************)
EXTENDS Database, FiniteSetTheorems, TLAPS

-----------------------------------------------------------------------------
(* The inductive invariant.                                                 *)

QueuePlaces == {"queued", "closeExport", "retire", "close", "persist", "send", "create",
                "abandon", "writing", "resolved"}
Queueing == {"query", "sort", "export"}

\* The calls made are the first ones.
Called == {c \in Calls : kind[c] # "none"}

CallsAreCounted ==
    /\ \A c \in Calls : kind[c] = "none" <=> at[c] = "none"
    /\ Called = 1..Cardinality(Called)

\* Each call is at a place of its own coroutine.
PlacesOfKinds ==
    \A c \in Calls :
        /\ kind[c] = "query" => at[c] \in QueuePlaces \cup {"done"}
        /\ kind[c] \in {"sort", "export"} => at[c] \in {"queued", "writing", "resolved", "done"}
        /\ kind[c] = "cancel" => at[c] \in {"abortSort", "abortExport", "close", "done"}
        /\ kind[c] = "ingest" => at[c] \in {"abortSort", "abortExport", "cancelSent", "idle",
                                            "closeExport", "retire", "close", "done"}

\* The queue holds the operations that have not settled, each once, and only the first
\* has begun.
QueueHoldsOperations ==
    /\ queue \in Seq(Calls)
    /\ \A i, j \in 1..Len(queue) : queue[i] = queue[j] => i = j
    /\ \A i \in 1..Len(queue) :
          /\ kind[queue[i]] \in Queueing /\ ~Done(queue[i])
          /\ i # 1 => at[queue[i]] = "queued"
    /\ \A c \in Calls : kind[c] \in Queueing /\ ~Done(c) => \E i \in 1..Len(queue) : queue[i] = c

CallsInv == CallsAreCounted /\ PlacesOfKinds /\ QueueHoldsOperations

\* A query that has not settled is the pending one or has been cancelled, and it has been
\* where a later query, or a later cancellation or ingest that is past its own
\* cancelling, stops it.
Unsettled(q) == kind[q] = "query" /\ ~Done(q)

Stops(c) ==
    \/ kind[c] = "query"
    \/ kind[c] \in {"cancel", "ingest"} /\ at[c] \notin {"abortSort", "abortExport"}

LatestInv ==
    /\ \A q \in Calls : Unsettled(q) => q = pendingQuery \/ q \in cancelRequested
    /\ \A q, c \in Calls : Unsettled(q) /\ q < c /\ Stops(c) => q \in cancelRequested

\* A query in its operation may make a session.
Admitted(q) == Underway(q) \/ (kind[q] = "query" /\ at[q] = "abandon")

\* An ingest under way keeps queries out, waits for those that are in, and finds none
\* when it closes the result; nor is there one while it is open.
Ingesting(c) == kind[c] = "ingest" /\ ~Done(c)

IngestBars ==
    /\ \A c \in Calls : Ingesting(c) => ingestStarting
    /\ \A c, d \in Calls : Ingesting(c) /\ Ingesting(d) => c = d
    /\ \A c, q \in Calls : Ingesting(c) /\ Admitted(q) =>
          /\ at[c] = "idle" => q \in joins[c]
          /\ at[c] \notin {"closeExport", "retire", "close"}
    /\ activeIngest # None => activeQuery = None /\ \A q \in Calls : ~Admitted(q)

\* A result that is open or closing is the current one, or that of a query which abandons
\* it; whoever closes the current one knows it, and who makes the next has seen it gone.
SessionsInv ==
    /\ activeQuery # None => session[activeQuery] # "none"
    /\ \A s \in Calls : session[s] # "none" =>
          s = activeQuery \/ (kind[s] = "query" /\ at[s] = "abandon")
    /\ \A c \in Calls : kind[c] \in {"query", "ingest"} /\ at[c] \in {"retire", "close"} =>
          In(activeQuery) \subseteq joins[c]
    /\ \A q \in Calls : at[q] \in {"persist", "send", "create", "abandon"} => activeQuery = None

\* What disposal has left behind at each of its steps.
DisposalInv ==
    /\ disposal = "idle" => ToSet(queue) \subseteq disposeJoins
    /\ disposal \in {"closeResult", "done"} => queue = << >>
    /\ disposal \notin {"no", "abortSort", "abortExport"} => derivedViews = {}
    /\ disposal = "closeResult" => In(activeQuery) \subseteq disposeJoins
    /\ disposal = "done" => activeQuery = None

IndInv ==
    TypeOK /\ CallsInv /\ LatestInv /\ IngestBars /\ SessionsInv /\ DisposalInv

-----------------------------------------------------------------------------
(* Facts about the queue.                                                      *)

LEMMA CallFacts == None \notin Calls /\ Calls \subseteq Nat /\ \A s \in Slot : In(s) \subseteq Calls
BY DatabaseAssumption DEF Calls, None, Slot, In

LEMMA SetOfSeq ==
    ASSUME NEW s \in Seq(Calls)
    PROVE  \A c : c \in ToSet(s) <=> \E i \in 1..Len(s) : s[i] = c
BY DEF ToSet

LEMMA AppendPlaces ==
    ASSUME NEW s \in Seq(Calls), NEW c \in Calls
    PROVE  /\ Append(s, c) \in Seq(Calls) /\ Len(Append(s, c)) = Len(s) + 1
           /\ \A i \in 1..Len(s) : i \in 1..Len(Append(s, c)) /\ Append(s, c)[i] = s[i]
           /\ \A i \in 1..Len(Append(s, c)) : i \in 1..Len(s) \/ i = Len(s) + 1
           /\ Append(s, c)[Len(s) + 1] = c /\ Len(s) + 1 \in 1..Len(Append(s, c))
OBVIOUS

LEMMA TailPlaces ==
    ASSUME NEW s \in Seq(Calls), s # << >>
    PROVE  /\ Head(s) = s[1] /\ 1 \in 1..Len(s) /\ Tail(s) \in Seq(Calls)
           /\ \A i \in 1..Len(Tail(s)) : i + 1 \in 1..Len(s) /\ Tail(s)[i] = s[i + 1] /\ i + 1 # 1
           /\ \A i \in 1..Len(s) : i # 1 => i - 1 \in 1..Len(Tail(s)) /\ Tail(s)[i - 1] = s[i]
OBVIOUS

\* An operation that has begun is the first of the queue.
LEMMA BegunIsFirst ==
    ASSUME CallsInv, NEW c \in Calls, kind[c] \in Queueing, at[c] \notin {"queued", "done"}
    PROVE  queue # << >> /\ queue[1] = c /\ Head(queue) = c
<1>1. PICK i \in 1..Len(queue) : queue[i] = c
  BY DEF CallsInv, QueueHoldsOperations, Done
<1>2. i = 1 /\ queue \in Seq(Calls)
  BY <1>1 DEF CallsInv, QueueHoldsOperations
<1>3. QED
  BY <1>1, <1>2

LEMMA OneHasBegun ==
    ASSUME CallsInv, NEW c \in Calls, NEW d \in Calls,
           kind[c] \in Queueing, at[c] \notin {"queued", "done"},
           kind[d] \in Queueing, at[d] \notin {"queued", "done"}
    PROVE  c = d
BY BegunIsFirst

\* What the calls and the steps leave alone.
LEMMA NewCall ==
    ASSUME TypeOK, CallsInv, NEW c \in Calls, NEW k \in Kinds, Calling(c, k)
    PROVE  /\ kind[c] = "none" /\ at[c] = "none"
           /\ \A d \in Calls : kind[d] # "none" => d < c
           /\ Called' = 1..Cardinality(Called') /\ \A d \in Called' : d <= c
           /\ kind' = [kind EXCEPT ![c] = k] /\ kind'[c] = k
<1>1. IsFiniteSet(Called) /\ Cardinality(Called) \in Nat
  <2>1. IsFiniteSet(Calls)
    BY DatabaseAssumption, FS_Interval DEF Calls
  <2>2. QED
    BY <2>1, FS_Subset, FS_CardinalityType DEF Called
<1>2. c = Cardinality(Called) + 1 /\ kind' = [kind EXCEPT ![c] = k]
  BY DEF Calling, Called
<1>3. Called = 1..Cardinality(Called)
  BY DEF CallsInv, CallsAreCounted
<1>4. c \notin Called /\ \A d \in Called : d < c
  BY <1>1, <1>2, <1>3
<1>5. Called' = Called \cup {c}
  BY <1>2 DEF Called, Kinds, TypeOK
<1>6. Called' = 1..c
  BY <1>1, <1>2, <1>3, <1>5
<1>7. Cardinality(Called') = c
  BY <1>1, <1>2, <1>6, FS_Interval
<1>8. kind[c] = "none" /\ at[c] = "none" /\ \A d \in Calls : kind[d] # "none" => d < c
  BY <1>4 DEF Called, CallsInv, CallsAreCounted
<1>9. Called' = 1..Cardinality(Called') /\ \A d \in Called' : d <= c
  BY <1>6, <1>7
<1>10. kind'[c] = k
  BY <1>2 DEF TypeOK
<1>11. QED
  BY <1>2, <1>8, <1>9, <1>10

LEMMA CallFrame ==
    ASSUME TypeOK, CallsInv, NEW c \in Calls, Call(c)
    PROVE  /\ \E k \in Kinds : Calling(c, k)
           /\ kind'[c] \in Kinds /\ kind[c] = "none" /\ at[c] = "none"
           /\ \A d \in Calls : kind[d] # "none" => d < c
           /\ \A d \in Calls : d # c => kind'[d] = kind[d] /\ at'[d] = at[d] /\ joins'[d] = joins[d]
           /\ at'[c] = IF kind'[c] \in Queueing THEN "queued" ELSE "abortSort"
           /\ queue' = IF kind'[c] \in Queueing THEN Append(queue, c) ELSE queue
           /\ ~Disposed
           /\ UNCHANGED <<activeQuery, activeIngest, disposeVars, resultVars>>
<1>1. \E k \in Kinds : Calling(c, k)
  BY DEF Call, StartQuery, CreateSortedView, ExportParquet, BeginIngest, CancelQuery, Kinds
<1>2. /\ kind'[c] \in Kinds /\ kind[c] = "none" /\ at[c] = "none"
      /\ \A d \in Calls : kind[d] # "none" => d < c
      /\ \A d \in Calls : d # c => kind'[d] = kind[d]
  BY <1>1, NewCall DEF TypeOK
<1>3. \A d \in Calls : d # c => at'[d] = at[d] /\ joins'[d] = joins[d]
  BY DEF Call, StartQuery, CreateSortedView, ExportParquet, BeginIngest, CancelQuery, Goes, GoesJoining, TypeOK
<1>4. /\ at'[c] = IF kind'[c] \in Queueing THEN "queued" ELSE "abortSort"
      /\ queue' = IF kind'[c] \in Queueing THEN Append(queue, c) ELSE queue
  BY DEF Call, StartQuery, CreateSortedView, ExportParquet, BeginIngest, CancelQuery, Goes, GoesJoining,
     TypeOK, Calling, Queueing
<1>5. ~Disposed /\ UNCHANGED <<activeQuery, activeIngest, disposeVars, resultVars>>
  BY DEF Call, StartQuery, CreateSortedView, ExportParquet, BeginIngest, CancelQuery, slotVars,
     ingestVars
<1>6. QED
  BY <1>1, <1>2, <1>3, <1>4, <1>5

\* A step of the runtime takes one call on, or a session away.
Takes(c) == Steps(c) /\ ~SessionCloses(c)

LEMMA StepFrame ==
    ASSUME TypeOK, NEW c \in Calls, Takes(c)
    PROVE  /\ UNCHANGED <<kind, source, disposeVars>>
           /\ \A d \in Calls : d # c => at'[d] = at[d] /\ joins'[d] = joins[d]
           /\ at[c] \notin {"none", "done"} /\ at'[c] \notin {"none", "queued"}
           /\ queue' = IF Settle(c) THEN Tail(queue) ELSE queue
           /\ Settle(c) => queue # << >> /\ queue[1] = c /\ at'[c] = "done"
           /\ at[c] = "queued" => queue # << >> /\ queue[1] = c
<1>1. UNCHANGED <<kind, source, disposeVars>>
  BY DEF Takes, Steps, OperationRefused, Settle, QueryAdmitted, RetireViews, CloseSession, QueryProceeds,
     QueryOpens, QueryAbandons, QueryNotOpened, Reads, Publishes, Written, AbortsExport, Cancels,
     Cancelled, IngestCancels, IngestWaits, IngestCloses, IngestOpens, IngestRefused
<1>2. \E w \in Places \ {"none", "queued"} : \E S : GoesJoining(c, w, S)
  BY DEF Takes, Steps, OperationRefused, Settle, QueryAdmitted, RetireViews, CloseSession, QueryProceeds,
     QueryOpens, QueryAbandons, QueryNotOpened, Reads, Publishes, Written, AbortsExport, Cancels,
     Cancelled, IngestCancels, IngestWaits, IngestCloses, IngestOpens, IngestRefused, Goes, Resolves,
     Places, NextStep, SessionClosed
<1>3. at[c] \notin {"none", "done"}
  BY DEF Takes, Steps, OperationRefused, Settle, QueryAdmitted, RetireViews, CloseSession, QueryProceeds,
     QueryOpens, QueryAbandons, QueryNotOpened, Reads, Publishes, Written, AbortsExport, Cancels,
     Cancelled, IngestCancels, IngestWaits, IngestCloses, IngestOpens, IngestRefused, SessionClosed,
     ExportSettled
<1>4. queue' = IF Settle(c) THEN Tail(queue) ELSE queue
  BY DEF Takes, Steps, OperationRefused, Settle, QueryAdmitted, RetireViews, CloseSession, QueryProceeds,
     QueryOpens, QueryAbandons, QueryNotOpened, Reads, Publishes, Written, AbortsExport, Cancels,
     Cancelled, IngestCancels, IngestWaits, IngestCloses, IngestOpens, IngestRefused
<1>5. Settle(c) => queue # << >> /\ Head(queue) = c /\ at'[c] = "done"
  BY DEF Settle, Running, Goes, GoesJoining, TypeOK
<1>6. at[c] = "queued" => queue # << >> /\ Head(queue) = c
  BY DEF Takes, Steps, OperationRefused, Settle, QueryAdmitted, RetireViews, CloseSession, QueryProceeds,
     QueryOpens, QueryAbandons, QueryNotOpened, Reads, Publishes, Written, AbortsExport, Cancels,
     Cancelled, IngestCancels, IngestWaits, IngestCloses, IngestOpens, IngestRefused, SessionClosed,
     ExportSettled, Running
<1>7. QED
  BY <1>1, <1>2, <1>3, <1>4, <1>5, <1>6 DEF GoesJoining, TypeOK

-----------------------------------------------------------------------------
(* The calls and the queue, step by step.                                     *)

LEMMA CallKeepsCalls ==
    ASSUME TypeOK, CallsInv, NEW c \in Calls, Call(c)
    PROVE  CallsInv'
<1>1. PICK k \in Kinds : Calling(c, k)
  BY CallFrame
<1>2. CallsAreCounted'
  <2>1. Called' = 1..Cardinality(Called')
    BY <1>1, NewCall
  <2>2. \A d \in Calls : kind'[d] = "none" <=> at'[d] = "none"
    BY CallFrame DEF CallsInv, CallsAreCounted, Kinds
  <2>3. QED
    BY <2>1, <2>2 DEF CallsAreCounted, Called
<1>3. PlacesOfKinds'
  <2>1. \A d \in Calls : d # c => kind'[d] = kind[d] /\ at'[d] = at[d]
    BY CallFrame
  <2>2. at'[c] = (IF kind'[c] \in Queueing THEN "queued" ELSE "abortSort") /\ kind'[c] \in Kinds
    BY CallFrame
  <2>3. QED
    BY <2>1, <2>2 DEF CallsInv, PlacesOfKinds, Queueing, QueuePlaces, Kinds
<1>4. QueueHoldsOperations'
  <2>1. /\ queue \in Seq(Calls)
        /\ \A i \in 1..Len(queue) : queue[i] \in Calls /\ queue[i] # c
                                    /\ kind'[queue[i]] = kind[queue[i]] /\ at'[queue[i]] = at[queue[i]]
    <3>1. queue \in Seq(Calls)
      BY DEF CallsInv, QueueHoldsOperations
    <3>2. \A i \in 1..Len(queue) : queue[i] \in Calls /\ queue[i] # c
      BY <3>1, CallFrame DEF CallsInv, QueueHoldsOperations, Queueing
    <3>3. QED
      BY <3>1, <3>2, CallFrame
  <2>2. CASE kind'[c] \in Queueing
    <3>1. queue' = Append(queue, c) /\ at'[c] = "queued"
      BY <2>2, CallFrame
    <3>2. \A i \in 1..Len(queue') :
             \/ i \in 1..Len(queue) /\ queue'[i] = queue[i]
             \/ i = Len(queue) + 1 /\ queue'[i] = c
      BY <2>1, <3>1, AppendPlaces
    <3>3. queue' \in Seq(Calls) /\ \A i \in 1..Len(queue) : i \in 1..Len(queue') /\ queue'[i] = queue[i]
      BY <2>1, <3>1, AppendPlaces
    <3>4. Len(queue) + 1 \in 1..Len(queue') /\ queue'[Len(queue) + 1] = c
      BY <2>1, <3>1, AppendPlaces
    <3>5. \A i, j \in 1..Len(queue') : queue'[i] = queue'[j] => i = j
      BY <2>1, <3>2 DEF CallsInv, QueueHoldsOperations
    <3>6. \A i \in 1..Len(queue') : /\ kind'[queue'[i]] \in Queueing /\ at'[queue'[i]] # "done"
                                    /\ i # 1 => at'[queue'[i]] = "queued"
      BY <2>1, <2>2, <3>1, <3>2 DEF CallsInv, QueueHoldsOperations, Done
    <3>7. \A d \in Calls : kind'[d] \in Queueing /\ at'[d] # "done" => \E i \in 1..Len(queue') : queue'[i] = d
      <4> SUFFICES ASSUME NEW d \in Calls, kind'[d] \in Queueing, at'[d] # "done"
                   PROVE  \E i \in 1..Len(queue') : queue'[i] = d
        OBVIOUS
      <4>1. CASE d = c
        BY <3>4, <4>1
      <4>2. CASE d # c
        <5>1. kind[d] \in Queueing /\ at[d] # "done"
          BY <4>2, CallFrame
        <5>2. QED
          BY <3>3, <5>1 DEF CallsInv, QueueHoldsOperations, Done
      <4>3. QED
        BY <4>1, <4>2
    <3>8. QED
      BY <3>3, <3>5, <3>6, <3>7 DEF QueueHoldsOperations, Done
  <2>3. CASE kind'[c] \notin Queueing
    <3>1. queue' = queue
      BY <2>3, CallFrame
    <3>2. \A d \in Calls : kind'[d] \in Queueing /\ at'[d] # "done" => kind[d] \in Queueing /\ at[d] # "done"
      BY <2>3, CallFrame
    <3>3. QED
      BY <2>1, <3>1, <3>2 DEF CallsInv, QueueHoldsOperations, Done
  <2>4. QED
    BY <2>2, <2>3
<1>5. QED
  BY <1>2, <1>3, <1>4 DEF CallsInv

LEMMA StepKeepsCalls ==
    ASSUME TypeOK, CallsInv, NEW c \in Calls, Takes(c)
    PROVE  CallsInv'
<1>1. /\ kind' = kind /\ \A d \in Calls : d # c => at'[d] = at[d]
      /\ at[c] \notin {"none", "done"} /\ at'[c] \notin {"none", "queued"}
  BY StepFrame
<1>2. CallsAreCounted'
  BY <1>1 DEF CallsInv, CallsAreCounted, Called
<1>3. PlacesOfKinds'
  <2>1. kind[c] = "query" => at'[c] \in QueuePlaces \cup {"done"}
    BY DEF Takes, Steps, OperationRefused, Settle, QueryAdmitted, RetireViews, CloseSession, QueryProceeds,
     QueryOpens, QueryAbandons, QueryNotOpened, Reads, Publishes, Written, AbortsExport, Cancels,
     Cancelled, IngestCancels, IngestWaits, IngestCloses, IngestOpens, IngestRefused, SessionClosed,
     ExportSettled, Goes, GoesJoining, Resolves, NextStep, TypeOK, CallsInv, PlacesOfKinds, QueuePlaces
  <2>2. kind[c] \in {"sort", "export"} => at'[c] \in {"queued", "writing", "resolved", "done"}
    BY DEF Takes, Steps, OperationRefused, Settle, QueryAdmitted, RetireViews, CloseSession, QueryProceeds,
     QueryOpens, QueryAbandons, QueryNotOpened, Reads, Publishes, Written, AbortsExport, Cancels,
     Cancelled, IngestCancels, IngestWaits, IngestCloses, IngestOpens, IngestRefused, SessionClosed,
     ExportSettled, Goes, GoesJoining, Resolves, NextStep, TypeOK, CallsInv, PlacesOfKinds, QueuePlaces
  <2>3. kind[c] = "cancel" => at'[c] \in {"abortSort", "abortExport", "close", "done"}
    BY DEF Takes, Steps, OperationRefused, Settle, QueryAdmitted, RetireViews, CloseSession, QueryProceeds,
     QueryOpens, QueryAbandons, QueryNotOpened, Reads, Publishes, Written, AbortsExport, Cancels,
     Cancelled, IngestCancels, IngestWaits, IngestCloses, IngestOpens, IngestRefused, SessionClosed,
     ExportSettled, Goes, GoesJoining, Resolves, NextStep, TypeOK, CallsInv, PlacesOfKinds, QueuePlaces
  <2>4. kind[c] = "ingest" => at'[c] \in {"abortSort", "abortExport", "cancelSent", "idle",
                                          "closeExport", "retire", "close", "done"}
    BY DEF Takes, Steps, OperationRefused, Settle, QueryAdmitted, RetireViews, CloseSession, QueryProceeds,
     QueryOpens, QueryAbandons, QueryNotOpened, Reads, Publishes, Written, AbortsExport, Cancels,
     Cancelled, IngestCancels, IngestWaits, IngestCloses, IngestOpens, IngestRefused, SessionClosed,
     ExportSettled, Goes, GoesJoining, Resolves, NextStep, TypeOK, CallsInv, PlacesOfKinds, QueuePlaces
  <2>5. QED
    BY <1>1, <2>1, <2>2, <2>3, <2>4 DEF CallsInv, PlacesOfKinds
<1>4. QueueHoldsOperations'
  <2>1. queue \in Seq(Calls) /\ \A i \in 1..Len(queue) : queue[i] \in Calls
    BY DEF CallsInv, QueueHoldsOperations
  <2>2. CASE Settle(c)
    <3>1. queue # << >> /\ queue[1] = c /\ queue' = Tail(queue) /\ at'[c] = "done"
      BY <2>2, StepFrame
    <3>2. queue' \in Seq(Calls)
      BY <2>1, <3>1, TailPlaces
    <3>3. \A i \in 1..Len(queue') : i + 1 \in 1..Len(queue) /\ queue'[i] = queue[i + 1] /\ i + 1 # 1
      BY <2>1, <3>1, TailPlaces
    <3>4. \A i \in 1..Len(queue') : queue[i + 1] # c /\ at[queue[i + 1]] = "queued"
                                    /\ kind[queue[i + 1]] \in Queueing
      BY <2>1, <3>1, <3>3 DEF CallsInv, QueueHoldsOperations
    <3>5. \A i \in 1..Len(queue') : at'[queue'[i]] = "queued" /\ kind'[queue'[i]] \in Queueing
      BY SMTT(30), <1>1, <2>1, <3>3, <3>4
    <3>6. \A i, j \in 1..Len(queue') : queue'[i] = queue'[j] => i = j
      <4>1. \A i, j \in 1..Len(queue') : queue'[i] = queue'[j] => i + 1 = j + 1
        BY <3>3 DEF CallsInv, QueueHoldsOperations
      <4>2. QED
        BY <3>2, <4>1
    <3>7. \A d \in Calls : kind'[d] \in Queueing /\ at'[d] # "done" => \E i \in 1..Len(queue') : queue'[i] = d
      <4> SUFFICES ASSUME NEW d \in Calls, kind'[d] \in Queueing, at'[d] # "done"
                   PROVE  \E i \in 1..Len(queue') : queue'[i] = d
        OBVIOUS
      <4>1. d # c /\ kind[d] \in Queueing /\ at[d] # "done"
        BY <1>1, <3>1
      <4>2. PICK i \in 1..Len(queue) : queue[i] = d
        BY <4>1 DEF CallsInv, QueueHoldsOperations, Done
      <4>3. i # 1
        BY <3>1, <4>1, <4>2
      <4>4. i - 1 \in 1..Len(queue') /\ queue'[i - 1] = d
        BY <2>1, <3>1, <4>2, <4>3, TailPlaces
      <4>5. QED
        BY <4>4
    <3>8. QED
      BY <3>2, <3>5, <3>6, <3>7 DEF QueueHoldsOperations, Done
  <2>3. CASE ~Settle(c)
    <3>1. queue' = queue
      BY <2>3, StepFrame
    <3>2. kind[c] \in Queueing => at'[c] # "done"
      BY <2>3 DEF Takes, Steps, OperationRefused, QueryAdmitted, RetireViews, CloseSession, QueryProceeds,
       QueryOpens, QueryAbandons, QueryNotOpened, Reads, Publishes, Written, AbortsExport, Cancels,
       Cancelled, IngestCancels, IngestWaits, IngestCloses, IngestOpens, IngestRefused,
       Goes, GoesJoining, Resolves, NextStep, TypeOK, Queueing, SessionClosed
    <3>3. \A i \in 1..Len(queue) : queue[i] = c => i = 1
      <4>1. CASE at[c] = "queued"
        <5>1. queue # << >> /\ queue[1] = c /\ 1 \in 1..Len(queue)
          BY <2>1, <4>1, StepFrame
        <5>2. QED
          BY <5>1 DEF CallsInv, QueueHoldsOperations
      <4>2. CASE at[c] # "queued"
        BY <4>2 DEF CallsInv, QueueHoldsOperations
      <4>3. QED
        BY <4>1, <4>2
    <3>4. \A i \in 1..Len(queue) :
             /\ kind'[queue[i]] \in Queueing /\ at'[queue[i]] # "done"
             /\ i # 1 => at'[queue[i]] = "queued"
      BY <1>1, <2>1, <3>2, <3>3 DEF CallsInv, QueueHoldsOperations, Done
    <3>5. \A d \in Calls : kind'[d] \in Queueing /\ at'[d] # "done" => \E i \in 1..Len(queue) : queue[i] = d
      BY <1>1 DEF CallsInv, QueueHoldsOperations, Done
    <3>6. QED
      BY <2>1, <3>1, <3>4, <3>5 DEF QueueHoldsOperations, Done, CallsInv
  <2>4. QED
    BY <2>2, <2>3
<1>5. QED
  BY <1>2, <1>3, <1>4 DEF CallsInv

\* The other steps move no call.
LEMMA RestKeepsCalls ==
    ASSUME CallsInv, UNCHANGED <<kind, at, queue>>
    PROVE  CallsInv'
BY DEF CallsInv, CallsAreCounted, Called, PlacesOfKinds, QueueHoldsOperations, Done

-----------------------------------------------------------------------------
(* The type of the state.                                                     *)

\* The type but for the queue, whose part CallsInv gives.
CallsTyped == /\ kind \in [Calls -> Kinds \cup {"none"}] /\ at \in [Calls -> Places]
              /\ joins \in [Calls -> SUBSET Calls] /\ source \in [Calls -> Slot]
SlotsTyped == {pendingQuery, activeQuery, sortSlot, exportSlot, activeIngest} \subseteq Slot
SetsTyped == /\ cancelRequested \subseteq Calls /\ aborted \subseteq Calls /\ derivedViews \subseteq Calls
             /\ ingestStarting \in BOOLEAN
DisposalTyped == /\ disposal \in {"no", "abortSort", "abortExport", "cancel", "close", "idle",
                                  "closeResult", "done"}
                 /\ disposeJoins \subseteq Calls
SessionsTyped == /\ session \in [Calls -> {"none", "open", "closing"}]
                 /\ complete \subseteq {q \in Calls : session[q] # "none"}

LEMMA TypeParts ==
    CallsInv => (TypeOK <=> CallsTyped /\ SlotsTyped /\ SetsTyped /\ DisposalTyped /\ SessionsTyped)
<1> SUFFICES ASSUME CallsInv
             PROVE  TypeOK <=> CallsTyped /\ SlotsTyped /\ SetsTyped /\ DisposalTyped /\ SessionsTyped
  OBVIOUS
<1>1. queue \in Seq(Calls)
  BY DEF CallsInv, QueueHoldsOperations
<1>2. \A i \in 1..Len(queue) : queue[i] \in {c \in Calls : at[c] \notin {"none", "done"}}
  <2>1. \A i \in 1..Len(queue) : queue[i] \in Calls /\ kind[queue[i]] \in Queueing /\ at[queue[i]] # "done"
    BY <1>1 DEF CallsInv, QueueHoldsOperations, Done
  <2>2. QED
    BY <2>1 DEF CallsInv, CallsAreCounted, Queueing
<1>3. ToSet(queue) \subseteq {c \in Calls : at[c] \notin {"none", "done"}}
  BY <1>1, <1>2, SetOfSeq
<1>4. QED
  BY <1>3 DEF TypeOK, CallsTyped, SlotsTyped, SetsTyped, DisposalTyped, SessionsTyped

LEMMA TypePartsNext ==
    ASSUME CallsInv', CallsTyped', SlotsTyped', SetsTyped', DisposalTyped', SessionsTyped'
    PROVE  TypeOK'
<1>1. (CallsInv => (TypeOK <=> CallsTyped /\ SlotsTyped /\ SetsTyped /\ DisposalTyped /\ SessionsTyped))'
  BY TypeParts, PTL
<1>2. QED
  BY <1>1

\* Sets of calls that a coroutine joins, and sessions it closes.
LEMMA JoinTypes ==
    ASSUME TypeOK
    PROVE  /\ In(pendingQuery) \subseteq Calls /\ In(activeQuery) \subseteq Calls
           /\ In(sortSlot) \subseteq Calls /\ In(exportSlot) \subseteq Calls
           /\ \A c \in Calls : joins[c] \subseteq Calls
           /\ \A S \in SUBSET Calls : Closing(S) \in [Calls -> {"none", "open", "closing"}]
           /\ \A S \in SUBSET Calls, q \in Calls : Closing(S)[q] = "none" <=> session[q] = "none"
<1>1. \A s \in Slot : In(s) \subseteq Calls
  BY CallFacts
<1>2. \A S \in SUBSET Calls : Closing(S) \in [Calls -> {"none", "open", "closing"}]
  BY DEF Closing, TypeOK
<1>3. \A S \in SUBSET Calls, q \in Calls : Closing(S)[q] = "none" <=> session[q] = "none"
  BY DEF Closing, TypeOK
<1>4. QED
  BY <1>1, <1>2, <1>3 DEF TypeOK

LEMMA GoesType ==
    ASSUME TypeOK, NEW c \in Calls, NEW w \in Places, NEW S \in SUBSET Calls, GoesJoining(c, w, S),
           UNCHANGED <<kind, source>>
    PROVE  CallsTyped'
BY DEF GoesJoining, CallsTyped, TypeOK

LEMMA CallType ==
    ASSUME TypeOK, CallsInv, NEW c \in Calls, Call(c)
    PROVE  TypeOK'
<1> USE DEF TypeOK
<1>1. CallsInv'
  BY CallKeepsCalls
<1>2. CallsTyped'
  <2>1. kind' \in [Calls -> Kinds \cup {"none"}]
    BY DEF Call, StartQuery, CreateSortedView, ExportParquet, BeginIngest, CancelQuery, Calling, Kinds
  <2>2. at' \in [Calls -> Places] /\ joins' \in [Calls -> SUBSET Calls]
    <3>1. \E w \in Places, S \in SUBSET Calls : GoesJoining(c, w, S)
      BY JoinTypes DEF Call, StartQuery, CreateSortedView, ExportParquet, BeginIngest, CancelQuery, Goes, Places
    <3>2. QED
      BY <3>1 DEF GoesJoining
  <2>3. source' \in [Calls -> Slot]
    BY DEF Call, StartQuery, CreateSortedView, ExportParquet, BeginIngest, CancelQuery, Slot
  <2>4. QED
    BY <2>1, <2>2, <2>3 DEF CallsTyped
<1>3. SlotsTyped'
  BY DEF Call, StartQuery, CreateSortedView, ExportParquet, BeginIngest, CancelQuery, Slot, SlotsTyped,
     slotVars, ingestVars
<1>4. SetsTyped'
  BY JoinTypes DEF Call, StartQuery, CreateSortedView, ExportParquet, BeginIngest, CancelQuery, SetsTyped,
     Abort, CancelPending, tokenVars, ingestVars, resultVars
<1>5. DisposalTyped' /\ SessionsTyped'
  BY CallFrame DEF DisposalTyped, SessionsTyped, disposeVars, resultVars
<1>6. QED
  BY <1>1, <1>2, <1>3, <1>4, <1>5, TypePartsNext

LEMMA StepType ==
    ASSUME TypeOK, CallsInv, NEW c \in Calls, Takes(c)
    PROVE  TypeOK'
<1>1. CallsInv' /\ UNCHANGED <<kind, source, disposeVars>>
  BY StepKeepsCalls, StepFrame
<1>2. queue \in Seq(Calls) /\ ToSet(queue) \subseteq Calls
  <2>1. queue \in Seq(Calls)
    BY DEF CallsInv, QueueHoldsOperations
  <2>2. QED
    BY <2>1, SetOfSeq
<1>3. CallsTyped'
  <2>1. \E w \in Places, S \in SUBSET Calls : GoesJoining(c, w, S)
    BY <1>2, JoinTypes DEF Takes, Steps, OperationRefused, Settle, QueryAdmitted, RetireViews, CloseSession,
     QueryProceeds, QueryOpens, QueryAbandons, QueryNotOpened, Reads, Publishes, Written, AbortsExport,
     Cancels, Cancelled, IngestCancels, IngestWaits, IngestCloses, IngestOpens, IngestRefused, Goes,
     Resolves, Places, NextStep, SessionClosed
  <2>2. QED
    BY <1>1, <2>1, GoesType
<1>4. SlotsTyped'
  BY DEF Takes, Steps, OperationRefused, Settle, QueryAdmitted, RetireViews, CloseSession, QueryProceeds,
     QueryOpens, QueryAbandons, QueryNotOpened, Reads, Publishes, Written, AbortsExport, Cancels,
     Cancelled, IngestCancels, IngestWaits, IngestCloses, IngestOpens, IngestRefused, TypeOK, SlotsTyped,
     slotVars, ingestVars, AfterQuery, Slot
<1>5. SetsTyped'
  BY JoinTypes DEF Takes, Steps, OperationRefused, Settle, QueryAdmitted, RetireViews, CloseSession, QueryProceeds,
     QueryOpens, QueryAbandons, QueryNotOpened, Reads, Publishes, Written, AbortsExport, Cancels,
     Cancelled, IngestCancels, IngestWaits, IngestCloses, IngestOpens, IngestRefused, TypeOK, SetsTyped,
     tokenVars, ingestVars, resultVars, Abort, CancelPending
<1>6. DisposalTyped'
  BY <1>1 DEF TypeOK, DisposalTyped, disposeVars
<1>7. SessionsTyped'
  <2>1. complete' = complete
    BY DEF Takes, Steps, OperationRefused, Settle, QueryAdmitted, RetireViews, CloseSession, QueryProceeds,
     QueryOpens, QueryAbandons, QueryNotOpened, Reads, Publishes, Written, AbortsExport, Cancels,
     Cancelled, IngestCancels, IngestWaits, IngestCloses, IngestOpens, IngestRefused, resultVars
  <2>2. \/ session' = session
        \/ \E S \in SUBSET Calls : session' = Closing(S)
        \/ \E s \in {"open", "closing"} : session' = [session EXCEPT ![c] = s]
    BY JoinTypes DEF Takes, Steps, OperationRefused, Settle, QueryAdmitted, RetireViews, CloseSession, QueryProceeds,
     QueryOpens, QueryAbandons, QueryNotOpened, Reads, Publishes, Written, AbortsExport, Cancels,
     Cancelled, IngestCancels, IngestWaits, IngestCloses, IngestOpens, IngestRefused, resultVars
  <2>3. /\ session' \in [Calls -> {"none", "open", "closing"}]
        /\ \A q \in Calls : session[q] # "none" => session'[q] # "none"
    BY <2>2, JoinTypes DEF TypeOK
  <2>4. QED
    BY <2>1, <2>3 DEF TypeOK, SessionsTyped
<1>8. QED
  BY <1>1, <1>3, <1>4, <1>5, <1>6, <1>7, TypePartsNext

\* What the owners of a result, the sessions and disposal do by themselves: they move
\* no call.
Others == \/ \E c \in Calls : AbortCall(c) \/ CloseResult(c) \/ SessionCompletes(c) \/ SessionCloses(c)
          \/ IngestSettles \/ Dispose \/ DisposeSteps

LEMMA OthersFrame == ASSUME Others PROVE UNCHANGED <<callVars, queue, pendingQuery, sortSlot, exportSlot, ingestStarting>>
BY DEF Others, AbortCall, CloseResult, SessionCompletes, SessionCloses, IngestSettles, Dispose, DisposeSteps,
   DisposeAbortsExport, DisposeRetires, DisposeCancels, DisposeWaitsIdle, DisposeClosesResult, DisposeEnds,
   callVars, slotVars, ingestVars

LEMMA OthersType ==
    ASSUME TypeOK, CallsInv, Others
    PROVE  TypeOK' /\ CallsInv'
<1>1. CallsInv' /\ CallsTyped'
  BY OthersFrame, RestKeepsCalls DEF callVars, CallsTyped, TypeOK
<1>2. queue \in Seq(Calls) /\ ToSet(queue) \subseteq Calls
  <2>1. queue \in Seq(Calls)
    BY DEF CallsInv, QueueHoldsOperations
  <2>2. QED
    BY <2>1, SetOfSeq
<1>3. SlotsTyped'
  <2>1. activeQuery' \in {activeQuery, None} /\ activeIngest' \in {activeIngest, None}
    BY DEF Others, AbortCall, CloseResult, SessionCompletes, SessionCloses, IngestSettles, Dispose, DisposeSteps,
     DisposeAbortsExport, DisposeRetires, DisposeCancels, DisposeWaitsIdle, DisposeClosesResult, DisposeEnds,
     slotVars, ingestVars
  <2>2. QED
    BY <2>1, OthersFrame DEF SlotsTyped, TypeOK, Slot
<1>4. SetsTyped'
  BY JoinTypes
  DEF Others, AbortCall, CloseResult, SessionCompletes, SessionCloses, IngestSettles, Dispose, DisposeSteps,
   DisposeAbortsExport, DisposeRetires, DisposeCancels, DisposeWaitsIdle, DisposeClosesResult, DisposeEnds,
   tokenVars, ingestVars, resultVars, SetsTyped, TypeOK, Abort, CancelPending
<1>5. DisposalTyped'
  BY <1>2, JoinTypes
  DEF Others, AbortCall, CloseResult, SessionCompletes, SessionCloses, IngestSettles, Dispose, DisposeSteps,
   DisposeAbortsExport, DisposeRetires, DisposeCancels, DisposeWaitsIdle, DisposeClosesResult, DisposeEnds,
   disposeVars, DisposalTyped, TypeOK, DisposeWaits
<1>6. SessionsTyped'
  <2>1. ASSUME NEW q \in Calls, SessionCloses(q) \/ SessionCompletes(q) PROVE SessionsTyped'
    BY <2>1 DEF SessionCloses, SessionCompletes, TypeOK, SessionsTyped
  <2>2. ASSUME session' = session \/ \E S \in SUBSET Calls : session' = Closing(S), complete' = complete
        PROVE SessionsTyped'
    BY <2>2, JoinTypes DEF TypeOK, SessionsTyped
  <2>3. QED
    BY <2>1, <2>2, JoinTypes
    DEF Others, AbortCall, CloseResult, IngestSettles, Dispose, DisposeSteps,
     DisposeAbortsExport, DisposeRetires, DisposeCancels, DisposeWaitsIdle, DisposeClosesResult, DisposeEnds,
     resultVars
<1>7. QED
  BY <1>1, <1>3, <1>4, <1>5, <1>6, TypePartsNext

\* Every step is one of these.
LEMMA NextSplits ==
    Next => Others \/ \E c \in Calls : Call(c) \/ Takes(c)
BY DEF Next, Others, Takes

LEMMA TypeStep == TypeOK /\ CallsInv /\ [Next]_vars => TypeOK' /\ CallsInv'
<1> SUFFICES ASSUME TypeOK, CallsInv, [Next]_vars PROVE TypeOK' /\ CallsInv'
  OBVIOUS
<1>1. CASE UNCHANGED vars
  <2>1. CallsInv'
    BY <1>1, RestKeepsCalls DEF vars, callVars
  <2>2. TypeOK'
    BY <1>1 DEF vars, callVars, slotVars, tokenVars, ingestVars, disposeVars, resultVars, TypeOK
  <2>3. QED
    BY <2>1, <2>2
<1>2. CASE Next
  BY <1>2, NextSplits, CallKeepsCalls, CallType, StepKeepsCalls, StepType, OthersType
<1>3. QED
  BY <1>1, <1>2

LEMMA TypeInit == Init => TypeOK /\ CallsInv
<1> SUFFICES ASSUME Init PROVE TypeOK /\ CallsInv
  OBVIOUS
<1>1. CallsInv
  <2>1. Called = {}
    BY DEF Init, Called
  <2>2. Called = 1..Cardinality(Called)
    BY <2>1, FS_EmptySet
  <2>3. QED
    BY <2>2 DEF Init, CallsInv, CallsAreCounted, PlacesOfKinds, QueueHoldsOperations, Queueing
<1>2. CallsTyped /\ SlotsTyped /\ SetsTyped /\ DisposalTyped /\ SessionsTyped
  BY DEF Init, CallsTyped, SlotsTyped, SetsTyped, DisposalTyped, SessionsTyped, Slot, Places
<1>3. QED
  BY <1>1, <1>2, TypeParts

-----------------------------------------------------------------------------
(* Only the latest query opens.                                               *)

LEMMA CallKeepsLatest ==
    ASSUME TypeOK, CallsInv, LatestInv, NEW c \in Calls, Call(c)
    PROVE  LatestInv'
<1>1. /\ kind'[c] \in Kinds /\ kind[c] = "none" /\ at[c] = "none"
      /\ \A d \in Calls : kind[d] # "none" => d < c
      /\ \A d \in Calls : d # c => kind'[d] = kind[d] /\ at'[d] = at[d]
      /\ at'[c] = IF kind'[c] \in Queueing THEN "queued" ELSE "abortSort"
  BY CallFrame
<1>2. \A d \in Calls : d # c => (Unsettled(d)' <=> Unsettled(d)) /\ (Stops(d)' <=> Stops(d))
  BY <1>1 DEF Unsettled, Stops, Done
<1>3. \A d \in Calls : Unsettled(d) \/ Stops(d) => d < c /\ ~(c < d)
  BY <1>1, CallFacts DEF Unsettled, Stops
<1>4. CASE kind'[c] = "query"
  <2>1. StartQuery(c)
    BY <1>1, <1>4 DEF Call, StartQuery, CreateSortedView, ExportParquet, BeginIngest, CancelQuery, Calling, TypeOK
  <2>2. pendingQuery' = c /\ cancelRequested' = cancelRequested \cup In(pendingQuery)
    BY <2>1 DEF StartQuery, CancelPending
  <2>3. \A q \in Calls : Unsettled(q) => q \in cancelRequested'
    BY <2>2, CallFacts DEF LatestInv, In
  <2>4. \A q, d \in Calls : Unsettled(q)' /\ q < d /\ Stops(d)' => Unsettled(q)
    BY <1>2, <1>3, CallFacts
  <2>5. QED
    BY <1>2, <2>2, <2>3, <2>4 DEF LatestInv
<1>5. CASE kind'[c] # "query"
  <2>1. ~StartQuery(c)
    BY <1>5 DEF StartQuery, Calling, TypeOK
  <2>2. UNCHANGED <<pendingQuery, cancelRequested>>
    BY <2>1 DEF Call, CreateSortedView, ExportParquet, BeginIngest, CancelQuery, slotVars, tokenVars
  <2>3. ~Unsettled(c)' /\ ~Stops(c)'
    BY <1>1, <1>5 DEF Unsettled, Stops, Queueing, Kinds
  <2>4. QED
    BY <1>2, <2>2, <2>3 DEF LatestInv
<1>6. QED
  BY <1>4, <1>5

LEMMA StepKeepsLatest ==
    ASSUME TypeOK, CallsInv, LatestInv, NEW c \in Calls, Takes(c)
    PROVE  LatestInv'
<1>1. /\ kind' = kind /\ \A d \in Calls : d # c => at'[d] = at[d]
      /\ at[c] \notin {"none", "done"} /\ at'[c] \notin {"none", "queued"}
      /\ queue' = IF Settle(c) THEN Tail(queue) ELSE queue
      /\ Settle(c) => at'[c] = "done"
  BY StepFrame
<1>2. \A d \in Calls : Unsettled(d)' => Unsettled(d)
  BY <1>1 DEF Unsettled, Done
<1>3. \A d \in Calls : d # c => (Stops(d)' <=> Stops(d))
  BY <1>1 DEF Stops
<1>4. CASE Settle(c)
  <2>1. pendingQuery' = AfterQuery(c) /\ cancelRequested' = cancelRequested \ {c}
    BY <1>4 DEF Settle
  <2>2. at'[c] = "done" /\ (Stops(c)' => Stops(c))
    BY <1>1, <1>4 DEF Stops, Settle
  <2>3. ~Unsettled(c)'
    BY <2>2 DEF Unsettled, Done
  <2>4. QED
    BY <1>2, <1>3, <2>1, <2>2, <2>3 DEF LatestInv, AfterQuery
<1>5. CASE Cancels(c) \/ IngestCancels(c)
  <2>1. pendingQuery' = pendingQuery /\ cancelRequested' = cancelRequested \cup In(pendingQuery)
    BY <1>5 DEF Cancels, IngestCancels, CancelPending, slotVars
  <2>2. \A q \in Calls : Unsettled(q) => q \in cancelRequested'
    BY <2>1, CallFacts DEF LatestInv, In
  <2>3. QED
    BY <1>2, <2>1, <2>2 DEF LatestInv
<1>6. CASE IngestWaits(c) /\ at[c] # "cancelSent"
  <2>1. pendingQuery = None /\ UNCHANGED <<pendingQuery, cancelRequested>>
    BY <1>6 DEF IngestWaits, slotVars, tokenVars
  <2>2. \A q \in Calls : Unsettled(q) => q \in cancelRequested'
    BY <2>1, CallFacts DEF LatestInv
  <2>3. QED
    BY <1>2, <2>1, <2>2 DEF LatestInv
<1>7. CASE ~Settle(c) /\ ~Cancels(c) /\ ~IngestCancels(c) /\ ~(IngestWaits(c) /\ at[c] # "cancelSent")
  <2>1. UNCHANGED <<pendingQuery, cancelRequested>>
    BY <1>7 DEF Takes, Steps, OperationRefused, QueryAdmitted, RetireViews, CloseSession, QueryProceeds,
     QueryOpens, QueryAbandons, QueryNotOpened, Reads, Publishes, Written, AbortsExport,
     Cancelled, IngestWaits, IngestCloses, IngestOpens, IngestRefused, slotVars, tokenVars
  <2>2. Stops(c)' => Stops(c)
    BY <1>1, <1>7 DEF Takes, Steps, OperationRefused, QueryAdmitted, RetireViews, CloseSession, QueryProceeds,
     QueryOpens, QueryAbandons, QueryNotOpened, Reads, Publishes, Written, AbortsExport,
     Cancelled, IngestWaits, IngestCloses, IngestOpens, IngestRefused, Stops, Goes, GoesJoining, TypeOK,
     SessionClosed
  <2>3. QED
    BY <1>2, <1>3, <2>1, <2>2 DEF LatestInv
<1>8. QED
  BY <1>4, <1>5, <1>6, <1>7

LEMMA OthersKeepLatest ==
    ASSUME TypeOK, LatestInv, Others
    PROVE  LatestInv'
<1>1. UNCHANGED <<kind, at, pendingQuery>>
  BY OthersFrame DEF callVars
<1>2. cancelRequested \subseteq cancelRequested'
  BY DEF Others, AbortCall, CloseResult, SessionCompletes, SessionCloses, IngestSettles, Dispose, DisposeSteps,
   DisposeAbortsExport, DisposeRetires, DisposeCancels, DisposeWaitsIdle, DisposeClosesResult, DisposeEnds,
   tokenVars, CancelPending
<1>3. QED
  BY <1>1, <1>2 DEF LatestInv, Unsettled, Stops, Done

LEMMA LatestStep == TypeOK /\ CallsInv /\ LatestInv /\ [Next]_vars => LatestInv'
<1> SUFFICES ASSUME TypeOK, CallsInv, LatestInv, [Next]_vars PROVE LatestInv'
  OBVIOUS
<1>1. CASE UNCHANGED vars
  BY <1>1 DEF vars, callVars, slotVars, tokenVars, LatestInv, Unsettled, Stops, Done
<1>2. CASE Next
  BY <1>2, NextSplits, CallKeepsLatest, StepKeepsLatest, OthersKeepLatest
<1>3. QED
  BY <1>1, <1>2

\* The query that becomes the current result is neither cancelled nor followed by a call
\* that stops it.
LEMMA OpensLatest ==
    ASSUME TypeOK, CallsInv, LatestInv, [Next]_vars,
           NEW q \in Calls, activeQuery' = q, activeQuery # q
    PROVE  \A c \in Calls : c > q => /\ kind[c] # "query"
                                     /\ kind[c] \in {"cancel", "ingest"} => ~Done(c)
<1>1. QueryOpens(q)
  BY ZenonT(60), CallFacts
  DEF Next, Call, StartQuery, CreateSortedView, ExportParquet, BeginIngest, CancelQuery,
     Steps, OperationRefused, Settle, QueryAdmitted, RetireViews, CloseSession, QueryProceeds,
     QueryOpens, QueryAbandons, QueryNotOpened, Reads, Publishes, Written, AbortsExport, Cancels,
     Cancelled, IngestCancels, IngestWaits, IngestCloses, IngestOpens, IngestRefused,
     AbortCall, CloseResult, SessionCompletes, SessionCloses, IngestSettles, Dispose, DisposeSteps,
     DisposeAbortsExport, DisposeRetires, DisposeCancels, DisposeWaitsIdle, DisposeClosesResult, DisposeEnds,
     slotVars, vars
<1>2. Unsettled(q) /\ q \notin cancelRequested
  BY <1>1 DEF QueryOpens, Unsettled, Done
<1>3. ASSUME NEW c \in Calls, c > q PROVE ~Stops(c)
  <2>1. q < c
    BY <1>3, CallFacts
  <2>2. QED
    BY <1>2, <2>1 DEF LatestInv
<1>4. QED
  BY <1>3 DEF Stops, Done

-----------------------------------------------------------------------------
(* The connection has one owner.                                              *)

OwnerInv == IngestBars /\ SessionsInv

\* A new call owns nothing, and an ingest that begins is the only one.
LEMMA CallKeepsOwner ==
    ASSUME TypeOK, CallsInv, OwnerInv, NEW c \in Calls, Call(c)
    PROVE  OwnerInv'
<1>1. /\ kind'[c] \in Kinds /\ kind[c] = "none" /\ at[c] = "none"
      /\ \A d \in Calls : d # c => kind'[d] = kind[d] /\ at'[d] = at[d] /\ joins'[d] = joins[d]
      /\ at'[c] = IF kind'[c] \in Queueing THEN "queued" ELSE "abortSort"
      /\ UNCHANGED <<activeQuery, activeIngest, session>>
  BY CallFrame DEF resultVars
<1>2. at'[c] \in {"queued", "abortSort"}
  BY <1>1
<1>3. ~Admitted(c)' /\ \A d \in Calls : d # c => (Admitted(d)' <=> Admitted(d)) /\ (Ingesting(d)' <=> Ingesting(d))
  BY <1>1, <1>2 DEF Admitted, Underway, Ingesting, Done
<1>4. kind'[c] = "ingest" => ~ingestStarting /\ activeIngest = None
  BY <1>1 DEF Call, StartQuery, CreateSortedView, ExportParquet, BeginIngest, CancelQuery, Calling, TypeOK
<1>5. ingestStarting' = (ingestStarting \/ kind'[c] = "ingest")
  BY <1>1 DEF Call, StartQuery, CreateSortedView, ExportParquet, BeginIngest, CancelQuery, Calling, TypeOK, ingestVars
<1>6. Ingesting(c)' => kind'[c] = "ingest"
  BY DEF Ingesting
<1>7. IngestBars'
  <2>1. \A d \in Calls : Ingesting(d)' => ingestStarting'
    BY <1>3, <1>5, <1>6 DEF OwnerInv, IngestBars
  <2>2. \A d, e \in Calls : Ingesting(d)' /\ Ingesting(e)' => d = e
    BY <1>3, <1>4, <1>6 DEF OwnerInv, IngestBars
  <2>3. \A d, q \in Calls : Ingesting(d)' /\ Admitted(q)' =>
           /\ at'[d] = "idle" => q \in joins'[d]
           /\ at'[d] \notin {"closeExport", "retire", "close"}
    BY <1>1, <1>2, <1>3 DEF OwnerInv, IngestBars
  <2>4. activeIngest' # None => activeQuery' = None /\ \A q \in Calls : ~Admitted(q)'
    BY <1>1, <1>3 DEF OwnerInv, IngestBars
  <2>5. QED
    BY <2>1, <2>2, <2>3, <2>4 DEF IngestBars
<1>8. SessionsInv'
  BY <1>1, <1>2 DEF OwnerInv, SessionsInv, In
<1>9. QED
  BY <1>7, <1>8 DEF OwnerInv

\* The sessions: whoever has seen the current one closed finds none.
LEMMA NoSessionLeft ==
    ASSUME TypeOK, CallsInv, OwnerInv, NEW c \in Calls, kind[c] \in {"query", "ingest"}, SessionClosed(c)
    PROVE  activeQuery = None
<1>1. In(activeQuery) \subseteq joins[c] /\ AllClosed(joins[c])
  BY DEF SessionClosed, OwnerInv, SessionsInv
<1>2. activeQuery # None => activeQuery \in joins[c]
  BY <1>1 DEF In
<1>3. QED
  BY <1>1, <1>2 DEF AllClosed, OwnerInv, SessionsInv

\* The operation of a query that opens finds no other ingest or session.
LEMMA StepKeepsSessions ==
    ASSUME TypeOK, CallsInv, OwnerInv, NEW c \in Calls, Takes(c)
    PROVE  SessionsInv'
<1>1. /\ kind' = kind /\ \A d \in Calls : d # c => at'[d] = at[d] /\ joins'[d] = joins[d]
      /\ at[c] \notin {"none", "done"} /\ at'[c] \notin {"none", "queued"}
  BY StepFrame
<1>2. \A d \in Calls : kind[d] = "query" /\ at[d] \notin {"queued", "done"} /\ kind[c] = "query"
                       /\ at[c] \notin {"queued", "done"} => d = c
  BY OneHasBegun DEF Queueing
<1>3. CASE QueryOpens(c)
  <2>1. /\ kind[c] = "query" /\ at[c] = "create" /\ activeQuery = None /\ activeQuery' = c
        /\ at'[c] = "resolved" /\ session' = [session EXCEPT ![c] = "open"]
    BY <1>3 DEF QueryOpens, Resolves, Goes, GoesJoining, OwnerInv, SessionsInv, TypeOK
  <2>2. \A d \in Calls : kind[d] = "query" /\ at'[d] \notin {"queued", "done"} => d = c
    BY <1>1, <1>2, <2>1
  <2>3. Admitted(c) /\ \A d \in Calls : kind[d] = "ingest" => at[d] \notin {"closeExport", "retire", "close"}
    BY <2>1 DEF Admitted, Underway, OwnerInv, IngestBars, Ingesting, Done
  <2>4. \A d \in Calls : at'[d] \in {"persist", "send", "create", "abandon"} => kind[d] = "query"
    BY <1>1, <2>1 DEF CallsInv, CallsAreCounted, PlacesOfKinds, TypeOK, Kinds
  <2>5. \A s \in Calls : session'[s] # "none" => s = c
    BY <1>2, <2>1, CallFacts DEF OwnerInv, SessionsInv, TypeOK
  <2>6. \A d \in Calls : ~(at'[d] \in {"persist", "send", "create", "abandon"})
    BY <2>1, <2>2, <2>4
  <2>7. \A d \in Calls : kind[d] \in {"query", "ingest"} => at'[d] \notin {"retire", "close"}
    BY <1>1, <2>1, <2>2, <2>3
  <2>8. session'[c] # "none"
    BY <2>1 DEF TypeOK
  <2>9. QED
    BY <1>1, <2>1, <2>5, <2>6, <2>7, <2>8 DEF SessionsInv
<1>4. CASE QueryAbandons(c)
  <2>1. /\ kind[c] = "query" /\ activeQuery = None /\ activeQuery' = activeQuery /\ at'[c] = "abandon"
        /\ session' = [session EXCEPT ![c] = "closing"]
    BY <1>4 DEF QueryAbandons, GoesJoining, OwnerInv, SessionsInv, TypeOK, slotVars
  <2>2. QED
    BY <1>1, <2>1 DEF OwnerInv, SessionsInv, In, TypeOK
<1>5. CASE UNCHANGED <<activeQuery, session>> \/ (activeQuery' = activeQuery /\ \E S \in SUBSET Calls : session' = Closing(S))
  <2>1. activeQuery' = activeQuery /\ \A q \in Calls : session'[q] = "none" <=> session[q] = "none"
    BY <1>5, JoinTypes
  <2>2. \A s \in Calls : kind[s] = "query" /\ at[s] = "abandon" /\ session[s] # "none" => at'[s] = "abandon"
    <3>1. at[c] = "abandon" /\ kind[c] = "query" => session[c] = "none"
      BY DEF Takes, Steps, OperationRefused, Settle, QueryAdmitted, RetireViews, CloseSession,
       QueryProceeds, QueryOpens, QueryAbandons, QueryNotOpened, Reads, Publishes, Written, AbortsExport,
       Cancels, Cancelled, IngestCancels, IngestWaits, IngestCloses, IngestOpens, IngestRefused,
       SessionClosed, ExportSettled
    <3>2. QED
      BY <1>1, <3>1
  <2>3. kind[c] \in {"query", "ingest"} /\ at'[c] \in {"retire", "close"} => In(activeQuery) \subseteq joins'[c]
    <3>1. CASE RetireViews(c)
      BY <3>1 DEF RetireViews, GoesJoining, TypeOK
    <3>2. CASE CloseSession(c)
      BY <3>2 DEF CloseSession, GoesJoining, TypeOK, OwnerInv, SessionsInv
    <3>3. CASE ~RetireViews(c) /\ ~CloseSession(c)
      BY <3>3 DEF Takes, Steps, OperationRefused, Settle, QueryAdmitted,
       QueryProceeds, QueryOpens, QueryAbandons, QueryNotOpened, Reads, Publishes, Written, AbortsExport,
       Cancels, Cancelled, IngestCancels, IngestWaits, IngestCloses, IngestOpens, IngestRefused, Goes,
       GoesJoining, Resolves, NextStep, TypeOK, SessionClosed
    <3>4. QED
      BY <3>1, <3>2, <3>3
  <2>4. at'[c] \in {"persist", "send", "create", "abandon"} => activeQuery = None
    <3>1. CASE QueryProceeds(c)
      <4>1. SessionClosed(c) => activeQuery = None
        BY <3>1, NoSessionLeft DEF QueryProceeds
      <4>2. QED
        BY <3>1, <4>1 DEF QueryProceeds, OwnerInv, SessionsInv
    <3>2. CASE QueryAbandons(c)
      BY <3>2 DEF QueryAbandons, OwnerInv, SessionsInv
    <3>3. CASE ~QueryProceeds(c) /\ ~QueryAbandons(c)
      BY <3>3 DEF Takes, Steps, OperationRefused, Settle, QueryAdmitted, RetireViews, CloseSession,
       QueryOpens, QueryNotOpened, Reads, Publishes, Written, AbortsExport,
       Cancels, Cancelled, IngestCancels, IngestWaits, IngestCloses, IngestOpens, IngestRefused, Goes,
       GoesJoining, Resolves, TypeOK
    <3>4. QED
      BY <3>1, <3>2, <3>3
  <2>5. activeQuery' # None => session'[activeQuery'] # "none"
    BY <2>1, CallFacts DEF OwnerInv, SessionsInv, TypeOK, Slot
  <2>6. \A s \in Calls : session'[s] # "none" => s = activeQuery' \/ (kind'[s] = "query" /\ at'[s] = "abandon")
    BY <1>1, <2>1, <2>2 DEF OwnerInv, SessionsInv
  <2>7. \A d \in Calls : kind'[d] \in {"query", "ingest"} /\ at'[d] \in {"retire", "close"} =>
           In(activeQuery) \subseteq joins'[d]
    BY <1>1, <2>3 DEF OwnerInv, SessionsInv
  <2>8. \A d \in Calls : at'[d] \in {"persist", "send", "create", "abandon"} => activeQuery' = None
    BY <1>1, <2>1, <2>4 DEF OwnerInv, SessionsInv
  <2>9. QED
    BY <2>1, <2>5, <2>6, <2>7, <2>8 DEF SessionsInv, In
<1>6. QED
  BY <1>3, <1>4, <1>5, JoinTypes
  DEF Takes, Steps, OperationRefused, Settle, QueryAdmitted, RetireViews, CloseSession, QueryProceeds,
      QueryNotOpened, Reads, Publishes, Written, AbortsExport, Cancels, Cancelled, IngestCancels,
      IngestWaits, IngestCloses, IngestOpens, IngestRefused, slotVars, resultVars

LEMMA StepKeepsBars ==
    ASSUME TypeOK, CallsInv, OwnerInv, NEW c \in Calls, Takes(c)
    PROVE  IngestBars'
<1>1. /\ kind' = kind /\ \A d \in Calls : d # c => at'[d] = at[d] /\ joins'[d] = joins[d]
      /\ at[c] \notin {"none", "done"} /\ at'[c] \notin {"none", "queued"}
  BY StepFrame
<1>2. \A d \in Calls : Ingesting(d)' => Ingesting(d)
  BY <1>1 DEF Ingesting, Done
<1>3. \A d \in Calls : d # c => (Admitted(d)' <=> Admitted(d))
  BY <1>1 DEF Admitted, Underway
<1>4. \A d \in Calls : Ingesting(d)' => ingestStarting'
  <2>1. CASE IngestOpens(c) \/ IngestRefused(c)
    <3>1. Ingesting(c) /\ ~Ingesting(c)'
      BY <1>1, <2>1 DEF IngestOpens, IngestRefused, Ingesting, Done, Goes, GoesJoining, TypeOK
    <3>2. QED
      BY <1>2, <3>1 DEF OwnerInv, IngestBars
  <2>2. CASE ~IngestOpens(c) /\ ~IngestRefused(c)
    <3>1. ingestStarting' = ingestStarting
      BY <2>2 DEF Takes, Steps, OperationRefused, Settle, QueryAdmitted, RetireViews, CloseSession, QueryProceeds,
      QueryOpens, QueryAbandons, QueryNotOpened, Reads, Publishes, Written, AbortsExport, Cancels, Cancelled,
      IngestCancels, IngestWaits, IngestCloses, ingestVars
    <3>2. QED
      BY <1>2, <3>1 DEF OwnerInv, IngestBars
  <2>3. QED
    BY <2>1, <2>2
<1>5. \A d, e \in Calls : Ingesting(d)' /\ Ingesting(e)' => d = e
  BY <1>2 DEF OwnerInv, IngestBars
<1>6. Admitted(c)' => Admitted(c) \/ (QueryAdmitted(c) /\ ~ingestStarting /\ activeIngest = None)
  <2>1. CASE QueryAdmitted(c)
    BY <2>1 DEF QueryAdmitted, Resolves, Goes, GoesJoining, TypeOK, Admitted, Underway, Barred
  <2>2. CASE ~QueryAdmitted(c)
    <3> SUFFICES ASSUME kind[c] = "query", ~Admitted(c) PROVE ~Admitted(c)'
      BY <1>1 DEF Admitted, Underway
    <3>1. at[c] \in {"queued", "resolved", "writing"}
      BY <1>1 DEF Admitted, Underway, CallsInv, PlacesOfKinds, QueuePlaces
    <3>2. at'[c] \in {"resolved", "done"}
      BY <1>1, <2>2, <3>1
      DEF Takes, Steps, OperationRefused, Settle, RetireViews, CloseSession, QueryProceeds,
      QueryOpens, QueryAbandons, QueryNotOpened, Reads, Publishes, Written, AbortsExport, Cancels, Cancelled,
      IngestCancels, IngestWaits, IngestCloses, IngestOpens, IngestRefused, Resolves, Goes, GoesJoining, TypeOK,
      SessionClosed, ExportSettled
    <3>3. QED
      BY <3>2 DEF Admitted, Underway
  <2>3. QED
    BY <2>1, <2>2
<1>7. \A d, q \in Calls : Ingesting(d)' /\ Admitted(q)' => Ingesting(d) /\ Admitted(q)
  BY <1>2, <1>3, <1>6 DEF OwnerInv, IngestBars
<1>8. \A d, q \in Calls : Ingesting(d)' /\ Admitted(q)' =>
         /\ at'[d] = "idle" => q \in joins'[d]
         /\ at'[d] \notin {"closeExport", "retire", "close"}
  <2> SUFFICES ASSUME NEW d \in Calls, NEW q \in Calls, Ingesting(d)', Admitted(q)'
               PROVE  /\ at'[d] = "idle" => q \in joins'[d]
                      /\ at'[d] \notin {"closeExport", "retire", "close"}
    OBVIOUS
  <2>1. Ingesting(d) /\ Admitted(q)
    BY <1>7
  <2>2. /\ at[d] = "idle" => q \in joins[d]
        /\ at[d] \notin {"closeExport", "retire", "close"}
    BY <2>1 DEF OwnerInv, IngestBars
  <2>3. CASE d # c
    BY <1>1, <2>2, <2>3
  <2>4. CASE d = c
    <3>1. kind[c] = "ingest" /\ q # c /\ ~Done(q)
      BY <2>1, <2>4 DEF Ingesting, Admitted, Underway, Done
    <3>2. CASE IngestCloses(c)
      BY <2>2, <2>4, <3>1, <3>2 DEF IngestCloses, AllDone
    <3>3. CASE IngestWaits(c)
      <4>1. kind[q] \in Queueing /\ queue \in Seq(Calls)
        BY <2>1 DEF Admitted, Underway, Queueing, CallsInv, QueueHoldsOperations
      <4>2. q \in ToSet(queue)
        BY <3>1, <4>1, SetOfSeq DEF CallsInv, QueueHoldsOperations
      <4>3. at'[c] = "idle" /\ joins'[c] = ToSet(queue)
        BY <3>3 DEF IngestWaits, GoesJoining, TypeOK
      <4>4. QED
        BY <2>4, <4>2, <4>3
    <3>4. CASE ~IngestCloses(c) /\ ~IngestWaits(c)
      BY <2>2, <2>4, <3>1, <3>4
      DEF Takes, Steps, OperationRefused, Settle, QueryAdmitted, RetireViews, CloseSession, QueryProceeds,
      QueryOpens, QueryAbandons, QueryNotOpened, Reads, Publishes, Written, AbortsExport, Cancels, Cancelled,
      IngestCancels, IngestOpens, IngestRefused, Resolves, Goes, GoesJoining, TypeOK
    <3>5. QED
      BY <3>2, <3>3, <3>4
  <2>5. QED
    BY <2>3, <2>4
<1>9. activeIngest' # None => activeQuery' = None /\ \A q \in Calls : ~Admitted(q)'
  <2>1. CASE IngestOpens(c)
    <3>1. kind[c] = "ingest" /\ SessionClosed(c) /\ activeQuery' = activeQuery /\ Ingesting(c)
      BY <1>1, <2>1 DEF IngestOpens, slotVars, Ingesting, Done
    <3>2. activeQuery = None
      BY <3>1, NoSessionLeft
    <3>3. \A q \in Calls : ~Admitted(q)
      BY <3>1 DEF OwnerInv, IngestBars, SessionClosed
    <3>4. ~QueryAdmitted(c)
      BY <3>1 DEF QueryAdmitted
    <3>5. QED
      BY <1>3, <1>6, <3>1, <3>2, <3>3, <3>4
  <2>2. CASE ~IngestOpens(c)
    <3>1. activeIngest' = activeIngest
      BY <2>2 DEF Takes, Steps, OperationRefused, Settle, QueryAdmitted, RetireViews, CloseSession, QueryProceeds,
      QueryOpens, QueryAbandons, QueryNotOpened, Reads, Publishes, Written, AbortsExport, Cancels, Cancelled,
      IngestCancels, IngestWaits, IngestCloses, IngestRefused, ingestVars
    <3>2. activeIngest # None => ~QueryOpens(c)
      BY DEF QueryOpens, OwnerInv, IngestBars, Admitted, Underway
    <3>3. ~QueryOpens(c) => activeQuery' = activeQuery
      BY DEF Takes, Steps, OperationRefused, Settle, QueryAdmitted, RetireViews, CloseSession, QueryProceeds,
      QueryAbandons, QueryNotOpened, Reads, Publishes, Written, AbortsExport, Cancels, Cancelled,
      IngestCancels, IngestWaits, IngestCloses, IngestOpens, IngestRefused, slotVars
    <3>4. QED
      BY <1>3, <1>6, <3>1, <3>2, <3>3 DEF OwnerInv, IngestBars
  <2>3. QED
    BY <2>1, <2>2
<1>10. QED
  BY <1>4, <1>5, <1>8, <1>9 DEF IngestBars

LEMMA OthersKeepOwner ==
    ASSUME TypeOK, CallsInv, OwnerInv, Others
    PROVE  OwnerInv'
<1>1. UNCHANGED <<kind, at, joins, ingestStarting>>
  BY OthersFrame DEF callVars
<1>2. activeIngest' \in {activeIngest, None} /\ activeQuery' \in {activeQuery, None}
  BY DEF Others, AbortCall, CloseResult, SessionCompletes, SessionCloses, IngestSettles, Dispose, DisposeSteps,
   DisposeAbortsExport, DisposeRetires, DisposeCancels, DisposeWaitsIdle, DisposeClosesResult, DisposeEnds,
   ingestVars, slotVars
<1>3. IngestBars'
  BY <1>1, <1>2 DEF OwnerInv, IngestBars, Ingesting, Admitted, Underway, Done
<1>4. ASSUME NEW q \in Calls, SessionCloses(q) PROVE SessionsInv'
  BY <1>1, <1>4 DEF SessionCloses, OwnerInv, SessionsInv, In, TypeOK
<1>5. ASSUME activeQuery' = activeQuery, \A q \in Calls : session'[q] = "none" <=> session[q] = "none"
      PROVE  SessionsInv'
  <2>1. activeQuery # None => activeQuery \in Calls
    BY DEF TypeOK, Slot
  <2>2. QED
    BY <1>1, <1>5, <2>1 DEF OwnerInv, SessionsInv, In
<1>6. SessionsInv'
  <2>1. \/ \E q \in Calls : SessionCloses(q)
        \/ activeQuery' = activeQuery /\ session' = session
        \/ activeQuery' = activeQuery /\ \E S \in SUBSET Calls : session' = Closing(S)
    BY JoinTypes
    DEF Others, AbortCall, CloseResult, SessionCompletes, IngestSettles, Dispose, DisposeSteps,
     DisposeAbortsExport, DisposeRetires, DisposeCancels, DisposeWaitsIdle, DisposeClosesResult, DisposeEnds,
     resultVars, slotVars
  <2>2. QED
    BY <1>4, <1>5, <2>1, JoinTypes
<1>7. QED
  BY <1>3, <1>6 DEF OwnerInv

LEMMA OwnerStep == TypeOK /\ CallsInv /\ OwnerInv /\ [Next]_vars => OwnerInv'
<1> SUFFICES ASSUME TypeOK, CallsInv, OwnerInv, [Next]_vars PROVE OwnerInv'
  OBVIOUS
<1>1. CASE UNCHANGED vars
  BY <1>1 DEF vars, callVars, slotVars, ingestVars, resultVars, OwnerInv, IngestBars, SessionsInv,
     Ingesting, Admitted, Underway, Done, In
<1>2. CASE Next
  BY <1>2, NextSplits, CallKeepsOwner, StepKeepsBars, StepKeepsSessions, OthersKeepOwner DEF OwnerInv
<1>3. QED
  BY <1>1, <1>2

LEMMA AtMostOne ==
    ASSUME NEW S, \A x, y \in S : x = y
    PROVE  Cardinality(S) <= 1
<1>1. CASE S = {}
  BY <1>1, FS_EmptySet
<1>2. CASE S # {}
  <2>1. PICK x \in S : S = {x}
    BY <1>2
  <2>2. QED
    BY <2>1, FS_Singleton
<1>3. QED
  BY <1>1, <1>2

LEMMA OwnerImplies ==
    ASSUME TypeOK, CallsInv, OwnerInv
    PROVE  OneOwner
<1> DEFINE held == {q \in Calls : session[q] \in {"open", "closing"}}
<1>1. \A s \in held : s = activeQuery \/ (kind[s] = "query" /\ at[s] = "abandon" /\ activeQuery = None)
  BY DEF OwnerInv, SessionsInv
<1>2. \A s, t \in held : s = t
  <2> SUFFICES ASSUME NEW s \in held, NEW t \in held PROVE s = t
    OBVIOUS
  <2>1. CASE activeQuery = None
    <3>1. kind[s] = "query" /\ at[s] = "abandon" /\ kind[t] = "query" /\ at[t] = "abandon"
      BY <1>1, <2>1, CallFacts
    <3>2. QED
      BY <3>1, OneHasBegun DEF Queueing
  <2>2. CASE activeQuery # None
    BY <1>1, <2>2
  <2>3. QED
    BY <2>1, <2>2
<1>3. Cardinality(held) <= 1
  BY <1>2, AtMostOne
<1>4. activeIngest # None => \A q \in Calls : ~Underway(q) /\ session[q] = "none"
  BY CallFacts DEF OwnerInv, IngestBars, SessionsInv, Admitted
<1>5. QED
  BY <1>3, <1>4 DEF OneOwner

-----------------------------------------------------------------------------
(* A disposed database is quiet.                                              *)

LEMMA CallKeepsDisposal ==
    ASSUME TypeOK, CallsInv, DisposalInv, NEW c \in Calls, Call(c)
    PROVE  DisposalInv'
<1>1. disposal = "no" /\ disposal' = disposal
  BY CallFrame DEF Disposed, disposeVars
<1>2. QED
  BY <1>1 DEF DisposalInv

LEMMA StepKeepsDisposal ==
    ASSUME TypeOK, CallsInv, OwnerInv, DisposalInv, NEW c \in Calls, Takes(c)
    PROVE  DisposalInv'
<1>1. UNCHANGED <<disposal, disposeJoins>> /\ queue \in Seq(Calls)
  BY StepFrame DEF disposeVars, CallsInv, QueueHoldsOperations
<1>2. queue' = queue \/ (queue # << >> /\ queue' = Tail(queue))
  BY StepFrame
<1>3. ToSet(queue') \subseteq ToSet(queue) /\ (queue = << >> => queue' = << >>)
  <2>1. CASE queue # << >> /\ queue' = Tail(queue)
    <3>1. queue' \in Seq(Calls) /\ \A i \in 1..Len(queue') : i + 1 \in 1..Len(queue) /\ queue'[i] = queue[i + 1]
      BY <1>1, <2>1, TailPlaces
    <3>2. \A d \in ToSet(queue') : d \in ToSet(queue)
      BY <1>1, <3>1, SetOfSeq
    <3>3. QED
      BY <2>1, <3>2
  <2>2. QED
    BY <1>2, <2>1
<1>4. disposal # "no" => derivedViews' \subseteq derivedViews
  BY DEF Takes, Steps, OperationRefused, Settle, QueryAdmitted, RetireViews, CloseSession, QueryProceeds,
      QueryOpens, QueryAbandons, QueryNotOpened, Reads, Publishes, Written, AbortsExport, Cancels, Cancelled,
      IngestCancels, IngestWaits, IngestCloses, IngestOpens, IngestRefused, resultVars, Replaced, Disposed
<1>5. queue = << >> => activeQuery' = activeQuery
  <2>1. queue = << >> => ~QueryOpens(c)
    BY BegunIsFirst DEF QueryOpens, Queueing
  <2>2. ~QueryOpens(c) => activeQuery' = activeQuery
    BY DEF Takes, Steps, OperationRefused, Settle, QueryAdmitted, RetireViews, CloseSession, QueryProceeds,
      QueryAbandons, QueryNotOpened, Reads, Publishes, Written, AbortsExport, Cancels, Cancelled,
      IngestCancels, IngestWaits, IngestCloses, IngestOpens, IngestRefused, slotVars
  <2>3. QED
    BY <2>1, <2>2
<1>6. QED
  BY <1>1, <1>3, <1>4, <1>5 DEF DisposalInv

LEMMA OthersKeepDisposal ==
    ASSUME TypeOK, CallsInv, OwnerInv, DisposalInv, Others
    PROVE  DisposalInv'
<1>1. queue' = queue /\ at' = at /\ queue \in Seq(Calls)
  BY OthersFrame DEF callVars, CallsInv, QueueHoldsOperations
<1>2. activeQuery' \in {activeQuery, None} /\ derivedViews' \subseteq derivedViews
  BY DEF Others, AbortCall, CloseResult, SessionCompletes, SessionCloses, IngestSettles, Dispose, DisposeSteps,
   DisposeAbortsExport, DisposeRetires, DisposeCancels, DisposeWaitsIdle, DisposeClosesResult, DisposeEnds,
   slotVars, resultVars
<1>3. CASE UNCHANGED disposeVars
  BY <1>1, <1>2, <1>3 DEF disposeVars, DisposalInv, In
<1>4. CASE Dispose \/ DisposeAbortsExport
  BY <1>4 DEF Dispose, DisposeAbortsExport, DisposeWaits, DisposalInv
<1>5. CASE DisposeRetires \/ DisposeCancels
  BY <1>2, <1>5 DEF DisposeRetires, DisposeCancels, DisposeWaits, DisposalInv
<1>6. CASE DisposeWaitsIdle
  BY <1>1, <1>2, <1>6 DEF DisposeWaitsIdle, DisposeWaits, DisposalInv
<1>7. CASE DisposeClosesResult
  <2>1. ToSet(queue) \subseteq disposeJoins /\ \A c \in disposeJoins : at[c] = "done"
    BY <1>7 DEF DisposeClosesResult, AllDone, Done, DisposalInv
  <2>2. queue = << >>
    <3> SUFFICES ASSUME queue # << >> PROVE FALSE
      OBVIOUS
    <3>1. 1 \in 1..Len(queue) /\ queue[1] \in ToSet(queue)
      BY <1>1, SetOfSeq, TailPlaces
    <3>2. QED
      BY <2>1, <3>1 DEF CallsInv, QueueHoldsOperations, Done
  <2>3. QED
    BY <1>1, <1>2, <1>7, <2>2 DEF DisposeClosesResult, DisposeWaits, DisposalInv, slotVars
<1>8. CASE DisposeEnds
  <2>1. In(activeQuery) \subseteq disposeJoins /\ AllClosed(disposeJoins)
    BY <1>8 DEF DisposeEnds, DisposalInv
  <2>2. activeQuery = None
    BY <2>1 DEF In, AllClosed, OwnerInv, SessionsInv
  <2>3. QED
    BY <1>1, <1>2, <1>8, <2>2 DEF DisposeEnds, DisposeWaits, DisposalInv
<1>9. QED
  BY <1>3, <1>4, <1>5, <1>6, <1>7, <1>8
  DEF Others, DisposeSteps, AbortCall, CloseResult, SessionCompletes, SessionCloses, IngestSettles

LEMMA DisposalStep == TypeOK /\ CallsInv /\ OwnerInv /\ DisposalInv /\ [Next]_vars => DisposalInv'
<1> SUFFICES ASSUME TypeOK, CallsInv, OwnerInv, DisposalInv, [Next]_vars PROVE DisposalInv'
  OBVIOUS
<1>1. CASE UNCHANGED vars
  BY <1>1 DEF vars, slotVars, disposeVars, resultVars, DisposalInv, In
<1>2. CASE Next
  BY <1>2, NextSplits, CallKeepsDisposal, StepKeepsDisposal, OthersKeepDisposal
<1>3. QED
  BY <1>1, <1>2

LEMMA DisposalImplies ==
    ASSUME TypeOK, CallsInv, OwnerInv, DisposalInv
    PROVE  DisposedIsQuiet
<1> SUFFICES ASSUME disposal = "done"
             PROVE  (\A q \in Calls : session[q] = "none") /\ derivedViews = {} /\ queue = << >>
  BY DEF DisposedIsQuiet
<1>1. derivedViews = {} /\ queue = << >> /\ activeQuery = None
  BY DEF DisposalInv
<1>2. \A q \in Calls : ~(kind[q] = "query" /\ at[q] = "abandon")
  BY <1>1, BegunIsFirst DEF Queueing
<1>3. QED
  BY <1>1, <1>2, CallFacts DEF OwnerInv, SessionsInv

-----------------------------------------------------------------------------
(* The theorems.                                                            *)

LEMMA IndInit == Init => IndInv
<1> SUFFICES ASSUME Init PROVE IndInv
  OBVIOUS
<1>1. TypeOK /\ CallsInv
  BY TypeInit
<1>2. LatestInv /\ IngestBars /\ SessionsInv /\ DisposalInv
  BY DEF Init, LatestInv, IngestBars, SessionsInv, DisposalInv, Unsettled, Ingesting, In
<1>3. QED
  BY <1>1, <1>2 DEF IndInv

LEMMA IndStep == IndInv /\ [Next]_vars => IndInv'
BY TypeStep, LatestStep, OwnerStep, DisposalStep DEF IndInv, OwnerInv

\* The connection has one owner (startQuery, beginIngest and #closeActiveQuery of
\* BrowserDatabase): while an ingest is open no result is and no query is about to make
\* one, and never are two results open.
THEOREM OneOwnerAlways == Spec => []OneOwner
<1>1. IndInv => OneOwner
  BY OwnerImplies DEF IndInv, OwnerInv
<1>2. QED
  BY <1>1, IndInit, IndStep, PTL DEF Spec

\* Once dispose has settled nothing uses the terminated database (disposeInternal).
THEOREM DisposedStaysQuiet == Spec => []DisposedIsQuiet
<1>1. IndInv => DisposedIsQuiet
  BY DisposalImplies DEF IndInv, OwnerInv
<1>2. QED
  BY <1>1, IndInit, IndStep, PTL DEF Spec

\* Only the latest query becomes the current result (the tokens of startQuery and
\* cancelPendingQuery), as a property of every step.
THEOREM LatestOpens == Spec => OnlyTheLatestOpens
<1>1. IndInv /\ [Next]_vars =>
         [\A q \in Calls :
            activeQuery' = q /\ activeQuery # q =>
              \A c \in Calls : c > q => /\ kind[c] # "query"
                                        /\ kind[c] \in {"cancel", "ingest"} => ~Done(c)]_vars
  BY OpensLatest DEF IndInv
<1>2. QED
  BY <1>1, IndInit, IndStep, PTL DEF Spec, OnlyTheLatestOpens
================================================================================
