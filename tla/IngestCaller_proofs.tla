-------------------------- MODULE IngestCaller_proofs --------------------------
(***************************************************************************)
(* Proofs about IngestCaller, for any tables, files, batches and size of a chunk.  *)
(* No view scans a file that is gone, and an ingest that is over leaves nothing    *)
(* behind: KeepInv, what the store holds and which files are whose, rests on        *)
(* ControlInv, what the caller is at and the one call it has under way.  And the    *)
(* ingest implements AtomicIngest: KeptInv, the rows the session holds are those   *)
(* its caller was told were accepted, so a commit publishes these and no others;   *)
(* it rests on StagedInv, of which file the staged rows are, and on AppendInv, the  *)
(* row an append carries.                                                      *)
(***************************************************************************)
EXTENDS IngestCaller, IngestSession_proofs

-----------------------------------------------------------------------------
(* Types.  A chunk belongs to a generation, so an operation is only queued in one.   *)

Begun == generation = None => caller = "idle" /\ queue = << >> /\ call = NoCall /\ appends = {}
TypeInv == TypeOK /\ Begun

LEMMA TypesHoldAtFirst == Init => TypeInv
<1>1. Init => SessionTypeOK
  BY TypesBeforeIngests DEF Init
<1>2. Init => fileNo \in 0..MaxFiles /\ rowNo \in 0..MaxRows
  BY IngestAssumption DEF Init
<1>. QED BY <1>1, <1>2 DEF Init, IngestInit, TypeInv, TypeOK, Begun

\* The caller's own variables.
CallerTypeOK ==
    /\ caller \in {"idle", "between", "inFile", "fileFailed", "filing", "filed", "doomed"}
    /\ fileNo \in 0..MaxFiles /\ parsed \in BOOLEAN /\ rowNo \in 0..MaxRows
    /\ accepted \subseteq Rows

LEMMA TypesOfCalls ==
    ASSUME TypeInv, Opens \/ CallerStep
    PROVE  TypeInv'
<1>0. /\ SessionTypeOK /\ CallerTypeOK
      /\ MaxFiles \in Nat /\ MaxRows \in Nat /\ MaxGenerations \in Nat /\ FilesTable \in Tables
  BY IngestAssumption DEF TypeInv, TypeOK, CallerTypeOK
<1>1. SessionTypeOK' /\ CallerTypeOK' /\ generation' # None
  <2>1. CASE Opens
    <3>1. generation + 1 \in Generations /\ generation + 1 # None
      BY <1>0, <2>1 DEF Opens, Generations, None, SessionTypeOK
    <3>2. PICK t \in Tiers : BeginIngest(generation + 1, t)
      BY <2>1 DEF Opens
    <3>3. SessionTypeOK' /\ generation' # None
      <4>. DEFINE g == generation + 1
      <4>1. g \in Generations /\ BeginIngest(g, t) /\ g # None
        BY <3>1, <3>2
      <4>. HIDE DEF g
      <4>. QED BY <1>0, <4>1, BeginKeepsTypes DEF BeginIngest
    <3>4. caller' = "between" /\ fileNo' = 0 /\ parsed' = FALSE /\ rowNo' = 0 /\ accepted' = {}
      BY <2>1 DEF Opens
    <3>5. 0 \in 0..MaxFiles /\ 0 \in 0..MaxRows
      BY <1>0
    <3>. QED BY <3>3, <3>4, <3>5 DEF CallerTypeOK
  <2>2. ASSUME CallerStep
        PROVE  generation # None /\ generation' = generation
    BY <2>2 DEF TypeInv, Begun, CallerStep, BeginsFile, Appends, AppendsFiles, Discards, Finalizes, Aborts,
                CallBeginFile, CallAppend, CallDiscard, CallFinalize, CallAbort
  <2>3. CASE BeginsFile
    <3>1. fileNo + 1 \in Files /\ fileNo + 1 \in 0..MaxFiles
      BY <1>0, <2>3 DEF BeginsFile, Files, CallerTypeOK
    <3>2. SessionTypeOK'
      BY <1>0, <2>3, <3>1, CallsKeepTypes DEF BeginsFile
    <3>. QED BY <1>0, <2>2, <2>3, <3>1, <3>2 DEF BeginsFile, CallerTypeOK, CallerStep
  <2>4. CASE Appends \/ AppendsFiles
    <3>1. /\ fileNo \in Files \cup {None} /\ rowNo + 1 \in 0..(MaxRows + 1)
          /\ rowNo < MaxRows => rowNo + 1 \in 0..MaxRows
      BY <1>0 DEF CallerTypeOK, Files, None
    <3>2. PICK t \in Tables, f \in {fileNo, None} : CallAppend(t, [file |-> f, n |-> rowNo + 1])
      BY <1>0, <2>4 DEF Appends, AppendsFiles
    <3>3. [file |-> f, n |-> rowNo + 1] \in Rows
      BY <3>1 DEF Rows
    <3>4. SessionTypeOK'
      BY <1>0, <3>2, <3>3, CallsKeepTypes
    <3>. QED BY <1>0, <2>2, <2>4, <3>1, <3>4 DEF Appends, AppendsFiles, CallerTypeOK, CallerStep
  <2>5. CASE Discards \/ Finalizes \/ Aborts
    <3>1. SessionTypeOK'
      BY <1>0, <2>5, CallsKeepTypes DEF Discards, Finalizes, Aborts
    <3>. QED BY <1>0, <2>2, <2>5, <3>1 DEF Discards, Finalizes, Aborts, CallerTypeOK, CallerStep, callerVars
  <2>. QED BY <2>1, <2>3, <2>4, <2>5 DEF CallerStep
<1>. QED BY <1>1 DEF TypeInv, TypeOK, CallerTypeOK, Begun

\* Every call returns with the types kept.
LEMMA TypesOfReturns ==
    ASSUME TypeInv, Return
    PROVE  TypeInv'
<1>0. SessionTypeOK /\ CallerTypeOK
  BY DEF TypeInv, TypeOK, CallerTypeOK
<1>1. SessionTypeOK'
  BY <1>0, ReturnsKeepTypes DEF Return, FileBegun, Appended, Discarded, Finalized, Aborted
<1>2. generation # None /\ generation' = generation
  BY DEF TypeInv, Begun, NoCall, Return, FileBegun, Appended, Discarded, Finalized, Aborted,
         ReturnBeginFile, ReturnAppend, ReturnDiscard, ReturnFinalize, ReturnAbort
<1>3. \A a \in appends : a.row \in Rows
  BY <1>0 DEF SessionTypeOK, AppendCalls
<1>4. CallerTypeOK'
  BY <1>0, <1>3 DEF CallerTypeOK, Return, FileBegun, Appended, Discarded, Finalized, Aborted, OfFile
<1>. QED BY <1>1, <1>2, <1>4 DEF TypeInv, TypeOK, CallerTypeOK, Begun

\* So do the queue, a method that goes on without its caller, disposal, and a step that changes
\* nothing.
LEMMA TypesOfTheRest ==
    ASSUME TypeInv, DatabaseStep \/ Teardown \/ Rest \/ UNCHANGED vars
    PROVE  TypeInv'
<1>0. SessionTypeOK /\ CallerTypeOK
  BY DEF TypeInv, TypeOK, CallerTypeOK
<1>1. CASE DatabaseStep
  <2>1. generation # None /\ generation' = generation
    <3>1. CASE RunOperation
      <4>1. queue # << >>
        BY <3>1 DEF RunOperation, Running, RunAppend, RunFlush, RunDiscard, RunResidual, RunCommit, RunDrop
      <4>2. generation' = generation
        BY <3>1 DEF RunOperation, RunAppend, RunFlush, RunDiscard, RunResidual, RunCommit, RunDrop
      <4>. QED BY <4>1, <4>2 DEF TypeInv, Begun
    <3>2. CASE SessionStep
      BY <3>2 DEF SessionStep, DiscardForgets, FinalizeCommits, FinalizeSwaps, TypeInv, Begun, NoCall
    <3>. QED BY <1>1, <3>1, <3>2 DEF DatabaseStep
  <2>2. SessionTypeOK'
    BY <1>0, <1>1, <2>1, OperationsKeepTypes, StepsKeepTypes DEF DatabaseStep
  <2>3. CallerTypeOK'
    BY <1>0, <1>1 DEF DatabaseStep, callerVars, CallerTypeOK
  <2>. QED BY <2>1, <2>2, <2>3 DEF TypeInv, TypeOK, CallerTypeOK, Begun
<1>2. CASE Teardown
  <2>1. SessionTypeOK'
    BY <1>0, <1>2, StepsKeepTypes DEF Teardown
  <2>2. CallerTypeOK' /\ Begun'
    BY <1>0, <1>2 DEF Teardown, Dispose, DisposeFinishes, sessionVars, callVars, callerVars, CallerTypeOK,
                      TypeInv, Begun
  <2>. QED BY <2>1, <2>2 DEF TypeInv, TypeOK, CallerTypeOK
<1>3. CASE Rest \/ UNCHANGED vars
  BY <1>3 DEF Rest, vars, ingestVars, databaseVars, catalogVars, storeVars, tableVars, fileVars, callVars,
              callerVars, TypeInv, TypeOK, SessionTypeOK, Begun
<1>. QED BY <1>1, <1>2, <1>3

LEMMA TypesHold == Spec => []TypeInv
<1>1. TypeInv /\ [Next]_vars => TypeInv'
  BY TypesOfCalls, TypesOfReturns, TypesOfTheRest DEF Next
<1>. QED BY <1>1, TypesHoldAtFirst, PTL DEF Spec

-----------------------------------------------------------------------------
(* Control: what the caller is at, the one call it has under way, and the operation that *)
(* call waits for.                                                          *)

OneCall ==
    /\ appends = {} \/ call = NoCall
    /\ \A a, b \in appends : a = b

\* The queue holds the operation the call under way waits for, and no other.
QueueIsOfCall ==
    /\ Len(queue) <= 1
    /\ queue # << >> => appends # {} \/ call # NoCall
    /\ \A a \in appends : a.at = "queued" <=> queue # << >>
    /\ call # NoCall => (call.at = "queued" <=> queue # << >>)
    /\ \A a \in appends : queue # << >> =>
           /\ Head(queue).op = "append" /\ Head(queue).row = a.row /\ Head(queue).table = a.table
           /\ Head(queue).create => a.table \notin created
    /\ call # NoCall /\ queue # << >> =>
           /\ call.kind = "beginFile" => Head(queue).op = "flush"
           /\ call.kind = "discard" => Head(queue).op = "discard" /\ Head(queue).file = currentFile
           /\ call.kind = "flushing" => Head(queue).op = "residual"
           /\ call.kind = "finalize" => Head(queue).op = "commit"
           /\ call.kind = "abort" => Head(queue).op = "drop"

CallIsOfCaller ==
    /\ appends # {} => caller \in {"inFile", "filing"}
    /\ caller = "filing" => appends # {}
    /\ call.kind = "none" => call = NoCall
    /\ call.kind = "beginFile" => caller \in {"between", "inFile"} /\ call.at \in Outcomes
    /\ call.kind = "beginFile" /\ call.at = "queued" => tier = "spill"
    /\ call.kind = "discard" => caller = "fileFailed" /\ call.at \in {"queued", "ok", "error", "deleting"}
    /\ call.kind = "flushing" => caller = "filed" /\ call.at \in Outcomes /\ tier = "spill"
    /\ call.kind = "finalize" => caller = "filed" /\ call.at \in {"queued", "ok", "error", "swapping"}
    /\ call.kind = "abort" => caller \in {"between", "inFile", "doomed", "filed"}
                              /\ call.at \in {"queued", "ok", "error", "nothing"}
    /\ call.at = "nothing" => caller = "doomed"
    /\ call.kind = "abort" /\ call.at = "error" => dispose # "no"

\* A rotation ran out of room: the session has aborted itself.
QuotaMet == call.at = "quota" \/ \E a \in appends : a.at = "quota"

\* An ingest is under way and nothing has ended it.
Live == caller \notin {"idle", "doomed"} /\ call.kind # "abort" /\ ~QuotaMet

StateIsOfCaller ==
    /\ caller = "idle" => state \in {"aborted", "finalized"}
    /\ Live => state = (IF call.kind \in {"flushing", "finalize"} THEN "finalized" ELSE "open")
    /\ call.kind = "flushing" => state = "finalized"
    /\ QuotaMet /\ call.kind # "flushing" => state = "aborted"
    /\ call.kind = "abort" => state = "aborted"
    /\ caller = "doomed" => state # "finalized"

\* The session's file is the caller's: 0, None, is no file.
FileIsOfCaller ==
    /\ call.kind = "beginFile" => call.file = fileNo /\ currentFile < fileNo /\ fileNo > 0
    /\ caller = "inFile" /\ call.kind # "beginFile" => currentFile = fileNo /\ fileNo > 0
    /\ caller = "between" => currentFile = None
    /\ caller = "fileFailed" => currentFile = fileNo /\ fileNo > 0
    /\ Live => currentFile <= fileNo

ControlInv == OneCall /\ QueueIsOfCall /\ CallIsOfCaller /\ StateIsOfCaller /\ FileIsOfCaller

LEMMA FieldsOfCalls ==
    /\ NoCall.kind = "none" /\ NoCall.at = "none"
    /\ \A kind, at, f :
          /\ Called(kind, at, f).kind = kind /\ Called(kind, at, f).at = at
          /\ Called(kind, at, f).file = f
          /\ kind # "none" => Called(kind, at, f) # NoCall
    /\ \A outcome : TypeOK /\ Returns(outcome) =>
          /\ call'.kind = call.kind /\ call'.at = outcome /\ call'.file = call.file
          /\ call'.chunks = call.chunks /\ call'.prev = call.prev
  BY CallFields DEF TypeOK

\* An operation is enqueued on an empty queue, unless disposal refuses it, and the queue is
\* empty once it has run.
LEMMA OneOperation ==
    ASSUME TypeOK
    PROVE  /\ \A o : queue = << >> /\ Enqueue(o) =>
                  /\ Len(queue') <= 1
                  /\ dispose = "no" => queue' # << >> /\ Head(queue') = o
                  /\ dispose # "no" => queue' = << >>
           /\ \A op : Len(queue) <= 1 /\ Running(op) => queue' = << >> /\ Len(queue') = 0
<1>1. ASSUME NEW o, queue = << >>, Enqueue(o)
      PROVE  /\ Len(queue') <= 1
             /\ dispose = "no" => queue' # << >> /\ Head(queue') = o
             /\ dispose # "no" => queue' = << >>
  <2>1. Append(<< >>, o) = <<o>>
    OBVIOUS
  <2>. QED BY <1>1, <2>1 DEF Enqueue
<1>2. ASSUME NEW op, Len(queue) <= 1, Running(op)
      PROVE  queue' = << >> /\ Len(queue') = 0
  <2>1. queue \in Seq(Operations) /\ queue # << >> /\ queue' = Tail(queue)
    BY <1>2 DEF TypeOK, SessionTypeOK, Running
  <2>2. Len(queue) \in Nat \ {0}
    BY <2>1, EmptySeq
  <2>3. Tail(queue) \in Seq(Operations) /\ Len(Tail(queue)) = Len(queue) - 1
    BY <2>1, HeadTailProperties
  <2>4. Len(Tail(queue)) = 0
    BY <1>2, <2>2, <2>3
  <2>. QED BY <2>1, <2>3, <2>4, EmptySeq
<1>. QED BY <1>1, <1>2

\* The caller makes a call only when none is under way and the queue is empty.
LEMMA QuietQueue == TypeOK /\ ControlInv /\ Quiet => queue = << >> /\ ~QuotaMet
<1>. SUFFICES ASSUME TypeOK, ControlInv, Quiet PROVE queue = << >> /\ ~QuotaMet
  OBVIOUS
<1>1. queue = << >>
  BY DEF Quiet, ControlInv, QueueIsOfCall
<1>. QED BY <1>1, FieldsOfCalls DEF Quiet, QuotaMet

LEMMA ControlAtFirst == Init => ControlInv
<1>. SUFFICES ASSUME Init PROVE ControlInv
  OBVIOUS
<1>1. call = NoCall /\ appends = {} /\ queue = << >> /\ caller = "idle" /\ state = "aborted"
  BY DEF Init, IngestInit
<1>2. Len(queue) <= 1
  BY <1>1, EmptySeq
<1>. QED BY <1>1, <1>2, FieldsOfCalls DEF ControlInv, OneCall, QueueIsOfCall, CallIsOfCaller, StateIsOfCaller,
                                        FileIsOfCaller, Live, QuotaMet

\* A call made by a quiet caller.
LEMMA ControlOfCalls ==
    ASSUME TypeInv, ControlInv, Opens \/ CallerStep
    PROVE  ControlInv'
<1>. USE DEF ControlInv, OneCall
<1>. USE FieldsOfCalls
<1>1. Quiet
  BY DEF Opens, CallerStep, BeginsFile, Appends, AppendsFiles, Discards, Finalizes, Aborts
<1>2. /\ queue = << >> /\ ~QuotaMet /\ call = NoCall /\ appends = {} /\ TypeOK
      /\ Len(<< >>) <= 1
  BY <1>1, QuietQueue, EmptySeq DEF TypeInv, Quiet
<1>3. AtOnce = IF dispose = "no" THEN "queued" ELSE "error"
  BY DEF AtOnce
<1>4. CASE Opens
  <2>1. /\ UNCHANGED callVars /\ state' = "open" /\ caller' = "between" /\ dispose = "no"
    BY <1>4 DEF Opens, BeginIngest
  <2>2. currentFile' = None /\ fileNo' = 0
    BY <1>4 DEF Opens, BeginIngest
  <2>. QED BY <1>2, <2>1, <2>2 DEF callVars, QueueIsOfCall, CallIsOfCaller, StateIsOfCaller, FileIsOfCaller,
                                   Live, QuotaMet, None
<1>5. CASE BeginsFile
  <2>1. /\ caller \in {"between", "inFile"} /\ UNCHANGED <<caller, state, tier, dispose, appends, created, currentFile>>
        /\ IF state = "open" /\ tier = "spill"
           THEN Enqueue(Operation("flush", fileNo + 1)) /\ call' = Called("beginFile", AtOnce, fileNo + 1)
           ELSE /\ call' = Called("beginFile", IF state = "open" THEN "ok" ELSE "error", fileNo + 1)
                /\ UNCHANGED queue
    BY <1>5 DEF BeginsFile, CallBeginFile, databaseVars, tableVars, fileVars
  <2>2. Operation("flush", fileNo + 1).op = "flush"
    BY DEF Operation
  <2>3. QueueIsOfCall'
    BY <1>2, <1>3, <2>1, <2>2, OneOperation DEF QueueIsOfCall
  <2>4. call'.at \in {"queued", "ok", "error"} /\ call'.kind = "beginFile"
    BY <1>3, <2>1
  <2>5. CallIsOfCaller'
    BY <1>2, <2>1, <2>4 DEF CallIsOfCaller, Outcomes
  <2>6. StateIsOfCaller'
    BY <1>2, <2>1, <2>4 DEF StateIsOfCaller, Live, QuotaMet
  <2>7. FileIsOfCaller'
    <3>1. currentFile < fileNo + 1 /\ fileNo + 1 > 0 /\ fileNo' = fileNo + 1
      BY <1>2, <1>5, <2>1 DEF BeginsFile, TypeOK, SessionTypeOK, FileIsOfCaller, None, Files
    <3>. QED BY <1>2, <2>1, <2>4, <3>1 DEF FileIsOfCaller, TypeOK, SessionTypeOK, Files, None
  <2>. QED BY <1>2, <2>1, <2>3, <2>5, <2>6, <2>7
<1>6. CASE Appends \/ AppendsFiles
  <2>1. PICK t, r : CallAppend(t, r)
    BY <1>6 DEF Appends, AppendsFiles
  <2>2. /\ state = "open" => /\ appends' = {[table |-> t, row |-> r, at |-> AtOnce]}
                             /\ Enqueue(Insertion(t, r))
        /\ state # "open" => /\ appends' = {[table |-> t, row |-> r, at |-> "error"]}
                             /\ UNCHANGED queue
        /\ UNCHANGED <<state, tier, dispose, created, currentFile, call>>
    BY <1>2, <2>1 DEF CallAppend, databaseVars, tableVars, fileVars
  <2>3. caller' \in {"inFile", "filing"} /\ caller \in {"inFile", "between"}
    BY <1>6 DEF Appends, AppendsFiles
  <2>4. /\ Insertion(t, r).op = "append" /\ Insertion(t, r).row = r /\ Insertion(t, r).table = t
        /\ Insertion(t, r).create => t \notin created
    BY DEF Insertion
  <2>5. PICK a : appends' = {a} /\ a.table = t /\ a.row = r
                 /\ a.at = IF state = "open" THEN AtOnce ELSE "error"
    <3>. DEFINE b == [table |-> t, row |-> r, at |-> IF state = "open" THEN AtOnce ELSE "error"]
    <3>1. appends' = {b}
      BY <2>2
    <3>2. b.table = t /\ b.row = r /\ b.at = IF state = "open" THEN AtOnce ELSE "error"
      OBVIOUS
    <3>. HIDE DEF b
    <3>. QED BY <3>1, <3>2
  <2>6. state = "open"
    BY <1>2, <2>3 DEF StateIsOfCaller, Live
  <2>7. QueueIsOfCall'
    BY <1>2, <1>3, <2>2, <2>4, <2>5, <2>6, OneOperation DEF QueueIsOfCall
  <2>8. CallIsOfCaller'
    BY <1>2, <2>2, <2>3, <2>5 DEF CallIsOfCaller
  <2>9. StateIsOfCaller'
    BY <1>2, <1>3, <2>2, <2>3, <2>5, <2>6 DEF StateIsOfCaller, Live, QuotaMet
  <2>10. FileIsOfCaller'
    <3>1. /\ fileNo' = fileNo
          /\ caller' = "inFile" => caller = "inFile"
          /\ caller = "between" => currentFile = None
      BY <1>2, <1>6 DEF Appends, AppendsFiles, FileIsOfCaller
    <3>2. currentFile <= fileNo
      BY <1>2, <2>3 DEF FileIsOfCaller, Live
    <3>3. call'.kind = "none" /\ currentFile' = currentFile
      BY <1>2, <2>2
    <3>4. caller = "inFile" => currentFile = fileNo /\ fileNo > 0
      BY <1>2 DEF FileIsOfCaller
    <3>. QED BY <2>3, <3>1, <3>2, <3>3, <3>4 DEF FileIsOfCaller
  <2>. QED BY <1>2, <2>2, <2>5, <2>7, <2>8, <2>9, <2>10
<1>7. CASE Discards
  <2>1. /\ caller \in {"inFile", "fileFailed"} /\ caller' = "fileFailed"
        /\ UNCHANGED <<state, tier, dispose, appends, created, currentFile, fileNo>>
        /\ IF state = "open" /\ currentFile # None
           THEN /\ Enqueue(Operation("discard", currentFile))
                /\ call' = Called("discard", AtOnce, currentFile)
           ELSE call' = Called("discard", "nothing", None) /\ UNCHANGED queue
    BY <1>7 DEF Discards, CallDiscard, databaseVars, tableVars, fileVars
  <2>2. Operation("discard", currentFile).op = "discard" /\ Operation("discard", currentFile).file = currentFile
    BY DEF Operation
  <2>3. state = "open" /\ currentFile = fileNo /\ fileNo > 0
    BY <1>2, <2>1 DEF StateIsOfCaller, FileIsOfCaller, Live
  <2>4. Enqueue(Operation("discard", currentFile)) /\ call' = Called("discard", AtOnce, currentFile)
    BY <2>1, <2>3 DEF None
  <2>5. QueueIsOfCall'
    BY <1>2, <1>3, <2>1, <2>2, <2>4, OneOperation DEF QueueIsOfCall
  <2>6. CallIsOfCaller'
    BY <1>2, <1>3, <2>1, <2>4 DEF CallIsOfCaller
  <2>7. StateIsOfCaller' /\ FileIsOfCaller'
    BY <1>2, <1>3, <2>1, <2>3, <2>4 DEF StateIsOfCaller, FileIsOfCaller, Live, QuotaMet
  <2>. QED BY <1>2, <2>1, <2>5, <2>6, <2>7
<1>8. CASE Finalizes
  <2>1. /\ caller = "filed" /\ UNCHANGED <<caller, tier, dispose, appends, created, currentFile, fileNo>>
        /\ IF state = "open"
           THEN /\ state' = "finalized"
                /\ Enqueue(Operation(IF tier = "spill" THEN "residual" ELSE "commit", None))
                /\ call' = Called(IF tier = "spill" THEN "flushing" ELSE "finalize", AtOnce, None)
           ELSE call' = Called("finalize", "refused", None) /\ UNCHANGED <<state, queue>>
    BY <1>8 DEF Finalizes, CallFinalize, databaseVars, tableVars, fileVars, callerVars
  <2>2. state = "open" /\ currentFile <= fileNo
    BY <1>2, <2>1 DEF StateIsOfCaller, FileIsOfCaller, Live
  <2>. DEFINE op == IF tier = "spill" THEN "residual" ELSE "commit"
  <2>3. Operation(op, None).op = op
    BY DEF Operation
  <2>4. /\ state' = "finalized" /\ Enqueue(Operation(op, None))
        /\ call'.kind = IF tier = "spill" THEN "flushing" ELSE "finalize"
        /\ call'.at = AtOnce /\ call' # NoCall
    BY <2>1, <2>2
  <2>5. QueueIsOfCall'
    <3>1. Len(queue') <= 1 /\ (dispose = "no" => queue' # << >> /\ Head(queue').op = op)
          /\ (dispose # "no" => queue' = << >>)
      <4>. HIDE DEF op
      <4>. QED BY <1>2, <2>3, <2>4, OneOperation
    <3>. QED BY <1>2, <1>3, <2>1, <2>4, <3>1 DEF QueueIsOfCall
  <2>6. CallIsOfCaller'
    BY <1>2, <1>3, <2>1, <2>4 DEF CallIsOfCaller, Outcomes, TypeOK, SessionTypeOK, Tiers
  <2>7. StateIsOfCaller' /\ FileIsOfCaller'
    BY <1>2, <1>3, <2>1, <2>2, <2>4 DEF StateIsOfCaller, FileIsOfCaller, Live, QuotaMet
  <2>. QED BY <1>2, <2>1, <2>5, <2>6, <2>7
<1>9. CASE Aborts
  <2>1. /\ caller \in {"between", "inFile", "doomed", "filed"}
        /\ UNCHANGED <<caller, tier, dispose, appends, created, currentFile, fileNo>>
        /\ IF Abortable
           THEN /\ state' = "aborted"
                /\ Enqueue(Operation("drop", None))
                /\ call' = Called("abort", AtOnce, None)
           ELSE call' = Called("abort", "nothing", None) /\ UNCHANGED <<state, queue>>
    BY <1>9 DEF Aborts, CallAbort, databaseVars, tableVars, fileVars, callerVars
  <2>2. Operation("drop", None).op = "drop"
    BY DEF Operation
  <2>3. CASE Abortable
    <3>1. QueueIsOfCall'
      BY <1>2, <1>3, <2>1, <2>2, <2>3, OneOperation DEF QueueIsOfCall
    <3>2. CallIsOfCaller'
      BY <1>2, <1>3, <2>1, <2>3 DEF CallIsOfCaller
    <3>3. StateIsOfCaller' /\ FileIsOfCaller'
      BY <1>2, <1>3, <2>1, <2>3 DEF StateIsOfCaller, FileIsOfCaller, Live, QuotaMet
    <3>. QED BY <1>2, <2>1, <3>1, <3>2, <3>3
  <2>4. CASE ~Abortable
    <3>1. caller = "doomed" /\ state = "aborted"
      BY <1>2, <2>1, <2>4 DEF Abortable, StateIsOfCaller, Live, TypeOK, SessionTypeOK
    <3>2. QueueIsOfCall'
      BY <1>2, <2>1, <2>4 DEF QueueIsOfCall
    <3>3. CallIsOfCaller'
      BY <1>2, <2>1, <2>4, <3>1 DEF CallIsOfCaller
    <3>4. StateIsOfCaller' /\ FileIsOfCaller'
      BY <1>2, <2>1, <2>4, <3>1 DEF StateIsOfCaller, FileIsOfCaller, Live, QuotaMet
    <3>. QED BY <1>2, <2>1, <2>4, <3>2, <3>3, <3>4
  <2>. QED BY <2>3, <2>4
<1>. QED BY <1>4, <1>5, <1>6, <1>7, <1>8, <1>9 DEF CallerStep

\* A call that returns: nothing is queued any more.
LEMMA ControlOfReturns ==
    ASSUME TypeInv, ControlInv, Return
    PROVE  ControlInv'
<1>. USE FieldsOfCalls
<1>. USE DEF ControlInv, OneCall
<1>0. TypeOK /\ Len(<< >>) <= 1
  BY EmptySeq DEF TypeInv
<1>1. CASE FileBegun
  <2>1. /\ call.kind = "beginFile" /\ call.at # "queued" /\ call' = NoCall
        /\ caller' = IF call.at = "ok" THEN "inFile" ELSE "doomed"
        /\ UNCHANGED <<fileNo, queue, appends, state, tier, dispose, created>>
        /\ IF call.at = "ok" THEN currentFile' = call.file ELSE UNCHANGED currentFile
    BY <1>1 DEF FileBegun, ReturnBeginFile, fileVars, tableVars
  <2>2. appends = {} /\ queue = << >> /\ call.file = fileNo /\ fileNo > 0
    BY <1>0, <2>1 DEF QueueIsOfCall, FileIsOfCaller
  <2>3. /\ call.at = "ok" => state = "open"
        /\ state # "finalized"
    BY <2>1, <2>2 DEF StateIsOfCaller, CallIsOfCaller, Live, QuotaMet, Outcomes
  <2>4. QueueIsOfCall' /\ CallIsOfCaller'
    BY <1>0, <2>1, <2>2 DEF QueueIsOfCall, CallIsOfCaller
  <2>5. StateIsOfCaller'
    BY <2>1, <2>2, <2>3 DEF StateIsOfCaller, Live, QuotaMet
  <2>6. FileIsOfCaller'
    BY <1>0, <2>1, <2>2 DEF FileIsOfCaller, Live, TypeOK
  <2>. QED BY <2>1, <2>2, <2>4, <2>5, <2>6
<1>2. CASE Appended
  <2>1. PICK a \in appends :
          /\ ReturnAppend(a)
          /\ caller' = IF a.at = "ok"
                       THEN IF caller = "filing" THEN "filed" ELSE caller
                       ELSE IF a.at = "quota" \/ caller = "filing" THEN "doomed"
                                                                  ELSE "fileFailed"
    BY <1>2 DEF Appended
  <2>2. /\ a.at # "queued" /\ appends' = appends \ {a}
        /\ UNCHANGED <<fileNo, queue, call, state, tier, dispose, created, currentFile>>
    BY <1>2, <2>1 DEF Appended, ReturnAppend, Outstanding, tableVars, fileVars
  <2>3. appends' = {} /\ call = NoCall /\ queue = << >> /\ caller \in {"inFile", "filing"}
    BY <2>1, <2>2 DEF QueueIsOfCall, CallIsOfCaller
  <2>4. /\ a.at = "quota" <=> QuotaMet
        /\ a.at = "quota" => state = "aborted"
        /\ a.at # "quota" => state = "open"
    BY <2>1, <2>3 DEF StateIsOfCaller, Live, QuotaMet
  <2>5. /\ caller = "inFile" => currentFile = fileNo /\ fileNo > 0
        /\ a.at # "quota" => currentFile <= fileNo
    BY <2>3, <2>4 DEF FileIsOfCaller, Live
  <2>6. QueueIsOfCall' /\ CallIsOfCaller'
    BY <1>0, <2>1, <2>2, <2>3 DEF QueueIsOfCall, CallIsOfCaller
  <2>7. StateIsOfCaller' /\ FileIsOfCaller'
    BY <2>1, <2>2, <2>3, <2>4, <2>5 DEF StateIsOfCaller, FileIsOfCaller, Live, QuotaMet
  <2>. QED BY <2>3, <2>6, <2>7
<1>3. CASE Discarded
  <2>1. /\ call.kind = "discard" /\ call.at \in {"deleting", "nothing", "error"} /\ call' = NoCall
        /\ caller' = IF call.at = "error" THEN "doomed" ELSE "between"
        /\ UNCHANGED <<fileNo, queue, appends, state, tier, dispose, created>>
        /\ call.at = "deleting" => currentFile' = None
    BY <1>3 DEF Discarded, ReturnDiscard, databaseVars
  <2>2. appends = {} /\ queue = << >> /\ call.at # "nothing" /\ caller = "fileFailed"
    BY <2>1 DEF QueueIsOfCall, CallIsOfCaller
  <2>3. state = "open"
    BY <2>1, <2>2 DEF StateIsOfCaller, Live, QuotaMet
  <2>4. QueueIsOfCall' /\ CallIsOfCaller'
    BY <1>0, <2>1, <2>2 DEF QueueIsOfCall, CallIsOfCaller
  <2>5. StateIsOfCaller'
    BY <2>1, <2>2, <2>3 DEF StateIsOfCaller, Live, QuotaMet
  <2>6. FileIsOfCaller'
    BY <1>0, <2>1, <2>2 DEF FileIsOfCaller, Live, QuotaMet, TypeOK, None
  <2>. QED BY <2>1, <2>2, <2>4, <2>5, <2>6
<1>4. CASE Finalized
  <2>1. /\ call' = NoCall /\ call.kind \in {"flushing", "finalize"} /\ call.at # "queued"
        /\ caller' = IF call.at = "swapping" THEN "idle" ELSE "doomed"
        /\ IF call.at \in {"error", "quota"} THEN state' = "failed" ELSE UNCHANGED state
        /\ call.at \in {"error", "quota", "swapping", "refused"}
        /\ UNCHANGED <<fileNo, queue, appends, tier, dispose, created, currentFile>>
    BY <1>4 DEF Finalized, ReturnFinalize, tableVars, fileVars
  <2>2. appends = {} /\ queue = << >> /\ caller = "filed" /\ call.at # "refused"
    BY <2>1 DEF QueueIsOfCall, CallIsOfCaller, Outcomes
  <2>3. call.at = "swapping" => state = "finalized"
    BY <2>1, <2>2 DEF StateIsOfCaller, Live, QuotaMet
  <2>4. QueueIsOfCall' /\ CallIsOfCaller'
    BY <1>0, <2>1, <2>2 DEF QueueIsOfCall, CallIsOfCaller
  <2>5. StateIsOfCaller' /\ FileIsOfCaller'
    BY <2>1, <2>2, <2>3 DEF StateIsOfCaller, FileIsOfCaller, Live, QuotaMet
  <2>. QED BY <2>1, <2>2, <2>4, <2>5
<1>5. CASE Aborted
  <2>1. /\ call' = NoCall /\ call.kind = "abort" /\ call.at # "queued" /\ caller' = "idle"
        /\ UNCHANGED <<fileNo, queue, appends, state, tier, dispose, created, currentFile>>
    BY <1>5 DEF Aborted, ReturnAbort, tableVars, fileVars
  <2>2. appends = {} /\ queue = << >> /\ state = "aborted"
    BY <2>1 DEF QueueIsOfCall, StateIsOfCaller
  <2>. QED BY <1>0, <2>1, <2>2 DEF QueueIsOfCall, CallIsOfCaller, StateIsOfCaller, FileIsOfCaller, Live, QuotaMet
<1>. QED BY <1>1, <1>2, <1>3, <1>4, <1>5 DEF Return

\* The operation that runs is that of the call under way.
LEMMA RunningIsOfCall ==
    ASSUME TypeOK, ControlInv
    PROVE  /\ Running("append") => call = NoCall /\ \E a \in appends :
                 /\ appends = {a} /\ a.at = "queued" /\ a.row = Head(queue).row
                 /\ a.table = Head(queue).table /\ (Head(queue).create => a.table \notin created)
           /\ \A op \in {"flush", "discard", "residual", "commit", "drop"} : Running(op) =>
                 appends = {} /\ call # NoCall /\ call.at = "queued"
           /\ Running("flush") => call.kind = "beginFile"
           /\ Running("discard") => call.kind = "discard" /\ Head(queue).file = currentFile
           /\ Running("residual") => call.kind = "flushing"
           /\ Running("commit") => call.kind = "finalize"
           /\ Running("drop") => call.kind = "abort"
<1>. USE DEF ControlInv, OneCall
<1>1. call.kind \in {"none", "beginFile", "discard", "flushing", "finalize", "abort"}
  BY DEF TypeOK, SessionTypeOK, SessionCalls
<1>2. ASSUME Running("append")
      PROVE  call = NoCall /\ appends # {}
  BY <1>1, <1>2 DEF Running, QueueIsOfCall, CallIsOfCaller
<1>3. ASSUME NEW op \in {"flush", "discard", "residual", "commit", "drop"}, Running(op)
      PROVE  appends = {} /\ call # NoCall /\ call.at = "queued"
  <2>1. appends = {}
    BY <1>3 DEF Running, QueueIsOfCall
  <2>. QED BY <1>3, <2>1 DEF Running, QueueIsOfCall
<1>4. ASSUME Running("append")
      PROVE  \E a \in appends :
                 /\ appends = {a} /\ a.at = "queued" /\ a.row = Head(queue).row
                 /\ a.table = Head(queue).table /\ (Head(queue).create => a.table \notin created)
  <2>1. PICK a \in appends : appends = {a}
    BY <1>2, <1>4
  <2>. QED BY <1>4, <2>1 DEF Running, QueueIsOfCall
<1>5. ASSUME NEW op \in {"flush", "discard", "residual", "commit", "drop"}, Running(op)
      PROVE  /\ op = "flush" => call.kind = "beginFile"
             /\ op = "discard" => call.kind = "discard" /\ Head(queue).file = currentFile
             /\ op = "residual" => call.kind = "flushing"
             /\ op = "commit" => call.kind = "finalize"
             /\ op = "drop" => call.kind = "abort"
  <2>1. call # NoCall /\ queue # << >> /\ Head(queue).op = op
    BY <1>3, <1>5 DEF Running
  <2>2. call.kind # "none"
    BY <2>1 DEF CallIsOfCaller
  <2>3. /\ call.kind = "beginFile" => op = "flush"
        /\ call.kind = "discard" => op = "discard" /\ Head(queue).file = currentFile
        /\ call.kind = "flushing" => op = "residual"
        /\ call.kind = "finalize" => op = "commit"
        /\ call.kind = "abort" => op = "drop"
    BY <2>1 DEF QueueIsOfCall
  <2>. QED BY <1>1, <2>2, <2>3
<1>. QED BY <1>2, <1>3, <1>4, <1>5

LEMMA AnsweredIs ==
    ASSUME TypeOK, NEW a \in appends, appends = {a}, a.row = Head(queue).row,
           NEW outcome, Answered(outcome)
    PROVE  \E b : appends' = {b} /\ b.row = a.row /\ b.table = a.table /\ b.at = outcome
<1>. DEFINE b == [a EXCEPT !.at = outcome]
<1>1. a \in AppendCalls
  BY DEF TypeOK, SessionTypeOK
<1>2. b.row = a.row /\ b.table = a.table /\ b.at = outcome
  BY <1>1 DEF AppendCalls
<1>3. appends' = {b}
  BY DEF Answered
<1>. HIDE DEF b
<1>. QED BY <1>2, <1>3

\* An operation gives the call under way its outcome, and ends the session only for want of room.
LEMMA ControlOfAppend ==
    ASSUME TypeInv, ControlInv, RunAppend, UNCHANGED callerVars
    PROVE  ControlInv'
<1>. USE DEF ControlInv, OneCall
<1>. USE FieldsOfCalls
<1>0. TypeOK
  BY DEF TypeInv
<1>1. Running("append")
  BY DEF RunAppend
<1>2. call = NoCall /\ queue' = << >> /\ Len(queue') <= 1
  BY <1>0, <1>1, RunningIsOfCall, OneOperation DEF QueueIsOfCall
<1>3. PICK a \in appends : appends = {a} /\ a.at = "queued" /\ a.row = Head(queue).row
                           /\ a.table = Head(queue).table
  BY <1>0, <1>1, RunningIsOfCall
<1>4. PICK outcome \in {"ok", "error", "quota"} :
          /\ Answered(outcome)
          /\ IF outcome = "quota" THEN state' = "aborted" ELSE UNCHANGED state
  <2>1. CASE Answered("error") /\ UNCHANGED <<state, storeVars, tableVars, fileVars>>
    BY <2>1
  <2>2. CASE Answered("ok") /\ UNCHANGED state
    BY <2>2
  <2>3. CASE \E due, staged, bytes : \E outcome \in {"ok", "error", "quota"} :
                 Answered(outcome) /\ RotateOrAbort(due, staged, bytes, TRUE, outcome)
    BY <2>3 DEF RotateOrAbort
  <2>. QED BY ONLY RunAppend, <2>1, <2>2, <2>3 DEF RunAppend
<1>5. PICK b : appends' = {b} /\ b.row = a.row /\ b.table = a.table /\ b.at = outcome
  BY <1>0, <1>3, <1>4, AnsweredIs
<1>6. UNCHANGED <<call, tier, dispose, currentFile, caller, fileNo>>
  BY DEF RunAppend, databaseVars, callerVars, fileVars
<1>7. caller \in {"inFile", "filing"} /\ state = "open" /\ ~QuotaMet /\ Live
  BY <1>2, <1>3 DEF CallIsOfCaller, StateIsOfCaller, Live, QuotaMet
<1>8. QueueIsOfCall' /\ CallIsOfCaller'
  BY <1>2, <1>3, <1>4, <1>5, <1>6, <1>7 DEF QueueIsOfCall, CallIsOfCaller
<1>9. StateIsOfCaller'
  BY <1>2, <1>3, <1>4, <1>5, <1>6, <1>7 DEF StateIsOfCaller, Live, QuotaMet
<1>10. FileIsOfCaller'
  BY <1>2, <1>6, <1>7 DEF FileIsOfCaller
<1>. QED BY <1>2, <1>5, <1>6, <1>8, <1>9, <1>10

LEMMA ControlOfOperations ==
    ASSUME TypeInv, ControlInv, RunOperation, UNCHANGED callerVars
    PROVE  ControlInv'
<1>. USE DEF ControlInv, OneCall
<1>. USE FieldsOfCalls
<1>0. TypeOK
  BY DEF TypeInv
<1>1. CASE RunAppend
  BY <1>1, ControlOfAppend
<1>2. CASE ~RunAppend
  <2>1. PICK op \in {"flush", "discard", "residual", "commit", "drop"} : Running(op)
    BY <1>2 DEF RunOperation, RunFlush, RunDiscard, RunResidual, RunCommit, RunDrop
  <2>2. /\ appends = {} /\ call # NoCall /\ call.at = "queued"
        /\ queue' = << >> /\ Len(queue') <= 1 /\ Head(queue).op = op /\ ~QuotaMet
    BY <1>0, <2>1, RunningIsOfCall, OneOperation DEF QueueIsOfCall, Running, QuotaMet
  <2>3. UNCHANGED <<appends, tier, dispose, currentFile, caller, fileNo>>
    BY <1>2 DEF RunOperation, RunFlush, RunDiscard, RunResidual, RunCommit, RunDrop,
                databaseVars, callerVars, fileVars
  <2>4. PICK outcome \in {"ok", "error", "quota"} :
          /\ Returns(outcome)
          /\ IF outcome = "quota" /\ op = "flush" THEN state' = "aborted" ELSE UNCHANGED state
          /\ outcome = "quota" => op \in {"flush", "residual"}
          /\ op = "drop" /\ outcome = "error" => dispose # "no"
    <3>1. CASE RunFlush
      BY <1>2, <2>2, <3>1 DEF RunFlush, Running, RotateOrAbort
    <3>2. CASE RunResidual
      BY <1>2, <2>2, <3>2 DEF RunResidual, Running, RotateOrAbort
    <3>3. CASE RunDiscard \/ RunCommit \/ RunDrop
      BY <1>2, <2>2, <3>3 DEF RunDiscard, RunCommit, RunDrop, Running, Refused, Unserved
    <3>. QED BY <1>2, <3>1, <3>2, <3>3 DEF RunOperation
  <2>5. call'.kind = call.kind /\ call'.at = outcome /\ call'.file = call.file
    BY <1>0, <2>4
  <2>6. /\ call.kind = "beginFile" <=> op = "flush"
        /\ call.kind = "flushing" <=> op = "residual"
        /\ call.kind = "abort" <=> op = "drop"
        /\ call.kind # "none"
    BY <1>0, <2>1, <2>2, RunningIsOfCall DEF CallIsOfCaller
  <2>7. QueueIsOfCall'
    BY <2>2, <2>3, <2>4, <2>5, <2>6 DEF QueueIsOfCall
  <2>8. CallIsOfCaller'
    BY <2>2, <2>3, <2>4, <2>5, <2>6 DEF CallIsOfCaller, Outcomes
  <2>9. StateIsOfCaller'
    BY <2>2, <2>3, <2>4, <2>5, <2>6 DEF StateIsOfCaller, CallIsOfCaller, Live, QuotaMet
  <2>10. FileIsOfCaller'
    BY <2>2, <2>3, <2>4, <2>5, <2>6 DEF FileIsOfCaller, CallIsOfCaller, Live, QuotaMet
  <2>. QED BY <2>2, <2>3, <2>7, <2>8, <2>9, <2>10
<1>. QED BY <1>1, <1>2

LEMMA ControlOfTheRest ==
    ASSUME TypeInv, ControlInv,
           (SessionStep /\ UNCHANGED callerVars) \/ Teardown \/ Rest \/ UNCHANGED vars
    PROVE  ControlInv'
<1>. USE DEF ControlInv, OneCall
<1>. USE FieldsOfCalls
<1>0. TypeOK
  BY DEF TypeInv
<1>1. CASE DiscardForgets /\ UNCHANGED callerVars
  <2>1. /\ call.kind = "discard" /\ call.at = "ok" /\ call'.kind = "discard" /\ call'.at = "deleting"
        /\ UNCHANGED <<queue, appends, created, currentFile, tier, state, dispose, caller, fileNo>>
    BY <1>0, <1>1 DEF DiscardForgets, databaseVars, fileVars, callerVars, TypeOK, SessionTypeOK, SessionCalls
  <2>2. call # NoCall /\ appends = {} /\ queue = << >>
    BY <2>1 DEF QueueIsOfCall
  <2>3. QueueIsOfCall' /\ CallIsOfCaller'
    BY <2>1, <2>2 DEF QueueIsOfCall, CallIsOfCaller
  <2>4. StateIsOfCaller' /\ FileIsOfCaller'
    BY <2>1, <2>2 DEF StateIsOfCaller, FileIsOfCaller, Live, QuotaMet
  <2>. QED BY <2>1, <2>2, <2>3, <2>4
<1>2. CASE FinalizeCommits /\ UNCHANGED callerVars
  <2>1. /\ call.kind = "flushing" /\ call.at = "ok" /\ Enqueue(Operation("commit", None))
        /\ call'.kind = "finalize" /\ call'.at = AtOnce /\ call' # NoCall
        /\ UNCHANGED <<appends, created, currentFile, tier, state, dispose, caller, fileNo>>
    BY <1>0, <1>2 DEF FinalizeCommits, databaseVars, tableVars, fileVars, callerVars
  <2>2. /\ appends = {} /\ queue = << >> /\ Operation("commit", None).op = "commit"
        /\ AtOnce = IF dispose = "no" THEN "queued" ELSE "error"
    BY <2>1 DEF QueueIsOfCall, AtOnce, Operation
  <2>3. QueueIsOfCall'
    BY <1>0, <2>1, <2>2, OneOperation DEF QueueIsOfCall
  <2>4. CallIsOfCaller'
    BY <2>1, <2>2 DEF CallIsOfCaller
  <2>5. StateIsOfCaller' /\ FileIsOfCaller'
    BY <2>1, <2>2 DEF StateIsOfCaller, FileIsOfCaller, CallIsOfCaller, Live, QuotaMet
  <2>. QED BY <2>1, <2>2, <2>3, <2>4, <2>5
<1>3. CASE FinalizeSwaps /\ UNCHANGED callerVars
  <2>1. /\ call.kind = "finalize" /\ call.at = "ok" /\ call'.kind = "finalize" /\ call'.at = "swapping"
        /\ UNCHANGED <<queue, appends, created, currentFile, tier, state, dispose, caller, fileNo>>
    BY <1>0, <1>3 DEF FinalizeSwaps, databaseVars, tableVars, fileVars, callerVars, TypeOK, SessionTypeOK, SessionCalls
  <2>2. call # NoCall /\ appends = {} /\ queue = << >>
    BY <2>1 DEF QueueIsOfCall
  <2>3. QueueIsOfCall' /\ CallIsOfCaller'
    BY <2>1, <2>2 DEF QueueIsOfCall, CallIsOfCaller
  <2>4. StateIsOfCaller' /\ FileIsOfCaller'
    BY <2>1, <2>2 DEF StateIsOfCaller, FileIsOfCaller, Live, QuotaMet
  <2>. QED BY <2>1, <2>2, <2>3, <2>4
<1>4. CASE Teardown
  <2>1. /\ UNCHANGED <<queue, appends, call, created, currentFile, tier, state, caller, fileNo>>
        /\ dispose' # "no"
    BY <1>4 DEF Teardown, Dispose, DisposeFinishes, sessionVars, callVars, callerVars, tableVars, fileVars
  <2>. QED BY <2>1 DEF QueueIsOfCall, CallIsOfCaller, StateIsOfCaller, FileIsOfCaller, Live, QuotaMet
<1>5. CASE Rest \/ UNCHANGED vars
  <2>1. UNCHANGED <<queue, appends, call, created, currentFile, tier, state, caller, fileNo, dispose>>
    BY <1>5 DEF Rest, vars, ingestVars, databaseVars, callVars, callerVars, tableVars, fileVars
  <2>. QED BY <2>1 DEF QueueIsOfCall, CallIsOfCaller, StateIsOfCaller, FileIsOfCaller, Live, QuotaMet
<1>. QED BY <1>1, <1>2, <1>3, <1>4, <1>5 DEF SessionStep, Teardown

LEMMA ControlHolds == Spec => []ControlInv
<1>1. TypeInv /\ ControlInv /\ [Next]_vars => ControlInv'
  BY ControlOfCalls, ControlOfReturns, ControlOfOperations, ControlOfTheRest DEF Next, DatabaseStep
<1>. QED BY <1>1, ControlAtFirst, TypesHold, PTL DEF Spec

-----------------------------------------------------------------------------
(* The store: which chunks the session tracks, which files a committed view scans, and     *)
(* what an ingest that is over has left.                                            *)

\* The swap transaction has committed, and the catalog does not know it yet.
Committed == call.kind = "finalize" /\ call.at = "ok"
FinalsGeneration == IF Committed THEN generation ELSE catalogGen

\* A generation's number tells it from the one the catalog shows.
GenerationsInv ==
    /\ catalogGen <= generation
    /\ caller # "idle" /\ call.at # "swapping" => catalogGen < generation
    /\ call.at = "swapping" => /\ call.prev < generation
                               /\ catalogGen = IF tier = "spill" THEN generation ELSE None

\* A tracked chunk has its table's next index behind it; rows are staged only where a
\* flush finds them.
StoreInv ==
    /\ \A t \in Tables : \A p \in chunkPaths[t] \cup fileChunks[t] :
           p[1] = generation /\ p[2] = t /\ p[3] < chunkIndex[t]
    /\ tier = "memory" => \A t \in Tables : chunkPaths[t] = {} /\ fileChunks[t] = {}
    /\ \A t \in Tables : chunkPaths[t] # {} => t \in created
    /\ \A t \in Tables : staging[t] # {} => t \in created /\ (tier = "spill" => stagedBytes[t] > 0)
    /\ call.at = "deleting" => \A t \in Tables : fileChunks[t] \cap chunkPaths[t] = {}
    /\ call.at = "deleting" => call.chunks = UNION {fileChunks[t] : t \in Tables}

\* The views scan files of one generation, and OPFS holds that of the catalog and of the
\* ingest only.
FilesInv == dispose # "done" =>
    /\ \A t \in Tables : \A p \in finals[t].paths : p \in DOMAIN opfs /\ p[1] = FinalsGeneration
    /\ \A p \in DOMAIN opfs : p[1] \in {catalogGen, generation} \/ (call.at = "swapping" /\ p[1] = call.prev)
    /\ tier = "memory" => \A p \in DOMAIN opfs : p[1] = generation => p[1] = catalogGen
    /\ Live => \A t \in Tables : chunkPaths[t] \subseteq DOMAIN opfs

OnlyCatalogFiles == \A p \in DOMAIN opfs : p[1] = catalogGen

CleanInv == dispose = "no" =>
    /\ state = "aborted" /\ queue = << >> => staging = Empty
    /\ Committed \/ call.at = "swapping" => staging = Empty
    /\ caller = "idle" => staging = Empty /\ OnlyCatalogFiles
    /\ caller = "doomed" /\ state = "aborted" /\ (call = NoCall \/ call.at = "nothing") => OnlyCatalogFiles

KeepInv == GenerationsInv /\ StoreInv /\ FilesInv /\ CleanInv

LEMMA KeptAtFirst == Init => KeepInv
<1>. SUFFICES ASSUME Init PROVE KeepInv
  OBVIOUS
<1>. USE FieldsOfCalls DEF Init, IngestInit
<1>1. GenerationsInv /\ StoreInv
  BY DEF GenerationsInv, StoreInv, None, Empty
<1>2. FilesInv /\ CleanInv
  BY DEF FilesInv, CleanInv, OnlyCatalogFiles, Empty, Live
<1>. QED BY <1>1, <1>2 DEF KeepInv

\* An ingest that opens finds only the catalog's files.
LEMMA OpensKeeps ==
    ASSUME TypeOK, ControlInv, KeepInv, Opens
    PROVE  KeepInv'
<1>. USE FieldsOfCalls
<1>1. PICK u \in Tiers : BeginIngest(generation + 1, u)
  BY DEF Opens
<1>2. /\ dispose = "no" /\ caller = "idle" /\ call = NoCall /\ UNCHANGED <<call, dispose, catalogGen, finals, opfs, staging>>
      /\ generation' = generation + 1 /\ caller' = "between" /\ state' = "open" /\ created' = {}
  BY <1>1 DEF Opens, Quiet, BeginIngest, callVars, catalogVars, storeVars
<1>3. chunkPaths' = Empty /\ fileChunks' = Empty
  BY <1>1 DEF BeginIngest
<1>4. staging = Empty /\ OnlyCatalogFiles
  BY <1>2 DEF KeepInv, CleanInv
<1>5. catalogGen \in Nat /\ generation \in Nat /\ catalogGen <= generation
  BY DEF KeepInv, GenerationsInv, TypeOK, SessionTypeOK, Generations, None
<1>6. GenerationsInv'
  BY <1>2, <1>5 DEF GenerationsInv
<1>7. StoreInv'
  BY <1>2, <1>3, <1>4 DEF StoreInv, Empty
<1>8. FilesInv'
  BY <1>2, <1>3, <1>4, <1>5 DEF KeepInv, FilesInv, OnlyCatalogFiles, FinalsGeneration, Committed, Empty
<1>9. CleanInv'
  BY <1>2 DEF CleanInv, Committed
<1>. QED BY <1>6, <1>7, <1>8, <1>9 DEF KeepInv

\* Making a call touches no file and no staged row.
LEMMA CallsKeep ==
    ASSUME TypeOK, ControlInv, KeepInv, CallerStep
    PROVE  KeepInv'
<1>. USE FieldsOfCalls
<1>1. Quiet /\ caller # "idle"
  BY DEF CallerStep, BeginsFile, Appends, AppendsFiles, Discards, Finalizes, Aborts
<1>2. queue = << >> /\ ~QuotaMet /\ call = NoCall /\ appends = {}
  BY <1>1, QuietQueue DEF Quiet
<1>3. UNCHANGED <<dispose, catalogGen, finals, opfs, staging, generation, tier, created, stagedBytes, chunkIndex,
                  chunkPaths, fileChunks>>
  BY DEF CallerStep, BeginsFile, Appends, AppendsFiles, Discards, Finalizes, Aborts, CallBeginFile, CallAppend,
         CallDiscard, CallFinalize, CallAbort, databaseVars, catalogVars, storeVars, tableVars, fileVars
<1>4. AtOnce \in {"queued", "error"}
  BY DEF AtOnce
<1>5. /\ call'.at \notin {"swapping", "deleting"} /\ ~Committed' /\ caller' # "idle"
      /\ caller' = "doomed" => caller = "doomed"
  <2>1. CASE BeginsFile
    BY <1>4, <2>1 DEF BeginsFile, CallBeginFile, Committed
  <2>2. CASE Appends \/ AppendsFiles
    BY <1>2, <2>2 DEF Appends, AppendsFiles, CallAppend, Committed
  <2>3. CASE Discards
    BY <1>4, <2>3 DEF Discards, CallDiscard, Committed
  <2>4. CASE Finalizes
    BY <1>4, <2>4 DEF Finalizes, CallFinalize, Committed, callerVars
  <2>5. CASE Aborts
    BY <1>1, <1>4, <2>5 DEF Aborts, CallAbort, Committed, callerVars
  <2>. QED BY <2>1, <2>2, <2>3, <2>4, <2>5 DEF CallerStep
<1>6. caller' # "doomed" => Live
  BY <1>1, <1>2 DEF CallerStep, BeginsFile, Appends, AppendsFiles, Discards, Finalizes, Aborts, callerVars, Live
<1>7. dispose = "no" /\ state' = "aborted" /\ (queue' = << >> \/ call' = NoCall \/ call'.at = "nothing")
        => state = "aborted"
  <2>1. CASE Aborts
    <3>1. dispose = "no" /\ Abortable => queue' # << >> /\ call' # NoCall /\ call'.at # "nothing"
      BY <1>2, <1>4, <2>1, OneOperation DEF Aborts, CallAbort
    <3>. QED BY <2>1, <3>1 DEF Aborts, CallAbort
  <2>2. CASE ~Aborts
    BY <2>2 DEF CallerStep, BeginsFile, Appends, AppendsFiles, Discards, Finalizes, CallBeginFile, CallAppend,
                CallDiscard, CallFinalize
  <2>. QED BY <2>1, <2>2
<1>8. Live' => Live
  BY <1>5, <1>6 DEF Live
<1>9. GenerationsInv' /\ StoreInv'
  BY <1>1, <1>2, <1>3, <1>5 DEF KeepInv, GenerationsInv, StoreInv
<1>10. FilesInv'
  BY <1>2, <1>3, <1>5, <1>8 DEF KeepInv, FilesInv, FinalsGeneration, Committed
<1>11. CleanInv'
  BY <1>2, <1>3, <1>5, <1>7 DEF KeepInv, CleanInv, OnlyCatalogFiles
<1>. QED BY <1>9, <1>10, <1>11 DEF KeepInv

\* Deleting a generation spares the files of the others.
LEMMA DeletedGeneration ==
    ASSUME TypeOK, NEW g, opfs' = Deleted(OfGenerations({g}))
    PROVE  DOMAIN opfs' = {p \in DOMAIN opfs : p[1] # g}
  BY DEF Deleted, OfGenerations

\* A session that ran out of room has deleted its generation; the catalog's is another.
LEMMA ReclaimKeeps ==
    ASSUME TypeOK, KeepInv, NEW outcome, ReclaimOnQuota(outcome), caller # "idle",
           call.at # "swapping", ~Committed
    PROVE  /\ DOMAIN opfs' \subseteq DOMAIN opfs
           /\ dispose # "done" => \A t \in Tables : finals[t].paths \subseteq DOMAIN opfs'
           /\ dispose # "done" /\ outcome = "quota" => \A p \in DOMAIN opfs' : p[1] = catalogGen
           /\ outcome # "quota" => opfs' = opfs
<1>1. CASE outcome = "quota"
  <2>1. DOMAIN opfs' = {p \in DOMAIN opfs : p[1] # generation}
    BY <1>1, DeletedGeneration DEF ReclaimOnQuota
  <2>2. catalogGen < generation /\ catalogGen \in Nat /\ generation \in Nat
    BY DEF KeepInv, GenerationsInv, TypeOK, SessionTypeOK, Generations, None
  <2>. QED BY <1>1, <2>1, <2>2 DEF KeepInv, FilesInv, FinalsGeneration
<1>2. CASE outcome # "quota"
  BY <1>2 DEF ReclaimOnQuota, KeepInv, FilesInv
<1>. QED BY <1>1, <1>2

LEMMA FileBegunKeeps ==
    ASSUME TypeOK, ControlInv, KeepInv, FileBegun
    PROVE  KeepInv'
<1>. USE FieldsOfCalls
<1>1. /\ call.kind = "beginFile" /\ call.at # "queued" /\ call' = NoCall /\ ReclaimOnQuota(call.at)
      /\ caller' = IF call.at = "ok" THEN "inFile" ELSE "doomed"
      /\ UNCHANGED <<dispose, catalogGen, finals, staging, generation, tier, state, created, stagedBytes, chunkIndex,
                     chunkPaths>>
      /\ fileChunks' = IF call.at = "ok" THEN Empty ELSE fileChunks
  BY DEF FileBegun, ReturnBeginFile, catalogVars, tableVars, fileVars
<1>2. /\ caller \in {"between", "inFile"} /\ call.at \in Outcomes /\ ~Committed /\ ~Committed'
      /\ appends = {} /\ queue = << >> /\ UNCHANGED appends
  BY <1>1 DEF ControlInv, OneCall, CallIsOfCaller, QueueIsOfCall, Committed, FileBegun, ReturnBeginFile
<1>3. call.at # "quota" => Live /\ state = "open"
  BY <1>1, <1>2 DEF ControlInv, StateIsOfCaller, Live, QuotaMet
<1>4. Live' => Live
  BY <1>1, <1>2 DEF Live, QuotaMet
<1>5. /\ DOMAIN opfs' \subseteq DOMAIN opfs
      /\ dispose # "done" => \A t \in Tables : finals[t].paths \subseteq DOMAIN opfs'
      /\ dispose # "done" /\ call.at = "quota" => \A p \in DOMAIN opfs' : p[1] = catalogGen
      /\ call.at # "quota" => opfs' = opfs
  BY <1>1, <1>2, ReclaimKeeps DEF Outcomes
<1>6. GenerationsInv'
  BY <1>1, <1>2 DEF KeepInv, GenerationsInv, Outcomes
<1>7. StoreInv'
  BY <1>1 DEF KeepInv, StoreInv, Empty
<1>8. FilesInv'
  BY <1>1, <1>2, <1>4, <1>5 DEF KeepInv, FilesInv, FinalsGeneration, Outcomes, Live
<1>9. CleanInv'
  BY <1>1, <1>2, <1>3, <1>5 DEF KeepInv, CleanInv, OnlyCatalogFiles, FileBegun, ReturnBeginFile
<1>. QED BY <1>6, <1>7, <1>8, <1>9 DEF KeepInv

LEMMA AppendedKeeps ==
    ASSUME TypeOK, ControlInv, KeepInv, Appended
    PROVE  KeepInv'
<1>. USE FieldsOfCalls
<1>1. PICK a \in appends :
          /\ ReturnAppend(a)
          /\ caller' = IF a.at = "ok"
                       THEN IF caller = "filing" THEN "filed" ELSE caller
                       ELSE IF a.at = "quota" \/ caller = "filing" THEN "doomed"
                                                                  ELSE "fileFailed"
  BY DEF Appended
<1>2. /\ a.at # "queued" /\ appends' = appends \ {a} /\ ReclaimOnQuota(a.at)
      /\ UNCHANGED <<dispose, catalogGen, finals, staging, generation, tier, state, created, stagedBytes, chunkIndex,
                     chunkPaths, fileChunks, call, queue>>
  BY <1>1 DEF ReturnAppend, Outstanding, catalogVars, tableVars, fileVars
<1>3. /\ caller \in {"inFile", "filing"} /\ call = NoCall /\ ~Committed /\ ~Committed' /\ appends' = {} /\ queue = << >>
      /\ caller' # "idle"
  BY <1>1, <1>2 DEF ControlInv, OneCall, CallIsOfCaller, QueueIsOfCall, Committed
<1>4. a.at # "quota" => Live /\ state = "open"
  BY <1>1, <1>3 DEF ControlInv, OneCall, StateIsOfCaller, Live, QuotaMet
<1>5. Live' => Live
  BY <1>1, <1>2, <1>3, <1>4 DEF Live
<1>6. /\ DOMAIN opfs' \subseteq DOMAIN opfs
      /\ dispose # "done" => \A t \in Tables : finals[t].paths \subseteq DOMAIN opfs'
      /\ dispose # "done" /\ a.at = "quota" => \A p \in DOMAIN opfs' : p[1] = catalogGen
      /\ a.at # "quota" => opfs' = opfs
  BY <1>2, <1>3, ReclaimKeeps
<1>7. GenerationsInv' /\ StoreInv'
  BY <1>2, <1>3 DEF KeepInv, GenerationsInv, StoreInv
<1>8. FilesInv'
  BY <1>1, <1>2, <1>3, <1>5, <1>6 DEF KeepInv, FilesInv, FinalsGeneration, Live
<1>9. CleanInv'
  BY <1>2, <1>3, <1>4, <1>6 DEF KeepInv, CleanInv, OnlyCatalogFiles
<1>. QED BY <1>7, <1>8, <1>9 DEF KeepInv

\* The discarded file's chunks are tracked no more when they are deleted, and no view scans them.
LEMMA DiscardedKeeps ==
    ASSUME TypeOK, ControlInv, KeepInv, Discarded
    PROVE  KeepInv'
<1>. USE FieldsOfCalls
<1>1. /\ call.kind = "discard" /\ call.at \in {"deleting", "nothing", "error"} /\ call' = NoCall
      /\ caller' = IF call.at = "error" THEN "doomed" ELSE "between"
      /\ UNCHANGED <<dispose, catalogGen, finals, staging, generation, tier, state, created, stagedBytes, chunkIndex,
                     chunkPaths, appends, queue>>
      /\ IF call.at = "deleting" THEN opfs' = Deleted(call.chunks) /\ fileChunks' = Empty
         ELSE UNCHANGED <<opfs, fileChunks>>
  BY DEF Discarded, ReturnDiscard, catalogVars, fileVars, databaseVars
<1>2. caller = "fileFailed" /\ Live /\ state = "open" /\ ~Committed /\ ~Committed' /\ call.at # "nothing"
  BY <1>1 DEF ControlInv, OneCall, CallIsOfCaller, StateIsOfCaller, QueueIsOfCall, Live, QuotaMet, Committed
<1>3. /\ DOMAIN opfs' \subseteq DOMAIN opfs
      /\ \A p \in DOMAIN opfs : p \in DOMAIN opfs' \/ (call.at = "deleting" /\ p \in call.chunks)
  <2>1. CASE call.at = "deleting"
    BY <1>1, <2>1 DEF Deleted
  <2>2. CASE call.at # "deleting"
    BY <1>1, <2>2
  <2>. QED BY <2>1, <2>2
<1>4. call.at = "deleting" => \A p \in call.chunks : p[1] = generation /\ \A t \in Tables : p \notin chunkPaths[t]
  <2>. SUFFICES ASSUME call.at = "deleting", NEW p \in call.chunks
                PROVE  p[1] = generation /\ \A t \in Tables : p \notin chunkPaths[t]
    OBVIOUS
  <2>1. PICK u \in Tables : p \in fileChunks[u]
    BY DEF KeepInv, StoreInv
  <2>. QED BY <2>1 DEF KeepInv, StoreInv
<1>5. catalogGen < generation /\ catalogGen \in Nat /\ generation \in Nat
  BY <1>1, <1>2 DEF KeepInv, GenerationsInv, TypeOK, SessionTypeOK, Generations, None
<1>6. GenerationsInv'
  BY <1>1, <1>2 DEF KeepInv, GenerationsInv
<1>7. StoreInv'
  BY <1>1 DEF KeepInv, StoreInv, Empty
<1>8. FilesInv'
  <2>. SUFFICES ASSUME dispose # "done" PROVE FilesInv'
    BY <1>1 DEF FilesInv
  <2>1. \A t \in Tables : \A p \in finals[t].paths : p \in DOMAIN opfs' /\ p[1] = catalogGen
    BY <1>2, <1>3, <1>4, <1>5 DEF KeepInv, FilesInv, FinalsGeneration
  <2>2. \A t \in Tables : chunkPaths[t] \subseteq DOMAIN opfs'
    BY <1>2, <1>3, <1>4 DEF KeepInv, FilesInv
  <2>3. \A p \in DOMAIN opfs : p[1] \in {catalogGen, generation} /\ (tier = "memory" /\ p[1] = generation => p[1] = catalogGen)
    BY <1>1, <1>2 DEF KeepInv, FilesInv
  <2>. QED BY <1>1, <1>2, <1>3, <2>1, <2>2, <2>3 DEF FilesInv, FinalsGeneration
<1>9. CleanInv'
  BY <1>1, <1>2 DEF CleanInv
<1>. QED BY <1>6, <1>7, <1>8, <1>9 DEF KeepInv

\* Finalize returns: the generation it displaced goes, and the views scan another.
LEMMA FinalizedKeeps ==
    ASSUME TypeOK, ControlInv, KeepInv, Finalized
    PROVE  KeepInv'
<1>. USE FieldsOfCalls
<1>1. /\ call' = NoCall /\ call.kind \in {"flushing", "finalize"} /\ call.at \in {"error", "quota", "swapping", "refused"}
      /\ caller' = IF call.at = "swapping" THEN "idle" ELSE "doomed"
      /\ IF call.at \in {"error", "quota"} THEN state' = "failed" ELSE UNCHANGED state
      /\ IF call.at = "swapping" THEN opfs' = Deleted(OfGenerations({call.prev})) ELSE UNCHANGED opfs
      /\ UNCHANGED <<dispose, catalogGen, finals, staging, generation, tier, created, stagedBytes, chunkIndex,
                     chunkPaths, fileChunks, appends, queue>>
  BY DEF Finalized, ReturnFinalize, catalogVars, tableVars, fileVars, DisplacedGeneration
<1>2. caller = "filed" /\ ~Committed /\ ~Committed' /\ call.at # "refused"
  BY <1>1 DEF ControlInv, OneCall, CallIsOfCaller, QueueIsOfCall, Committed, Outcomes
<1>3. ~Live'
  BY <1>1 DEF Live
<1>4. /\ catalogGen <= generation /\ catalogGen \in Nat /\ generation \in Nat
      /\ call.at # "swapping" => catalogGen < generation
      /\ call.at = "swapping" => call.prev < generation /\ catalogGen = IF tier = "spill" THEN generation ELSE 0
  BY <1>1, <1>2 DEF KeepInv, GenerationsInv, TypeOK, SessionTypeOK, Generations, None
<1>5. \A p \in DOMAIN opfs : p[1] \in Nat \ {0}
  BY DEF TypeOK, SessionTypeOK, Paths, Generations
<1>6. call.at = "swapping" => DOMAIN opfs' = {p \in DOMAIN opfs : p[1] # call.prev}
  BY <1>1, DeletedGeneration
<1>7. GenerationsInv' /\ StoreInv'
  BY <1>1, <1>2, <1>4 DEF KeepInv, GenerationsInv, StoreInv
<1>8. FilesInv' /\ CleanInv'
  <2>1. CASE call.at = "swapping"
    <3>1. dispose # "done" =>
             /\ \A t \in Tables : \A p \in finals[t].paths : p \in DOMAIN opfs' /\ p[1] = catalogGen
             /\ \A p \in DOMAIN opfs' : p[1] = catalogGen
      <4>. SUFFICES ASSUME dispose # "done"
                    PROVE  /\ \A t \in Tables : \A p \in finals[t].paths : p \in DOMAIN opfs' /\ p[1] = catalogGen
                           /\ \A p \in DOMAIN opfs' : p[1] = catalogGen
        OBVIOUS
      <4>1. \A t \in Tables : \A p \in finals[t].paths : p \in DOMAIN opfs /\ p[1] = catalogGen
        BY <1>2 DEF KeepInv, FilesInv, FinalsGeneration
      <4>2. \A p \in DOMAIN opfs : p[1] = catalogGen => p[1] # call.prev
        BY <1>4, <1>5, <2>1
      <4>3. \A p \in DOMAIN opfs' : p \in DOMAIN opfs /\ p[1] \in {catalogGen, generation}
        BY <1>6, <2>1 DEF KeepInv, FilesInv
      <4>4. \A p \in DOMAIN opfs : p[1] = generation => p[1] = catalogGen
        BY <1>4, <2>1 DEF KeepInv, FilesInv, TypeOK, SessionTypeOK, Tiers
      <4>. QED BY <1>6, <2>1, <4>1, <4>2, <4>3, <4>4
    <3>2. dispose = "no" => staging = Empty
      BY <2>1 DEF KeepInv, CleanInv
    <3>. QED BY <1>1, <1>2, <1>3, <2>1, <3>1, <3>2 DEF FilesInv, CleanInv, FinalsGeneration, OnlyCatalogFiles,
                                                   TypeOK, SessionTypeOK
  <2>2. CASE call.at # "swapping"
    BY <1>1, <1>2, <1>3, <2>2 DEF KeepInv, FilesInv, CleanInv, FinalsGeneration
  <2>. QED BY <2>1, <2>2
<1>. QED BY <1>7, <1>8 DEF KeepInv

\* An abort that returns has emptied the staging tables and deleted its generation.
LEMMA AbortedKeeps ==
    ASSUME TypeOK, ControlInv, KeepInv, Aborted
    PROVE  KeepInv'
<1>. USE FieldsOfCalls
<1>1. /\ call' = NoCall /\ call.kind = "abort" /\ call.at # "queued" /\ caller' = "idle"
      /\ opfs' = IF call.at = "ok" /\ tier = "spill" THEN Deleted(OfGenerations({generation})) ELSE opfs
      /\ UNCHANGED <<dispose, catalogGen, finals, staging, generation, tier, state, created, stagedBytes, chunkIndex,
                     chunkPaths, fileChunks, appends, queue>>
  BY DEF Aborted, ReturnAbort, catalogVars, tableVars, fileVars
<1>2. /\ caller # "idle" /\ ~Committed /\ ~Committed' /\ ~Live' /\ state = "aborted" /\ queue = << >>
      /\ call.at \in {"ok", "error", "nothing"} /\ (call.at = "nothing" => caller = "doomed")
      /\ call.at = "error" => dispose # "no"
  BY <1>1 DEF ControlInv, OneCall, CallIsOfCaller, StateIsOfCaller, QueueIsOfCall, Committed, Live
<1>3. catalogGen < generation /\ catalogGen \in Nat /\ generation \in Nat
  BY <1>2 DEF KeepInv, GenerationsInv, TypeOK, SessionTypeOK, Generations, None
<1>4. call.at = "ok" /\ tier = "spill" => DOMAIN opfs' = {p \in DOMAIN opfs : p[1] # generation}
  BY <1>1, DeletedGeneration
<1>5. dispose # "done" =>
         /\ \A t \in Tables : \A p \in finals[t].paths : p \in DOMAIN opfs' /\ p[1] = catalogGen
         /\ \A p \in DOMAIN opfs : p[1] \in {catalogGen, generation}
         /\ tier = "memory" => \A p \in DOMAIN opfs : p[1] = catalogGen
  <2>. SUFFICES ASSUME dispose # "done"
                PROVE  /\ \A t \in Tables : \A p \in finals[t].paths : p \in DOMAIN opfs' /\ p[1] = catalogGen
                       /\ \A p \in DOMAIN opfs : p[1] \in {catalogGen, generation}
                       /\ tier = "memory" => \A p \in DOMAIN opfs : p[1] = catalogGen
    OBVIOUS
  <2>1. \A t \in Tables : \A p \in finals[t].paths : p \in DOMAIN opfs /\ p[1] = catalogGen
    BY <1>2 DEF KeepInv, FilesInv, FinalsGeneration
  <2>2. \A p \in DOMAIN opfs : p[1] = catalogGen => p \in DOMAIN opfs'
    <3>1. CASE call.at = "ok" /\ tier = "spill"
      BY <1>3, <1>4, <3>1
    <3>2. CASE ~(call.at = "ok" /\ tier = "spill")
      <4>1. opfs' = opfs
        BY <1>1, <3>2
      <4>. QED BY <4>1
    <3>. QED BY <3>1, <3>2
  <2>3. \A p \in DOMAIN opfs : p[1] \in {catalogGen, generation}
    BY <1>1, <1>2 DEF KeepInv, FilesInv
  <2>4. tier = "memory" => \A p \in DOMAIN opfs : p[1] = catalogGen
    BY <2>3 DEF KeepInv, FilesInv
  <2>. QED BY <2>1, <2>2, <2>3, <2>4
<1>6. DOMAIN opfs' \subseteq DOMAIN opfs
  BY <1>1, <1>4
<1>7. GenerationsInv' /\ StoreInv'
  BY <1>1, <1>2 DEF KeepInv, GenerationsInv, StoreInv
<1>8. FilesInv'
  BY <1>1, <1>2, <1>5, <1>6 DEF FilesInv, FinalsGeneration
<1>9. dispose = "no" => staging = Empty /\ \A p \in DOMAIN opfs' : p[1] = catalogGen
  <2>. SUFFICES ASSUME dispose = "no" PROVE staging = Empty /\ \A p \in DOMAIN opfs' : p[1] = catalogGen
    OBVIOUS
  <2>1. staging = Empty
    BY <1>2 DEF KeepInv, CleanInv
  <2>2. CASE call.at = "nothing"
    BY <1>1, <1>2, <2>2 DEF KeepInv, CleanInv, OnlyCatalogFiles
  <2>3. CASE call.at = "ok"
    BY <1>1, <1>4, <1>5, <2>1, <2>3 DEF TypeOK, SessionTypeOK, Tiers
  <2>. QED BY <1>2, <2>1, <2>2, <2>3
<1>10. CleanInv'
  BY <1>1, <1>2, <1>9 DEF CleanInv, OnlyCatalogFiles
<1>. QED BY <1>7, <1>8, <1>10 DEF KeepInv

\* What a rotation keeps: a chunk is tracked by its table under the next index, its file
\* exists, and what is left in a staging table is known to be there.
RotateKept ==
    /\ \A t \in Tables : \A p \in chunkPaths'[t] \cup fileChunks'[t] :
           p[1] = generation /\ p[2] = t /\ p[3] < chunkIndex'[t]
    /\ \A t \in Tables : chunkPaths'[t] # {} => t \in created'
    /\ \A t \in Tables : staging'[t] # {} => t \in created' /\ stagedBytes'[t] > 0
    /\ DOMAIN opfs \subseteq DOMAIN opfs' /\ \A p \in DOMAIN opfs' : p \in DOMAIN opfs \/ p[1] = generation
    /\ \A t \in Tables : chunkPaths[t] \subseteq DOMAIN opfs => chunkPaths'[t] \subseteq DOMAIN opfs'

LEMMA RotateKeeps ==
    ASSUME TypeOK, StoreInv, NEW due \in SUBSET created', created \subseteq created',
           NEW staged \in [Tables -> SUBSET Rows], NEW bytes \in [Tables -> Nat],
           \A t \in Tables : staged[t] # {} => t \in created' /\ bytes[t] > 0,
           created' \subseteq Tables, NEW aborts \in BOOLEAN, NEW outcome, RotateOrAbort(due, staged, bytes, aborts, outcome)
    PROVE  RotateKept /\ (outcome = "quota" /\ aborts => staging' = Empty)
<1>1. PICK done \in SUBSET due : \E copied \in SUBSET (due \ done) :
           /\ Rotate(done, copied, staged, bytes)
           /\ IF outcome = "quota" /\ aborts
              THEN state' = "aborted" /\ DropStaging
              ELSE UNCHANGED state /\ staging' = Emptied(done, staged)
  BY DEF RotateOrAbort
<1>2. PICK copied \in SUBSET (due \ done) :
           /\ Rotate(done, copied, staged, bytes)
           /\ IF outcome = "quota" /\ aborts
              THEN state' = "aborted" /\ DropStaging
              ELSE UNCHANGED state /\ staging' = Emptied(done, staged)
  BY <1>1
<1>3. \A t \in Tables : NextPath(t)[1] = generation /\ NextPath(t)[2] = t /\ NextPath(t)[3] = chunkIndex[t]
  BY DEF NextPath
<1>4. ASSUME NEW t \in Tables
      PROVE  /\ chunkIndex'[t] = IF t \in done THEN chunkIndex[t] + 1 ELSE chunkIndex[t]
             /\ chunkPaths'[t] = IF t \in done THEN chunkPaths[t] \cup {NextPath(t)} ELSE chunkPaths[t]
             /\ fileChunks'[t] = IF t \in done /\ currentFile # None
                                 THEN fileChunks[t] \cup {NextPath(t)} ELSE fileChunks[t]
             /\ stagedBytes'[t] = IF t \in done THEN 0 ELSE bytes[t]
             /\ chunkIndex[t] \in Nat
  BY <1>2 DEF Rotate, TypeOK, SessionTypeOK
<1>5. DOMAIN opfs' = DOMAIN opfs \cup {NextPath(t) : t \in done \cup copied}
  BY <1>2 DEF Rotate
<1>6. ASSUME NEW t \in Tables, NEW p \in chunkPaths'[t] \cup fileChunks'[t]
      PROVE  p[1] = generation /\ p[2] = t /\ p[3] < chunkIndex'[t]
  <2>1. CASE p \in chunkPaths[t] \cup fileChunks[t]
    <3>1. p[1] = generation /\ p[2] = t /\ p[3] < chunkIndex[t] /\ p[3] \in Nat
      BY <2>1 DEF StoreInv, TypeOK, SessionTypeOK, Paths
    <3>2. chunkIndex[t] \in Nat /\ (chunkIndex'[t] = chunkIndex[t] \/ chunkIndex'[t] = chunkIndex[t] + 1)
      BY <1>4
    <3>. QED BY <3>1, <3>2
  <2>2. CASE t \in done /\ p = NextPath(t)
    <3>1. chunkIndex[t] \in Nat /\ chunkIndex'[t] = chunkIndex[t] + 1
      BY <1>4, <2>2
    <3>2. p[1] = generation /\ p[2] = t /\ p[3] = chunkIndex[t]
      BY <1>3, <2>2
    <3>. QED BY <3>1, <3>2
  <2>. QED BY <1>4, <1>6, <2>1, <2>2
<1>7. ASSUME NEW t \in Tables
      PROVE  chunkPaths'[t] # {} => t \in created'
  BY <1>4 DEF StoreInv
<1>8. ASSUME NEW t \in Tables
      PROVE  staging'[t] # {} => t \in created' /\ stagedBytes'[t] > 0
  <2>1. staging'[t] # {} => staging'[t] = staged[t] /\ t \notin done
    BY <1>2 DEF DropStaging, Emptied, Empty
  <2>. QED BY <1>4, <2>1
<1>9. DOMAIN opfs \subseteq DOMAIN opfs' /\ \A p \in DOMAIN opfs' : p \in DOMAIN opfs \/ p[1] = generation
  BY <1>3, <1>5
<1>10. ASSUME NEW t \in Tables
       PROVE  chunkPaths[t] \subseteq DOMAIN opfs => chunkPaths'[t] \subseteq DOMAIN opfs'
  BY <1>4, <1>5
<1>11. outcome = "quota" /\ aborts => staging' = Empty
  BY <1>2 DEF DropStaging
<1>. QED BY <1>6, <1>7, <1>8, <1>9, <1>10, <1>11 DEF RotateKept

LEMMA AppendKeeps ==
    ASSUME TypeOK, ControlInv, KeepInv, RunAppend, UNCHANGED callerVars
    PROVE  KeepInv'
<1>. USE FieldsOfCalls
<1>1. Running("append")
  BY DEF RunAppend
<1>2. /\ call = NoCall /\ UNCHANGED <<dispose, catalogGen, finals, generation, tier, call, caller>>
      /\ ~Committed /\ ~Committed' /\ appends # {} /\ queue \in Seq(Operations)
  BY <1>1, RunningIsOfCall DEF RunAppend, databaseVars, catalogVars, callerVars, Committed, TypeOK, SessionTypeOK
<1>3. caller \in {"inFile", "filing"} /\ state = "open" /\ Live
  <2>1. PICK a \in appends : appends = {a} /\ a.at = "queued"
    BY <1>1, RunningIsOfCall
  <2>2. caller \in {"inFile", "filing"} /\ ~QuotaMet
    BY <1>2, <2>1 DEF ControlInv, CallIsOfCaller, QuotaMet
  <2>. QED BY <1>2, <2>2 DEF ControlInv, StateIsOfCaller, Live
<1>. DEFINE t == Head(queue).table
            staged == [staging EXCEPT ![t] = @ \cup {Head(queue).row}]
            bytes == [stagedBytes EXCEPT ![t] = @ + 1]
<1>4. t \in Tables /\ Head(queue).row \in Rows
  <2>1. Head(queue) \in Operations
    BY <1>1, <1>2, QueueType
  <2>. QED BY <2>1 DEF Operations
<1>5. staged \in [Tables -> SUBSET Rows] /\ bytes \in [Tables -> Nat] /\ stagedBytes \in [Tables -> Nat]
  BY <1>4 DEF TypeOK, SessionTypeOK
<1>6. /\ \A u \in Tables : u # t => staged[u] = staging[u] /\ bytes[u] = stagedBytes[u]
      /\ bytes[t] > 0
  BY <1>4, <1>5
<1>7. GenerationsInv'
  BY <1>2 DEF KeepInv, GenerationsInv
<1>8. CASE UNCHANGED <<state, storeVars, tableVars, fileVars>>
  <2>1. StoreInv'
    BY <1>2, <1>8 DEF KeepInv, StoreInv, storeVars, tableVars, fileVars
  <2>2. FilesInv'
    BY <1>2, <1>3, <1>8 DEF KeepInv, FilesInv, FinalsGeneration, storeVars, tableVars
  <2>3. CleanInv'
    BY <1>2, <1>3, <1>8 DEF CleanInv
  <2>. QED BY <1>7, <2>1, <2>2, <2>3 DEF KeepInv
<1>9. CASE /\ created' = created \cup {t} /\ UNCHANGED <<opfs, chunkIndex, chunkPaths, fileChunks, state>>
           /\ staging' = staged
           /\ stagedBytes' = IF tier = "memory" THEN stagedBytes ELSE bytes
  <2>1. \A u \in Tables : staging'[u] # {} => u \in created' /\ (tier = "spill" => stagedBytes'[u] > 0)
    <3>. SUFFICES ASSUME NEW u \in Tables, staging'[u] # {}
                  PROVE  u \in created' /\ (tier = "spill" => stagedBytes'[u] > 0)
      OBVIOUS
    <3>1. CASE u = t
      <4>. HIDE DEF t, staged, bytes
      <4>. QED BY <1>6, <1>9, <3>1
    <3>2. CASE u # t
      <4>. HIDE DEF t, staged, bytes
      <4>. QED BY <1>6, <1>9, <3>2 DEF KeepInv, StoreInv
    <3>. QED BY <3>1, <3>2
  <2>2. StoreInv'
    <3>. HIDE DEF t, staged, bytes
    <3>. QED BY <1>2, <1>9, <2>1 DEF KeepInv, StoreInv
  <2>3. FilesInv'
    BY <1>2, <1>3, <1>9 DEF KeepInv, FilesInv, FinalsGeneration
  <2>4. CleanInv'
    BY <1>2, <1>3, <1>9 DEF CleanInv
  <2>. QED BY <1>7, <2>2, <2>3, <2>4 DEF KeepInv
<1>10. CASE /\ created' = created \cup {t} /\ tier # "memory"
            /\ \E outcome \in {"ok", "error", "quota"} :
                 Answered(outcome) /\ RotateOrAbort({t}, staged, bytes, TRUE, outcome)
  <2>1. PICK outcome \in {"ok", "error", "quota"} :
          Answered(outcome) /\ RotateOrAbort({t}, staged, bytes, TRUE, outcome)
    BY <1>10
  <2>2. \A u \in Tables : staged[u] # {} => u \in created' /\ bytes[u] > 0
    <3>1. \A u \in Tables : u # t => staged[u] = staging[u] /\ bytes[u] = stagedBytes[u]
      BY <1>6
    <3>2. tier = "spill"
      BY <1>10 DEF TypeOK, SessionTypeOK, Tiers
    <3>. HIDE DEF t, staged, bytes
    <3>. QED BY <1>6, <1>10, <3>1, <3>2 DEF KeepInv, StoreInv
  <2>3. {t} \in SUBSET created' /\ created \subseteq created' /\ created' \subseteq Tables
    <3>. HIDE DEF t
    <3>. QED BY <1>4, <1>10 DEF TypeOK, SessionTypeOK
  <2>. HIDE DEF t, staged, bytes
  <2>4. RotateKept /\ (outcome = "quota" => staging' = Empty)
    <3>1. PICK due \in SUBSET created', aborts \in BOOLEAN :
             aborts = TRUE /\ RotateOrAbort(due, staged, bytes, aborts, outcome)
      BY <2>1, <2>3
    <3>2. RotateKept /\ (outcome = "quota" /\ aborts => staging' = Empty)
      BY ZenonT(60), <1>5, <2>2, <2>3, <3>1, RotateKeeps DEF KeepInv
    <3>. QED BY <3>1, <3>2
  <2>5. outcome # "quota" => state' = "open"
    BY <1>3, <2>1 DEF RotateOrAbort
  <2>6. StoreInv'
    BY <1>2, <1>10, <2>4 DEF RotateKept, StoreInv
  <2>7. FilesInv'
    BY <1>2, <1>3, <1>10, <2>4 DEF RotateKept, KeepInv, FilesInv, FinalsGeneration
  <2>8. CleanInv'
    BY <1>2, <1>3, <2>4, <2>5 DEF CleanInv
  <2>. QED BY <1>7, <2>6, <2>7, <2>8 DEF KeepInv
<1>. QED BY <1>8, <1>9, <1>10 DEF RunAppend

\* A flush at a file's start or at finalize, of a spill ingest.
LEMMA FlushKeeps ==
    ASSUME TypeOK, ControlInv, KeepInv, RunFlush \/ RunResidual, UNCHANGED callerVars
    PROVE  KeepInv'
<1>. USE FieldsOfCalls
<1>1. PICK op \in {"flush", "residual"} : Running(op)
  BY DEF RunFlush, RunResidual
<1>2. UNCHANGED <<dispose, catalogGen, finals, generation, tier, caller, created, appends>>
  BY DEF RunFlush, RunResidual, databaseVars, catalogVars, callerVars
<1>3. /\ call.kind \in {"beginFile", "flushing"} /\ call.at = "queued" /\ appends = {}
      /\ caller # "idle" /\ caller # "doomed" /\ tier = "spill" /\ Live /\ state # "aborted"
  <2>1. call.kind \in {"beginFile", "flushing"} /\ call.at = "queued" /\ appends = {}
    BY <1>1, RunningIsOfCall
  <2>2. caller \in {"between", "inFile", "filed"} /\ tier = "spill" /\ ~QuotaMet
    BY <2>1 DEF ControlInv, CallIsOfCaller, QuotaMet
  <2>. QED BY <2>1, <2>2 DEF ControlInv, StateIsOfCaller, Live
<1>4. PICK outcome \in {"ok", "error", "quota"} :
          /\ Returns(outcome)
          /\ \/ outcome = "error" /\ UNCHANGED <<state, storeVars, stagedBytes, chunkIndex, chunkPaths, fileChunks>>
             \/ RotateOrAbort(Due, staging, stagedBytes, TRUE, outcome)
             \/ call.kind = "flushing" /\ RotateOrAbort(Due, staging, stagedBytes, FALSE, outcome)
  <2>1. CASE RunFlush
    BY <2>1 DEF RunFlush
  <2>2. CASE RunResidual
    <3>1. Running("residual")
      BY <2>2 DEF RunResidual
    <3>. QED BY <2>2, <3>1, RunningIsOfCall DEF RunResidual
  <2>. QED BY <2>1, <2>2
<1>5. call'.kind = call.kind /\ call'.at = outcome
  BY <1>4
<1>6. ~Committed /\ ~Committed'
  BY <1>3, <1>5 DEF Committed
<1>7. GenerationsInv'
  BY <1>2, <1>3, <1>5 DEF KeepInv, GenerationsInv
<1>8. CASE UNCHANGED <<state, storeVars, stagedBytes, chunkIndex, chunkPaths, fileChunks>>
  <2>1. StoreInv'
    BY <1>2, <1>3, <1>5, <1>8 DEF KeepInv, StoreInv, storeVars
  <2>2. FilesInv'
    BY <1>2, <1>3, <1>5, <1>6, <1>8 DEF KeepInv, FilesInv, FinalsGeneration, storeVars
  <2>3. CleanInv'
    BY <1>2, <1>3, <1>5, <1>6, <1>8 DEF CleanInv
  <2>. QED BY <1>7, <2>1, <2>2, <2>3 DEF KeepInv
<1>9. CASE ~UNCHANGED <<state, storeVars, stagedBytes, chunkIndex, chunkPaths, fileChunks>>
  <2>1. PICK aborts \in BOOLEAN : /\ RotateOrAbort(Due, staging, stagedBytes, aborts, outcome)
                                  /\ aborts = FALSE => call.kind = "flushing"
    BY <1>4, <1>9
  <2>2. Due \in SUBSET created' /\ created \subseteq created' /\ created' \subseteq Tables
    BY <1>2 DEF Due, TypeOK, SessionTypeOK
  <2>3. \A t \in Tables : staging[t] # {} => t \in created' /\ stagedBytes[t] > 0
    BY <1>2, <1>3 DEF KeepInv, StoreInv
  <2>4. staging \in [Tables -> SUBSET Rows] /\ stagedBytes \in [Tables -> Nat]
    BY DEF TypeOK, SessionTypeOK
  <2>5. RotateKept /\ (outcome = "quota" /\ aborts => staging' = Empty)
    BY <2>1, <2>2, <2>3, <2>4, RotateKeeps DEF KeepInv
  <2>6. ~(outcome = "quota" /\ aborts) => state' = state
    BY <2>1 DEF RotateOrAbort
  <2>7. StoreInv'
    BY <1>2, <1>3, <1>5, <2>5 DEF RotateKept, StoreInv
  <2>8. FilesInv'
    BY <1>2, <1>3, <1>5, <1>6, <2>5 DEF RotateKept, KeepInv, FilesInv, FinalsGeneration
  <2>9. CleanInv'
    BY <1>2, <1>3, <1>5, <1>6, <2>5, <2>6 DEF CleanInv
  <2>. QED BY <1>7, <2>7, <2>8, <2>9 DEF KeepInv
<1>. QED BY <1>8, <1>9

\* A discard's deletes take rows from staging tables only.
LEMMA DiscardKeeps ==
    ASSUME TypeOK, ControlInv, KeepInv, RunDiscard, UNCHANGED callerVars
    PROVE  KeepInv'
<1>. USE FieldsOfCalls
<1>1. Running("discard") /\ UNCHANGED <<dispose, catalogGen, finals, generation, tier, state, caller, created, opfs,
                                       chunkIndex, chunkPaths, fileChunks>>
  BY DEF RunDiscard, databaseVars, catalogVars, fileVars, callerVars
<1>2. call.kind = "discard" /\ call.at = "queued" /\ appends = {} /\ appends' = appends
  BY <1>1, RunningIsOfCall DEF RunDiscard
<1>3. caller = "fileFailed" /\ state = "open" /\ Live
  <2>1. caller = "fileFailed" /\ ~QuotaMet
    BY <1>2 DEF ControlInv, CallIsOfCaller, QuotaMet
  <2>. QED BY <1>2, <2>1 DEF ControlInv, StateIsOfCaller, Live
<1>4. call'.kind = "discard" /\ call'.at \in {"ok", "error"}
  <2>1. Returns("ok") \/ Returns("error")
    BY DEF RunDiscard
  <2>. QED BY <1>2, <2>1
<1>5. \A t \in Tables : staging'[t] # {} => staging[t] # {} /\ (tier = "spill" => stagedBytes'[t] = stagedBytes[t])
  <2>1. CASE Unserved
    BY <2>1 DEF RunDiscard
  <2>2. CASE ~Unserved
    <3>1. PICK emptied \in SUBSET created :
             /\ staging' = [t \in Tables |->
                   IF t \notin emptied THEN staging[t]
                   ELSE IF tier = "spill" THEN {}
                   ELSE {r \in staging[t] : r.file # Head(queue).file}]
             /\ stagedBytes' = [t \in Tables |->
                   IF t \in emptied /\ tier = "spill" THEN 0 ELSE stagedBytes[t]]
      BY <2>2 DEF RunDiscard
    <3>2. ASSUME NEW t \in Tables, staging'[t] # {}
          PROVE  staging[t] # {} /\ (tier = "spill" => stagedBytes'[t] = stagedBytes[t])
      <4>1. CASE t \in emptied
        BY <3>1, <3>2, <4>1
      <4>2. CASE t \notin emptied
        BY <3>1, <3>2, <4>2
      <4>. QED BY <4>1, <4>2
    <3>. QED BY <3>2
  <2>. QED BY <2>1, <2>2
<1>6. GenerationsInv'
  BY <1>1, <1>2, <1>4 DEF KeepInv, GenerationsInv
<1>7. StoreInv'
  BY <1>1, <1>4, <1>5 DEF KeepInv, StoreInv
<1>8. FilesInv'
  BY <1>1, <1>2, <1>3, <1>4 DEF KeepInv, FilesInv, FinalsGeneration, Committed
<1>9. CleanInv'
  BY <1>1, <1>3, <1>4 DEF CleanInv, Committed
<1>. QED BY <1>6, <1>7, <1>8, <1>9 DEF KeepInv

\* The swap transaction commits views over the chunks the session tracks.
LEMMA CommitKeeps ==
    ASSUME TypeOK, ControlInv, KeepInv, RunCommit, UNCHANGED callerVars
    PROVE  KeepInv'
<1>. USE FieldsOfCalls
<1>1. Running("commit") /\ UNCHANGED <<dispose, catalogGen, generation, tier, state, caller, created, opfs,
                                       stagedBytes, chunkIndex, chunkPaths, fileChunks, appends>>
  BY DEF RunCommit, databaseVars, tableVars, fileVars, callerVars
<1>2. call.kind = "finalize" /\ call.at = "queued" /\ appends = {}
  BY <1>1, RunningIsOfCall
<1>3. caller = "filed" /\ state = "finalized" /\ Live
  <2>1. caller = "filed" /\ ~QuotaMet
    BY <1>2 DEF ControlInv, CallIsOfCaller, QuotaMet
  <2>. QED BY <1>2, <2>1 DEF ControlInv, StateIsOfCaller, Live
<1>4. GenerationsInv'
  <2>1. call'.at # "swapping"
    <3>1. Returns("ok") \/ Returns("error")
      BY DEF RunCommit
    <3>. QED BY <3>1
  <2>. QED BY <1>1, <1>2, <2>1 DEF KeepInv, GenerationsInv
<1>5. CASE Returns("error") /\ UNCHANGED <<finals, staging>>
  <2>1. call'.kind = "finalize" /\ call'.at = "error"
    BY <1>2, <1>5
  <2>2. StoreInv'
    BY <1>1, <1>5, <2>1 DEF KeepInv, StoreInv
  <2>3. FilesInv'
    BY <1>1, <1>2, <1>3, <1>5, <2>1 DEF KeepInv, FilesInv, FinalsGeneration, Committed
  <2>4. CleanInv'
    BY <1>1, <1>3, <2>1 DEF CleanInv, Committed
  <2>. QED BY <1>4, <2>2, <2>3, <2>4 DEF KeepInv
<1>6. CASE Returns("ok") /\ finals' = [t \in Tables |-> FinalOf(t)] /\ DropStaging
  <2>1. call'.kind = "finalize" /\ call'.at = "ok"
    BY <1>2, <1>6
  <2>2. StoreInv'
    BY <1>1, <1>6, <2>1 DEF KeepInv, StoreInv, DropStaging, Empty
  <2>3. FilesInv'
    <3>. SUFFICES ASSUME dispose # "done" PROVE FilesInv'
      BY <1>1 DEF FilesInv
    <3>1. \A t \in Tables : finals'[t].paths \subseteq chunkPaths[t]
      BY <1>6 DEF FinalOf
    <3>2. \A t \in Tables : \A p \in finals'[t].paths : p \in DOMAIN opfs /\ p[1] = generation
      BY <1>3, <3>1 DEF KeepInv, FilesInv, StoreInv
    <3>. QED BY <1>1, <1>2, <1>3, <2>1, <3>2 DEF KeepInv, FilesInv, FinalsGeneration, Committed
  <2>4. CleanInv'
    BY <1>1, <1>3, <1>6 DEF CleanInv, DropStaging
  <2>. QED BY <1>4, <2>2, <2>3, <2>4 DEF KeepInv
<1>. QED BY <1>5, <1>6 DEF RunCommit

LEMMA DropKeeps ==
    ASSUME TypeOK, ControlInv, KeepInv, RunDrop, UNCHANGED callerVars
    PROVE  KeepInv'
<1>. USE FieldsOfCalls
<1>1. Running("drop") /\ UNCHANGED <<dispose, catalogGen, finals, generation, tier, state, caller, created, opfs,
                                     stagedBytes, chunkIndex, chunkPaths, fileChunks, appends>>
  BY DEF RunDrop, databaseVars, catalogVars, tableVars, fileVars, callerVars
<1>2. call.kind = "abort" /\ call.at = "queued" /\ caller # "idle" /\ ~Live
  BY <1>1, RunningIsOfCall DEF ControlInv, CallIsOfCaller, Live
<1>3. /\ call'.kind = "abort" /\ call'.at \in {"ok", "error"} /\ call' # NoCall
      /\ call'.at = "ok" => staging' = Empty
      /\ call'.at = "error" => dispose # "no" /\ staging' = staging
  <2>1. CASE Refused /\ Returns("error") /\ UNCHANGED staging
    BY <1>2, <2>1 DEF Refused
  <2>2. CASE Returns("ok") /\ DropStaging
    BY <1>2, <2>2 DEF DropStaging
  <2>. QED BY <2>1, <2>2 DEF RunDrop
<1>4. GenerationsInv'
  BY <1>1, <1>2, <1>3 DEF KeepInv, GenerationsInv
<1>5. StoreInv'
  BY <1>1, <1>3 DEF KeepInv, StoreInv, Empty
<1>6. FilesInv'
  BY <1>1, <1>2, <1>3 DEF KeepInv, FilesInv, FinalsGeneration, Committed, Live
<1>7. CleanInv'
  BY <1>1, <1>2, <1>3 DEF CleanInv, Committed
<1>. QED BY <1>4, <1>5, <1>6, <1>7 DEF KeepInv

\* The catalog takes up the generation its views scan; disposal is the end of every view.
LEMMA TheRestKeeps ==
    ASSUME TypeOK, ControlInv, KeepInv,
           (SessionStep /\ UNCHANGED callerVars) \/ Teardown \/ Rest \/ UNCHANGED vars
    PROVE  KeepInv'
<1>. USE FieldsOfCalls
<1>1. CASE DiscardForgets /\ UNCHANGED callerVars
  <2>1. /\ call.kind = "discard" /\ call.at = "ok" /\ call'.kind = "discard" /\ call'.at = "deleting"
        /\ call'.chunks = UNION {fileChunks[t] : t \in Tables} /\ call' # NoCall
        /\ \A t \in Tables : chunkPaths'[t] = chunkPaths[t] \ fileChunks[t]
        /\ UNCHANGED <<dispose, catalogGen, finals, generation, tier, state, caller, created, opfs, staging,
                       stagedBytes, chunkIndex, fileChunks, appends>>
    BY <1>1 DEF DiscardForgets, databaseVars, catalogVars, storeVars, fileVars, callerVars, TypeOK, SessionTypeOK, SessionCalls
  <2>2. caller = "fileFailed" /\ state = "open" /\ Live
    <3>1. caller = "fileFailed" /\ appends = {} /\ ~QuotaMet
      BY <2>1 DEF ControlInv, OneCall, CallIsOfCaller, QuotaMet
    <3>. QED BY <2>1, <3>1 DEF ControlInv, StateIsOfCaller, Live
  <2>3. GenerationsInv' /\ StoreInv'
    BY <2>1 DEF KeepInv, GenerationsInv, StoreInv
  <2>4. FilesInv'
    BY <2>1, <2>2 DEF KeepInv, FilesInv, FinalsGeneration, Committed
  <2>5. CleanInv'
    BY <2>1, <2>2 DEF CleanInv, Committed
  <2>. QED BY <2>3, <2>4, <2>5 DEF KeepInv
<1>2. CASE FinalizeCommits /\ UNCHANGED callerVars
  <2>1. /\ call.kind = "flushing" /\ call.at = "ok" /\ call'.kind = "finalize" /\ call'.at \in {"queued", "error"}
        /\ UNCHANGED <<dispose, catalogGen, finals, generation, tier, state, caller, created, opfs, staging,
                       stagedBytes, chunkIndex, chunkPaths, fileChunks, appends>>
    BY <1>2 DEF FinalizeCommits, databaseVars, catalogVars, storeVars, tableVars, fileVars, callerVars, AtOnce
  <2>2. caller = "filed" /\ state = "finalized" /\ Live
    <3>1. caller = "filed" /\ appends = {} /\ ~QuotaMet
      BY <2>1 DEF ControlInv, OneCall, CallIsOfCaller, QuotaMet
    <3>. QED BY <2>1, <3>1 DEF ControlInv, StateIsOfCaller, Live
  <2>3. GenerationsInv' /\ StoreInv'
    BY <2>1 DEF KeepInv, GenerationsInv, StoreInv
  <2>4. FilesInv'
    BY <2>1, <2>2 DEF KeepInv, FilesInv, FinalsGeneration, Committed
  <2>5. CleanInv'
    BY <2>1, <2>2 DEF CleanInv, Committed
  <2>. QED BY <2>3, <2>4, <2>5 DEF KeepInv
<1>3. CASE FinalizeSwaps /\ UNCHANGED callerVars
  <2>1. /\ call.kind = "finalize" /\ call.at = "ok" /\ call'.kind = "finalize" /\ call'.at = "swapping"
        /\ call'.prev = catalogGen /\ catalogGen' = IF tier = "spill" THEN generation ELSE None
        /\ UNCHANGED <<dispose, finals, generation, tier, state, caller, created, opfs, staging,
                       stagedBytes, chunkIndex, chunkPaths, fileChunks, appends>>
    BY <1>3 DEF FinalizeSwaps, databaseVars, catalogVars, storeVars, tableVars, fileVars, callerVars,
                TypeOK, SessionTypeOK, SessionCalls
  <2>2. caller = "filed" /\ state = "finalized" /\ Live
    <3>1. caller = "filed" /\ appends = {} /\ ~QuotaMet
      BY <2>1 DEF ControlInv, OneCall, CallIsOfCaller, QuotaMet
    <3>. QED BY <2>1, <3>1 DEF ControlInv, StateIsOfCaller, Live
  <2>3. catalogGen < generation /\ catalogGen \in Nat /\ generation \in Nat
    BY <2>1, <2>2 DEF KeepInv, GenerationsInv, TypeOK, SessionTypeOK, Generations, None
  <2>4. GenerationsInv' /\ StoreInv'
    BY <2>1, <2>3 DEF KeepInv, GenerationsInv, StoreInv, None
  <2>5. FilesInv'
    <3>. SUFFICES ASSUME dispose # "done" PROVE FilesInv'
      BY <2>1 DEF FilesInv
    <3>1. \A t \in Tables : \A p \in finals[t].paths : p \in DOMAIN opfs /\ p[1] = generation
      BY <2>1 DEF KeepInv, FilesInv, FinalsGeneration, Committed
    <3>2. tier = "memory" => \A p \in DOMAIN opfs : p[1] # generation
      BY <2>3 DEF KeepInv, FilesInv
    <3>3. \A t \in Tables : \A p \in finals[t].paths : p[1] = catalogGen'
      BY <2>1, <3>1, <3>2 DEF TypeOK, SessionTypeOK, Tiers
    <3>4. \A p \in DOMAIN opfs : p[1] \in {catalogGen, generation}
      BY <2>1 DEF KeepInv, FilesInv
    <3>5. \A t \in Tables : chunkPaths[t] \subseteq DOMAIN opfs
      BY <2>2 DEF KeepInv, FilesInv
    <3>. QED BY <2>1, <3>1, <3>2, <3>3, <3>4, <3>5 DEF FilesInv, FinalsGeneration, Committed
  <2>6. CleanInv'
    BY <2>1, <2>2 DEF KeepInv, CleanInv, Committed
  <2>. QED BY <2>4, <2>5, <2>6 DEF KeepInv
<1>4. CASE Dispose /\ UNCHANGED callerVars
  <2>1. /\ dispose = "no" /\ dispose' = "marked"
        /\ UNCHANGED <<catalogGen, finals, generation, tier, state, caller, created, opfs, staging,
                       stagedBytes, chunkIndex, chunkPaths, fileChunks, appends, call>>
    BY <1>4 DEF Dispose, catalogVars, storeVars, sessionVars, tableVars, fileVars, callVars, callerVars
  <2>2. GenerationsInv' /\ StoreInv'
    BY <2>1 DEF KeepInv, GenerationsInv, StoreInv
  <2>3. FilesInv' /\ CleanInv'
    BY <2>1 DEF KeepInv, FilesInv, CleanInv, FinalsGeneration, Committed, Live, QuotaMet
  <2>. QED BY <2>2, <2>3 DEF KeepInv
<1>5. CASE DisposeFinishes /\ UNCHANGED callerVars
  <2>1. /\ dispose' = "done"
        /\ UNCHANGED <<catalogGen, finals, generation, tier, state, caller, created, staging,
                       stagedBytes, chunkIndex, chunkPaths, fileChunks, appends, call>>
    BY <1>5 DEF DisposeFinishes, catalogVars, sessionVars, tableVars, fileVars, callVars, callerVars
  <2>. QED BY <2>1 DEF KeepInv, GenerationsInv, StoreInv, FilesInv, CleanInv
<1>6. CASE Rest \/ UNCHANGED vars
  <2>1. UNCHANGED <<dispose, catalogGen, finals, generation, tier, state, caller, created, opfs, staging,
                    stagedBytes, chunkIndex, chunkPaths, fileChunks, appends, call, queue>>
    BY <1>6 DEF Rest, vars, ingestVars, databaseVars, catalogVars, storeVars, tableVars, fileVars, callVars, callerVars
  <2>2. GenerationsInv' /\ StoreInv'
    BY <2>1 DEF KeepInv, GenerationsInv, StoreInv
  <2>3. FilesInv' /\ CleanInv'
    BY <2>1 DEF KeepInv, FilesInv, CleanInv, FinalsGeneration, Committed, OnlyCatalogFiles, Live, QuotaMet
  <2>. QED BY <2>2, <2>3 DEF KeepInv
<1>. QED BY <1>1, <1>2, <1>3, <1>4, <1>5, <1>6 DEF SessionStep, Teardown

LEMMA KeepHolds == Spec => []KeepInv
<1>1. TypeInv /\ ControlInv /\ KeepInv /\ [Next]_vars => KeepInv'
  <2>. SUFFICES ASSUME TypeOK, ControlInv, KeepInv, [Next]_vars
                PROVE  KeepInv'
    BY DEF TypeInv
  <2>1. CASE Opens \/ CallerStep
    BY <2>1, OpensKeeps, CallsKeep
  <2>2. CASE Return
    BY <2>2, FileBegunKeeps, AppendedKeeps, DiscardedKeeps, FinalizedKeeps, AbortedKeeps DEF Return
  <2>3. CASE RunOperation /\ UNCHANGED callerVars
    BY <2>3, AppendKeeps, FlushKeeps, DiscardKeeps, CommitKeeps, DropKeeps DEF RunOperation
  <2>4. CASE (SessionStep /\ UNCHANGED callerVars) \/ Teardown \/ Rest \/ UNCHANGED vars
    BY <2>4, TheRestKeeps
  <2>. QED BY <2>1, <2>2, <2>3, <2>4 DEF Next, DatabaseStep
<1>. QED BY <1>1, KeptAtFirst, ControlHolds, TypesHold, PTL DEF Spec

-----------------------------------------------------------------------------
(* Theorems.                                                                 *)

\* No query ever scans a chunk that is gone: a discard, an abort, a failed or superseded
\* ingest, and the reclaiming of the generation a swap displaced (ingest-session.ts) delete
\* only files that no committed view scans.
THEOREM NoViewDangles == Spec => []NoDanglingView
<1>1. KeepInv => NoDanglingView
  BY DEF KeepInv, FilesInv, NoDanglingView
<1>. QED BY <1>1, KeepHolds, PTL

\* An ingest that is over, however it ended and whatever failed, has left no staged row and
\* no file but the committed generation's.
THEOREM IngestsCleanUp == Spec => []NothingLeftBehind
<1>1. TypeInv /\ KeepInv => NothingLeftBehind
  BY DEF TypeInv, KeepInv, CleanInv, OnlyCatalogFiles, NothingLeftBehind
<1>. QED BY <1>1, TypesHold, KeepHolds, PTL


-----------------------------------------------------------------------------
(* The row an append call carries.                                          *)

\* An appended row is of the current file, or of none for _files, and newer than every row
\* accepted before it.
AppendInv ==
    /\ \A a \in appends :
          /\ a.row.file = IF caller = "filing" THEN None ELSE currentFile
          /\ a.table = FilesTable <=> caller = "filing"
          /\ a.row.n = IF caller = "filing" THEN rowNo + 1 ELSE rowNo
          /\ \A r \in accepted : r.n < a.row.n
    /\ caller \notin {"filed", "doomed", "idle"} => \A r \in accepted : r.n <= rowNo

LEMMA AppendRowsAtFirst == Init => AppendInv
  BY DEF Init, IngestInit, AppendInv

LEMMA AppendRowsKept ==
    ASSUME TypeOK, ControlInv, AppendInv, Next \/ UNCHANGED vars
    PROVE  AppendInv'
<1>1. \A r \in accepted : r.n \in Nat
  BY IngestAssumption DEF TypeOK, Rows
<1>2. rowNo \in Nat
  BY IngestAssumption DEF TypeOK
<1>3. CASE Opens
  BY <1>3 DEF Opens, Quiet, BeginIngest, callVars, AppendInv
<1>4. CASE Appends
  <2>1. PICK t \in Tables \ {FilesTable} : CallAppend(t, [file |-> fileNo, n |-> rowNo + 1])
    BY <1>4 DEF Appends
  <2>. DEFINE row == [file |-> fileNo, n |-> rowNo + 1]
  <2>2. row.file = fileNo /\ row.n = rowNo + 1
    OBVIOUS
  <2>3. /\ caller = "inFile" /\ caller' = "inFile" /\ rowNo' = rowNo + 1
        /\ UNCHANGED <<currentFile, accepted>> /\ appends = {} /\ call = NoCall
    BY <1>4, <2>1 DEF Appends, Quiet, CallAppend, fileVars
  <2>4. \A a \in appends' : a.row = row /\ a.table = t
    <3>. HIDE DEF row
    <3>. QED BY <2>1, <2>3 DEF CallAppend, row
  <2>5. currentFile = fileNo
    BY <2>3, FieldsOfCalls DEF ControlInv, FileIsOfCaller
  <2>. HIDE DEF row
  <2>. QED BY <1>1, <1>2, <2>2, <2>3, <2>4, <2>5 DEF AppendInv
<1>5. CASE AppendsFiles
  <2>. DEFINE row == [file |-> None, n |-> rowNo + 1]
  <2>1. row.file = None /\ row.n = rowNo + 1
    OBVIOUS
  <2>2. /\ caller \in {"inFile", "between"} /\ caller' = "filing"
        /\ UNCHANGED <<rowNo, accepted>> /\ appends = {}
    BY <1>5 DEF AppendsFiles, Quiet
  <2>3. \A a \in appends' : a.row = row /\ a.table = FilesTable
    BY <1>5, <2>2 DEF AppendsFiles, CallAppend
  <2>. HIDE DEF row
  <2>. QED BY <1>1, <1>2, <2>1, <2>2, <2>3 DEF AppendInv
<1>6. CASE BeginsFile \/ Discards \/ Finalizes \/ Aborts
  <2>1. /\ appends = {} /\ UNCHANGED <<appends, rowNo, accepted>>
        /\ caller' = caller \/ caller = "inFile"
    BY <1>6 DEF BeginsFile, Discards, Finalizes, Aborts, Quiet, CallBeginFile, CallDiscard, CallFinalize, CallAbort,
                callerVars
  <2>. QED BY <2>1 DEF AppendInv
<1>7. CASE FileBegun \/ Discarded \/ Finalized \/ Aborted
  <2>1. /\ call # NoCall /\ UNCHANGED <<appends, rowNo>> /\ accepted' \subseteq accepted
        /\ caller' \in {"doomed", "idle"} \/ caller \notin {"filed", "doomed", "idle"}
    <3>1. call.kind \in {"beginFile", "discard", "flushing", "finalize", "abort"}
      BY <1>7 DEF FileBegun, Discarded, Finalized, Aborted, ReturnBeginFile, ReturnDiscard, ReturnFinalize, ReturnAbort
    <3>2. UNCHANGED <<appends, rowNo>> /\ accepted' \subseteq accepted
      BY <1>7 DEF FileBegun, Discarded, Finalized, Aborted, ReturnBeginFile, ReturnDiscard, ReturnFinalize, ReturnAbort
    <3>3. caller' \in {"doomed", "idle"} \/ call.kind \in {"beginFile", "discard"}
      BY <1>7 DEF FileBegun, Discarded, Finalized, Aborted, ReturnBeginFile, ReturnDiscard
    <3>. QED BY <3>1, <3>2, <3>3, FieldsOfCalls DEF ControlInv, CallIsOfCaller
  <2>2. appends = {}
    BY <2>1 DEF ControlInv, OneCall
  <2>. QED BY <2>1, <2>2 DEF AppendInv
<1>8. CASE Appended
  <2>1. PICK a \in appends :
          /\ ReturnAppend(a)
          /\ accepted' = IF a.at = "ok" THEN accepted \cup {a.row} ELSE accepted
          /\ caller' = IF a.at = "ok"
                       THEN IF caller = "filing" THEN "filed" ELSE caller
                       ELSE IF a.at = "quota" \/ caller = "filing" THEN "doomed"
                                                                  ELSE "fileFailed"
    BY <1>8 DEF Appended
  <2>2. appends' = {} /\ rowNo' = rowNo /\ caller \in {"inFile", "filing"}
    BY <1>8, <2>1 DEF Appended, ReturnAppend, ControlInv, OneCall, CallIsOfCaller
  <2>3. caller = "inFile" => a.row.n = rowNo
    BY DEF AppendInv
  <2>. QED BY <1>1, <1>2, <2>1, <2>2, <2>3 DEF AppendInv
<1>9. CASE RunAppend /\ UNCHANGED callerVars
  <2>1. PICK a \in appends : appends = {a} /\ a.row = Head(queue).row
    BY <1>9, RunningIsOfCall DEF RunAppend
  <2>2. PICK outcome : Answered(outcome)
    BY <1>9 DEF RunAppend
  <2>3. PICK b : appends' = {b} /\ b.row = a.row /\ b.table = a.table
    BY <2>1, <2>2, AnsweredIs
  <2>4. UNCHANGED <<caller, rowNo, accepted, currentFile>>
    BY <1>9 DEF RunAppend, callerVars, fileVars
  <2>. QED BY <2>1, <2>3, <2>4 DEF AppendInv
<1>10. CASE \/ ((RunFlush \/ RunDiscard \/ RunResidual \/ RunCommit \/ RunDrop \/ SessionStep) /\ UNCHANGED callerVars)
            \/ Teardown \/ Rest \/ UNCHANGED vars
  <2>1. UNCHANGED <<caller, rowNo, accepted, currentFile, appends>>
    BY <1>10 DEF RunFlush, RunDiscard, RunResidual, RunCommit, RunDrop, SessionStep, DiscardForgets, FinalizeCommits,
       FinalizeSwaps, Teardown, Dispose, DisposeFinishes, Rest, vars, ingestVars, callerVars, fileVars, callVars, sessionVars
  <2>. QED BY <2>1 DEF AppendInv
<1>. QED BY <1>3, <1>4, <1>5, <1>6, <1>7, <1>8, <1>9, <1>10 DEF Next, CallerStep, Return, DatabaseStep, RunOperation

LEMMA AppendRowsHold == Spec => []AppendInv
<1>1. TypeInv /\ ControlInv /\ AppendInv /\ [Next]_vars => AppendInv'
  BY AppendRowsKept DEF TypeInv
<1>. QED BY <1>1, AppendRowsAtFirst, ControlHolds, TypesHold, PTL DEF Spec

-----------------------------------------------------------------------------
(* What a rotation does to rows: they move from a staging table to a file that no path     *)
(* tracked before.                                                          *)

RotatedRows(due, staged, aborts, outcome) ==
    /\ \A t \in Tables : \A p \in chunkPaths'[t] \cap DOMAIN opfs' :
          \/ p \in chunkPaths[t] /\ p \in DOMAIN opfs /\ opfs'[p] = opfs[p]
          \/ p \notin chunkPaths[t] /\ opfs'[p] = staged[t] /\ t \in due
    /\ \A t \in Tables : staging'[t] \subseteq staged[t]
    /\ outcome = "ok" => \A t \in due : staging'[t] = {}
    /\ \A t \in Tables : chunkPaths[t] \subseteq chunkPaths'[t]
    /\ \A t \in Tables : fileChunks'[t] = fileChunks[t] \cup
          (IF currentFile = None THEN {} ELSE chunkPaths'[t] \ chunkPaths[t])
    /\ \A p \in DOMAIN opfs : p[1] # generation => opfs'[p] = opfs[p]
    /\ ~(outcome = "quota" /\ aborts) => \A t \in Tables : chunkPaths[t] \subseteq DOMAIN opfs =>
          staging'[t] \cup UNION {opfs'[p] : p \in chunkPaths'[t]} =
          staged[t] \cup UNION {opfs[p] : p \in chunkPaths[t]}

LEMMA RotateRows ==
    ASSUME TypeOK, StoreInv, NEW due \in SUBSET Tables, NEW staged \in [Tables -> SUBSET Rows],
           NEW bytes \in [Tables -> Nat], NEW aborts \in BOOLEAN, NEW outcome,
           RotateOrAbort(due, staged, bytes, aborts, outcome)
    PROVE  RotatedRows(due, staged, aborts, outcome)
<1>1. PICK done \in SUBSET due : \E copied \in SUBSET (due \ done) :
           /\ done = due <=> outcome = "ok"
           /\ Rotate(done, copied, staged, bytes)
           /\ IF outcome = "quota" /\ aborts
              THEN state' = "aborted" /\ DropStaging
              ELSE UNCHANGED state /\ staging' = Emptied(done, staged)
  BY DEF RotateOrAbort
<1>2. PICK copied \in SUBSET (due \ done) :
           /\ Rotate(done, copied, staged, bytes)
           /\ IF outcome = "quota" /\ aborts
              THEN state' = "aborted" /\ DropStaging
              ELSE UNCHANGED state /\ staging' = Emptied(done, staged)
  BY <1>1
<1>. DEFINE new == {NextPath(t) : t \in done \cup copied}
<1>3. \A t \in Tables : /\ NextPath(t)[1] = generation /\ NextPath(t)[2] = t
                        /\ NextPath(t) \notin chunkPaths[t] \cup fileChunks[t]
  <2>. SUFFICES ASSUME NEW t \in Tables
                PROVE  /\ NextPath(t)[1] = generation /\ NextPath(t)[2] = t
                       /\ NextPath(t) \notin chunkPaths[t] \cup fileChunks[t]
    OBVIOUS
  <2>1. NextPath(t)[1] = generation /\ NextPath(t)[2] = t /\ NextPath(t)[3] = chunkIndex[t]
    BY DEF NextPath
  <2>2. chunkIndex[t] \in Nat
    BY DEF TypeOK, SessionTypeOK
  <2>3. \A p \in chunkPaths[t] \cup fileChunks[t] : p[3] < chunkIndex[t]
    BY DEF StoreInv
  <2>. QED BY <2>1, <2>2, <2>3
<1>4. /\ DOMAIN opfs' = DOMAIN opfs \cup new
      /\ \A p \in DOMAIN opfs \cup new : opfs'[p] = IF p \in new THEN staged[p[2]] ELSE opfs[p]
  BY <1>2 DEF Rotate
<1>5. ASSUME NEW t \in Tables
      PROVE  /\ chunkPaths'[t] = IF t \in done THEN chunkPaths[t] \cup {NextPath(t)} ELSE chunkPaths[t]
             /\ fileChunks'[t] = IF t \in done /\ currentFile # None
                                 THEN fileChunks[t] \cup {NextPath(t)} ELSE fileChunks[t]
  BY <1>2 DEF Rotate
<1>6. \A p \in new : \E t \in done \cup copied : p = NextPath(t)
  OBVIOUS
<1>7. \A t \in done : NextPath(t) \in new
  OBVIOUS
<1>. HIDE DEF new
<1>8. ASSUME NEW t \in Tables, NEW p \in chunkPaths[t]
      PROVE  p \notin new
  <2>1. p[2] = t
    BY <1>8 DEF StoreInv
  <2>2. ASSUME p \in new PROVE FALSE
    <3>1. PICK u \in done \cup copied : p = NextPath(u)
      BY <1>6, <2>2
    <3>. QED BY <1>3, <1>8, <2>1, <3>1
  <2>. QED BY <2>2
<1>9. ASSUME NEW t \in Tables, NEW p \in chunkPaths'[t] \cap DOMAIN opfs'
      PROVE  \/ p \in chunkPaths[t] /\ p \in DOMAIN opfs /\ opfs'[p] = opfs[p]
             \/ p \notin chunkPaths[t] /\ opfs'[p] = staged[t] /\ t \in due
  <2>1. CASE p \in chunkPaths[t]
    BY <1>4, <1>8, <1>9, <2>1
  <2>2. CASE p \notin chunkPaths[t]
    <3>1. t \in done /\ p = NextPath(t)
      BY <1>5, <1>9, <2>2
    <3>2. p \in new /\ p[2] = t
      BY <1>3, <1>7, <3>1
    <3>. QED BY <1>4, <2>2, <3>1, <3>2
  <2>. QED BY <2>1, <2>2
<1>10. ASSUME NEW t \in Tables
       PROVE  staging'[t] \subseteq staged[t] /\ (outcome = "ok" /\ t \in due => staging'[t] = {})
  BY <1>1, <1>2 DEF DropStaging, Empty, Emptied
<1>11. ASSUME NEW t \in Tables
       PROVE  /\ chunkPaths[t] \subseteq chunkPaths'[t]
              /\ fileChunks'[t] = fileChunks[t] \cup
                    (IF currentFile = None THEN {} ELSE chunkPaths'[t] \ chunkPaths[t])
  BY ZenonT(60), <1>3, <1>5
<1>12. ASSUME NEW p \in DOMAIN opfs, p[1] # generation
       PROVE  opfs'[p] = opfs[p]
  <2>1. p \notin new
    BY <1>3, <1>6, <1>12
  <2>. QED BY <1>4, <2>1
<1>13. ASSUME ~(outcome = "quota" /\ aborts), NEW t \in Tables, chunkPaths[t] \subseteq DOMAIN opfs
       PROVE  staging'[t] \cup UNION {opfs'[p] : p \in chunkPaths'[t]} =
              staged[t] \cup UNION {opfs[p] : p \in chunkPaths[t]}
  <2>1. \A p \in chunkPaths[t] : opfs'[p] = opfs[p]
    BY <1>4, <1>8, <1>13
  <2>2. staging'[t] = IF t \in done THEN {} ELSE staged[t]
    BY <1>2, <1>13 DEF Emptied
  <2>3. CASE t \in done
    <3>1. NextPath(t) \in new /\ NextPath(t)[2] = t
      BY <1>3, <1>7, <2>3
    <3>2. opfs'[NextPath(t)] = staged[t]
      BY <1>4, <3>1
    <3>3. chunkPaths'[t] = chunkPaths[t] \cup {NextPath(t)}
      BY <1>5, <2>3
    <3>4. UNION {opfs'[p] : p \in chunkPaths'[t]} = staged[t] \cup UNION {opfs'[p] : p \in chunkPaths[t]}
      BY <3>2, <3>3
    <3>5. UNION {opfs'[p] : p \in chunkPaths[t]} = UNION {opfs[p] : p \in chunkPaths[t]}
      BY <2>1
    <3>. QED BY <2>2, <2>3, <3>4, <3>5
  <2>4. CASE t \notin done
    <3>1. chunkPaths'[t] = chunkPaths[t] /\ staging'[t] = staged[t]
      BY <1>5, <2>2, <2>4
    <3>2. UNION {opfs'[p] : p \in chunkPaths[t]} = UNION {opfs[p] : p \in chunkPaths[t]}
      BY <2>1
    <3>. QED BY <3>1, <3>2
  <2>. QED BY <2>3, <2>4
<1>. QED BY <1>9, <1>10, <1>11, <1>12, <1>13 DEF RotatedRows

-----------------------------------------------------------------------------
(* The rows of a spill ingest's staging tables and chunks.                             *)

FileOf(t) == IF t = FilesTable THEN None ELSE currentFile

\* What is staged in a spill ingest is of the current file, and none of it is left where a
\* flush, a discard or a transaction has done its part.
StagedInv == tier = "spill" =>
    /\ \A t \in Tables : \A r \in staging[t] : r.file = FileOf(t)
    /\ call.kind = "beginFile" /\ call.at = "ok" => staging = Empty
    /\ call.kind = "discard" /\ call.at \in {"ok", "deleting"} => staging = Empty
    /\ call.kind = "flushing" /\ call.at = "ok" => staging = Empty
    /\ call.kind = "finalize" /\ call.at \in {"queued", "ok", "swapping"} => staging = Empty

LEMMA RowsAtFirst == Init => StagedInv
  BY DEF Init, IngestInit, StagedInv, Empty

\* Deleting files changes no row of the others.
LEMMA ShrunkFiles ==
    ASSUME Shrinks
    PROVE  DOMAIN opfs' \subseteq DOMAIN opfs /\ \A p \in DOMAIN opfs' : opfs'[p] = opfs[p]
<1>1. CASE opfs' = opfs
  BY <1>1
<1>2. CASE \E S : opfs' = Deleted(S)
  <2>1. PICK S : opfs' = Deleted(S)
    BY <1>2
  <2>. QED BY <2>1, DeletedFiles
<1>. QED BY <1>1, <1>2 DEF Shrinks

\* The steps that move no row.
LEMMA RowsOfCalls ==
    ASSUME TypeOK, ControlInv, KeepInv, StagedInv, Opens \/ CallerStep
    PROVE  StagedInv'
<1>. USE FieldsOfCalls
<1>1. CASE Opens
  <2>1. PICK u \in Tiers : BeginIngest(generation + 1, u)
    BY <1>1 DEF Opens
  <2>2. call = NoCall /\ UNCHANGED <<call, staging>> /\ chunkPaths' = Empty /\ staging = Empty
    BY <1>1, <2>1 DEF Opens, Quiet, BeginIngest, callVars, storeVars, KeepInv, CleanInv
  <2>. QED BY <2>2 DEF StagedInv, Empty
<1>2. CASE CallerStep
  <2>1. UNCHANGED <<opfs, staging, tier, chunkPaths, currentFile>>
    BY <1>2 DEF CallerStep, BeginsFile, Appends, AppendsFiles, Discards, Finalizes, Aborts, CallBeginFile, CallAppend,
         CallDiscard, CallFinalize, CallAbort, storeVars, tableVars, fileVars
  <2>2. AtOnce \in {"queued", "error"}
    BY DEF AtOnce
  <2>3. /\ tier = "spill" /\ call'.kind = "beginFile" => call'.at # "ok"
        /\ call'.kind \in {"discard", "flushing"} => call'.at \notin {"ok", "deleting"}
        /\ tier = "spill" /\ call'.kind = "finalize" => call'.at = "refused"
    <3>1. CASE BeginsFile
      BY <2>2, <3>1 DEF BeginsFile, CallBeginFile
    <3>2. CASE Appends \/ AppendsFiles
      BY <3>2 DEF Appends, AppendsFiles, CallAppend, Quiet
    <3>3. CASE Discards
      BY <2>2, <3>3 DEF Discards, CallDiscard
    <3>4. CASE Finalizes
      BY <2>2, <3>4 DEF Finalizes, CallFinalize
    <3>5. CASE Aborts
      BY <2>2, <3>5 DEF Aborts, CallAbort
    <3>. QED BY <1>2, <3>1, <3>2, <3>3, <3>4, <3>5 DEF CallerStep
  <2>. QED BY <2>1, <2>3 DEF StagedInv, FileOf
<1>. QED BY <1>1, <1>2

LEMMA RowsOfReturns ==
    ASSUME TypeOK, ControlInv, KeepInv, StagedInv, Return
    PROVE  StagedInv'
<1>. USE FieldsOfCalls
<1>1. UNCHANGED <<staging, tier>>
  BY DEF Return, FileBegun, Appended, Discarded, Finalized, Aborted, ReturnBeginFile, ReturnAppend, ReturnDiscard,
         ReturnFinalize, ReturnAbort, tableVars
<1>4. CASE currentFile' = currentFile /\ call'.kind = "none"
  BY <1>1, <1>4 DEF StagedInv, FileOf
<1>5. CASE call'.kind = "none" /\ (FileBegun \/ Discarded) /\ currentFile' # currentFile
  <2>1. tier = "spill" => staging = Empty
    BY <1>5 DEF FileBegun, ReturnBeginFile, Discarded, ReturnDiscard, StagedInv, fileVars
  <2>. QED BY <1>1, <1>5, <2>1 DEF StagedInv, Empty
<1>6. /\ call'.kind = "none"
      /\ FileBegun \/ Discarded \/ UNCHANGED currentFile
  <2>1. CASE Appended
    <3>1. call = NoCall
      BY <2>1 DEF Appended, ControlInv, OneCall
    <3>. QED BY <2>1, <3>1 DEF Appended, ReturnAppend, fileVars
  <2>2. CASE ~Appended
    BY <2>2 DEF Return, FileBegun, Discarded, Finalized, Aborted, ReturnBeginFile, ReturnDiscard,
         ReturnFinalize, ReturnAbort, fileVars
  <2>. QED BY <2>1, <2>2
<1>. QED BY <1>4, <1>5, <1>6

\* An append stages a row of the current file, and a rotation makes one file's rows a chunk.
LEMMA RowsOfAppend ==
    ASSUME TypeOK, ControlInv, KeepInv, AppendInv, StagedInv, RunAppend
    PROVE  StagedInv'
<1>. USE FieldsOfCalls
<1>1. Running("append")
  BY DEF RunAppend
<1>2. call = NoCall /\ UNCHANGED <<call, tier>>
  BY <1>1, RunningIsOfCall DEF RunAppend
<1>3. PICK a \in appends : appends = {a} /\ a.row = Head(queue).row /\ a.table = Head(queue).table
  BY <1>1, RunningIsOfCall
<1>. DEFINE t == Head(queue).table
            row == Head(queue).row
            staged == [staging EXCEPT ![t] = @ \cup {row}]
            bytes == [stagedBytes EXCEPT ![t] = @ + 1]
<1>4. t \in Tables /\ row \in Rows
  <2>1. Head(queue) \in Operations
    BY <1>1, QueueType DEF TypeOK, SessionTypeOK
  <2>. QED BY <2>1 DEF Operations
<1>5. staged \in [Tables -> SUBSET Rows] /\ bytes \in [Tables -> Nat]
  BY <1>4 DEF TypeOK, SessionTypeOK
<1>6. \A u \in Tables : staged[u] = IF u = t THEN staging[u] \cup {row} ELSE staging[u]
  BY <1>4 DEF TypeOK, SessionTypeOK
<1>7. row.file = FileOf(t)
  BY <1>3 DEF AppendInv, FileOf
<1>8. UNCHANGED currentFile
  BY DEF RunAppend, fileVars
<1>. HIDE DEF t, row, staged, bytes
<1>9. tier = "spill" => \A u \in Tables : \A r \in staged[u] : r.file = FileOf(u)
  BY ZenonT(60), <1>6, <1>7 DEF StagedInv
<1>10. CASE UNCHANGED storeVars /\ UNCHANGED chunkPaths
  BY <1>2, <1>8, <1>10 DEF storeVars, StagedInv, FileOf
<1>11. CASE staging' = staged /\ UNCHANGED <<opfs, chunkPaths>>
  BY <1>2, <1>8, <1>9, <1>11 DEF StagedInv, FileOf
<1>12. CASE tier # "memory" /\ \E outcome \in {"ok", "error", "quota"} : RotateOrAbort({t}, staged, bytes, TRUE, outcome)
  <2>1. PICK due \in SUBSET Tables, aborts \in BOOLEAN, outcome \in {"ok", "error", "quota"} :
           RotateOrAbort(due, staged, bytes, aborts, outcome)
    BY <1>4, <1>12
  <2>2. RotatedRows(due, staged, aborts, outcome)
    BY <1>5, <2>1, RotateRows DEF KeepInv
  <2>3. tier = "spill"
    BY <1>12 DEF TypeOK, SessionTypeOK, Tiers
  <2>. QED BY <1>2, <1>8, <1>9, <2>2, <2>3 DEF RotatedRows, StagedInv, FileOf
<1>. QED BY <1>10, <1>11, <1>12 DEF RunAppend, t, row, staged, bytes, tableVars

\* A flush that succeeds leaves nothing staged.
LEMMA RowsOfFlush ==
    ASSUME TypeOK, ControlInv, KeepInv, StagedInv, RunFlush \/ RunResidual
    PROVE  StagedInv'
<1>. USE FieldsOfCalls
<1>1. PICK op \in {"flush", "residual"} : Running(op)
  BY DEF RunFlush, RunResidual
<1>2. UNCHANGED <<tier, currentFile>>
  BY DEF RunFlush, RunResidual
<1>3. call.kind \in {"beginFile", "flushing"} /\ tier = "spill"
  <2>1. call.kind \in {"beginFile", "flushing"} /\ call.at = "queued"
    BY <1>1, RunningIsOfCall
  <2>. QED BY <2>1 DEF ControlInv, CallIsOfCaller
<1>4. PICK outcome \in {"ok", "error", "quota"} :
          /\ Returns(outcome)
          /\ \/ outcome = "error" /\ UNCHANGED <<storeVars, chunkPaths>>
             \/ \E aborts \in BOOLEAN : RotateOrAbort(Due, staging, stagedBytes, aborts, outcome)
  BY DEF RunFlush, RunResidual
<1>5. call'.kind = call.kind /\ call'.at = outcome
  BY <1>4
<1>6. CASE outcome = "error" /\ UNCHANGED <<storeVars, chunkPaths>>
  BY <1>2, <1>3, <1>5, <1>6 DEF storeVars, StagedInv, FileOf
<1>7. CASE \E aborts \in BOOLEAN : RotateOrAbort(Due, staging, stagedBytes, aborts, outcome)
  <2>1. PICK aborts \in BOOLEAN : RotateOrAbort(Due, staging, stagedBytes, aborts, outcome)
    BY <1>7
  <2>2. Due \in SUBSET Tables /\ staging \in [Tables -> SUBSET Rows] /\ stagedBytes \in [Tables -> Nat]
    BY DEF Due, TypeOK, SessionTypeOK
  <2>3. RotatedRows(Due, staging, aborts, outcome)
    BY <2>1, <2>2, RotateRows DEF KeepInv
  <2>4. outcome = "ok" => staging' = Empty
    <3>1. \A t \in Tables : staging[t] # {} => t \in Due
      BY <1>3 DEF KeepInv, StoreInv, Due
    <3>2. outcome = "ok" => \A t \in Tables : staging'[t] = {}
      BY <2>3, <3>1 DEF RotatedRows
    <3>3. staging' \in [Tables -> SUBSET Rows]
      <4>1. \E done : staging' = Empty \/ staging' = Emptied(done, staging)
        BY <2>1 DEF RotateOrAbort, DropStaging
      <4>. QED BY <2>2, <4>1 DEF Empty, Emptied
    <3>. QED BY <3>2, <3>3 DEF Empty
  <2>. QED BY <1>2, <1>3, <1>5, <2>3, <2>4 DEF RotatedRows, StagedInv, FileOf
<1>. QED BY <1>4, <1>6, <1>7

LEMMA RowsOfOperations ==
    ASSUME TypeOK, ControlInv, KeepInv, StagedInv, RunDiscard \/ RunCommit \/ RunDrop
    PROVE  StagedInv'
<1>. USE FieldsOfCalls
<1>1. PICK op \in {"discard", "commit", "drop"} : Running(op)
  BY DEF RunDiscard, RunCommit, RunDrop
<1>2. UNCHANGED <<tier, currentFile, opfs, chunkPaths>>
  BY DEF RunDiscard, RunCommit, RunDrop, fileVars, tableVars
<1>4. CASE RunDiscard
  <2>1. call.kind = "discard"
    BY <1>4, RunningIsOfCall DEF RunDiscard
  <2>2. PICK emptied \in SUBSET created :
          /\ Returns(IF emptied = created /\ ~Unserved THEN "ok" ELSE "error")
          /\ IF Unserved THEN UNCHANGED <<staging, stagedBytes>> ELSE
                staging' = [t \in Tables |->
                   IF t \notin emptied THEN staging[t]
                   ELSE IF tier = "spill" THEN {}
                   ELSE {r \in staging[t] : r.file # Head(queue).file}]
    BY <1>4 DEF RunDiscard
  <2>3. call'.kind = "discard" /\ call'.at = IF emptied = created /\ ~Unserved THEN "ok" ELSE "error"
    BY <2>1, <2>2
  <2>4. \A t \in Tables : staging'[t] \subseteq staging[t]
    BY <2>2
  <2>5. tier = "spill" /\ call'.at = "ok" => staging' = Empty
    BY <2>2, <2>3 DEF KeepInv, StoreInv, Empty
  <2>. QED BY <1>2, <2>3, <2>4, <2>5 DEF StagedInv, FileOf
<1>5. CASE RunCommit
  <2>1. call.kind = "finalize" /\ call.at = "queued"
    BY <1>5, RunningIsOfCall DEF RunCommit
  <2>2. call'.kind = "finalize" /\ (staging' = Empty \/ (call'.at = "error" /\ staging' = staging))
    BY <1>5, <2>1 DEF RunCommit, DropStaging
  <2>. QED BY <1>2, <2>2 DEF StagedInv, FileOf, Empty
<1>6. CASE RunDrop
  <2>1. call.kind = "abort"
    BY <1>6, RunningIsOfCall DEF RunDrop
  <2>2. call'.kind = "abort" /\ (staging' = Empty \/ staging' = staging)
    BY <1>6, <2>1 DEF RunDrop, DropStaging
  <2>. QED BY <1>2, <2>2 DEF StagedInv, FileOf, Empty
<1>. QED BY <1>4, <1>5, <1>6

LEMMA RowsOfTheRest ==
    ASSUME TypeOK, ControlInv, KeepInv, StagedInv,
           (SessionStep /\ UNCHANGED callerVars) \/ Teardown \/ Rest \/ UNCHANGED vars
    PROVE  StagedInv'
<1>. USE FieldsOfCalls
<1>1. UNCHANGED <<staging, tier, currentFile>>
  BY DEF SessionStep, DiscardForgets, FinalizeCommits, FinalizeSwaps, Teardown, Dispose, DisposeFinishes, Rest, vars,
         ingestVars, storeVars, sessionVars, fileVars
<1>5. \/ UNCHANGED call
      \/ call.kind = "discard" /\ call.at = "ok" /\ call'.kind = "discard"
      \/ call.kind = "flushing" /\ call.at = "ok" /\ call'.kind = "finalize"
      \/ call.kind = "finalize" /\ call.at = "ok" /\ call'.kind = "finalize"
  <2>1. CASE SessionStep
    <3>1. CASE DiscardForgets \/ FinalizeSwaps
      <4>1. call \in SessionCalls
        BY DEF TypeOK, SessionTypeOK
      <4>. QED BY <3>1, <4>1 DEF DiscardForgets, FinalizeSwaps, SessionCalls
    <3>2. CASE FinalizeCommits
      BY <3>2 DEF FinalizeCommits
    <3>. QED BY <2>1, <3>1, <3>2 DEF SessionStep
  <2>2. CASE Teardown \/ Rest \/ UNCHANGED vars
    BY <2>2 DEF Teardown, Dispose, DisposeFinishes, Rest, vars, ingestVars, callVars
  <2>. QED BY <2>1, <2>2
<1>. QED BY <1>1, <1>5 DEF StagedInv, FileOf, Empty

LEMMA RowsHold == Spec => []StagedInv
<1>1. TypeInv /\ ControlInv /\ KeepInv /\ AppendInv /\ StagedInv /\ [Next]_vars => StagedInv'
  <2>. SUFFICES ASSUME TypeOK, ControlInv, KeepInv, AppendInv, StagedInv, [Next]_vars
                PROVE  StagedInv'
    BY DEF TypeInv
  <2>1. CASE Opens \/ CallerStep
    BY <2>1, RowsOfCalls
  <2>2. CASE Return
    BY <2>2, RowsOfReturns
  <2>3. CASE RunOperation
    BY <2>3, RowsOfAppend, RowsOfFlush, RowsOfOperations DEF RunOperation
  <2>4. CASE (SessionStep /\ UNCHANGED callerVars) \/ Teardown \/ Rest \/ UNCHANGED vars
    BY <2>4, RowsOfTheRest
  <2>. QED BY <2>1, <2>2, <2>3, <2>4 DEF Next, DatabaseStep
<1>. QED BY <1>1, RowsAtFirst, AppendRowsHold, KeepHolds, ControlHolds, TypesHold, PTL DEF Spec

-----------------------------------------------------------------------------
(* The rows an ingest under way holds, staged or in tracked chunks.                       *)

Kept == [t \in Tables |-> staging[t] \cup UNION {opfs[p] : p \in chunkPaths[t]}]
AllKept == UNION {Kept[t] : t \in Tables}

\* Nothing has ended the ingest, and its transaction has not run.
Uncommitted == Live /\ dispose # "done" /\ ~(call.kind = "finalize" /\ call.at # "queued")

\* A file of the ingest has failed and has not been discarded.
Failing == caller = "fileFailed" \/ \E a \in appends : a.at = "error"

Answers == {a.row : a \in {b \in appends : b.at = "ok"}}
OfEarlier(S) == {r \in S : r.file # fileNo}

\* No row of the file the caller is at has come in yet, or none is left.
SansFile ==
    \/ caller = "between" \/ call.kind = "beginFile" \/ call.at = "deleting"
    \/ call.kind = "discard" /\ call.at = "ok" /\ tier = "memory"

FilesOfRows ==
    /\ caller \in {"between", "inFile", "fileFailed"} => Kept[FilesTable] = {}
    /\ \A r \in Kept[FilesTable] : r.file = None
    /\ \A t \in Tables \ {FilesTable} : \A r \in Kept[t] : 0 < r.file /\ r.file <= fileNo
    /\ SansFile => \A t \in Tables \ {FilesTable} : \A r \in Kept[t] : r.file # fileNo

\* The chunks to be dropped with a file are those with its rows.
ChunksOfFile ==
    /\ call.at # "deleting" => \A t \in Tables : fileChunks[t] \subseteq chunkPaths[t]
    /\ \A t \in Tables \ {FilesTable} :
          /\ \A p \in fileChunks[t] \cap chunkPaths[t] : \A r \in opfs[p] : r.file = currentFile
          /\ \A p \in chunkPaths[t] \ fileChunks[t] : \A r \in opfs[p] : r.file # fileNo

\* The rows held are the rows accepted, and those of an answer under way; while a file is
\* failing, up to that file's.
KeptIsAccepted ==
    /\ ~Failing => AllKept = accepted \cup Answers
    /\ Failing /\ caller # "filing" => OfEarlier(AllKept) = OfEarlier(accepted)

KeptInv == Uncommitted => FilesOfRows /\ ChunksOfFile /\ KeptIsAccepted

LEMMA KeptTypes ==
    ASSUME TypeOK, KeepInv, Uncommitted
    PROVE  /\ \A t \in Tables : chunkPaths[t] \subseteq DOMAIN opfs /\ Kept[t] \subseteq Rows
           /\ AllKept \subseteq Rows /\ \A r \in Rows : r.file \in Nat /\ r.n \in Nat
           /\ fileNo \in Nat /\ currentFile \in Nat
<1>1. \A t \in Tables : chunkPaths[t] \subseteq DOMAIN opfs
  BY DEF Uncommitted, KeepInv, FilesInv
<1>2. \A t \in Tables : Kept[t] \subseteq Rows
  BY <1>1 DEF Kept, TypeOK, SessionTypeOK
<1>3. \A r \in Rows : r.file \in Nat /\ r.n \in Nat
  BY IngestAssumption DEF Rows, Files, None
<1>4. fileNo \in Nat /\ currentFile \in Nat
  BY IngestAssumption DEF TypeOK, SessionTypeOK, Files, None
<1>. QED BY <1>1, <1>2, <1>3, <1>4 DEF AllKept

\* What a step does to the rows held while nothing has ended the ingest: it leaves them as they
\* are, or takes rows of the current file only.
KeptAsIs == Uncommitted /\ AllKept' = AllKept /\ \A t \in Tables : Kept'[t] = Kept[t]
KeptButFile ==
    /\ Uncommitted /\ caller = "fileFailed" /\ currentFile = fileNo
    /\ \A t \in Tables : Kept'[t] \subseteq Kept[t] /\ \A r \in Kept[t] \ Kept'[t] : r.file = fileNo
    /\ OfEarlier(AllKept)' = OfEarlier(AllKept)

LEMMA KeptAtFirstIs == Init => KeptInv
  BY DEF Init, KeptInv, Uncommitted, Live

LEMMA OpensHolds ==
    ASSUME TypeOK, ControlInv, KeepInv, KeptInv, Opens
    PROVE  KeptInv'
<1>. USE FieldsOfCalls
<1>1. PICK u \in Tiers : BeginIngest(generation + 1, u)
  BY DEF Opens
<1>2. /\ call' = NoCall /\ appends' = {} /\ caller' = "between" /\ accepted' = {} /\ fileNo' = 0
      /\ staging' = Empty /\ chunkPaths' = Empty /\ fileChunks' = Empty
  BY <1>1 DEF Opens, Quiet, BeginIngest, callVars, storeVars, KeepInv, CleanInv
<1>3. \A t \in Tables : Kept'[t] = {} /\ chunkPaths'[t] = {} /\ fileChunks'[t] = {}
  BY <1>2 DEF Kept, Empty
<1>4. AllKept' = {}
  BY <1>3 DEF AllKept
<1>5. FilesOfRows' /\ ChunksOfFile'
  BY <1>3, IngestAssumption DEF FilesOfRows, ChunksOfFile
<1>6. KeptIsAccepted'
  BY <1>2, <1>4 DEF KeptIsAccepted, Failing, Answers, OfEarlier
<1>. QED BY <1>5, <1>6 DEF KeptInv

\* A call that is made moves no row; the next file has none.
LEMMA CallsMoveNoRow ==
    ASSUME TypeOK, ControlInv, CallerStep, Uncommitted'
    PROVE  /\ KeptAsIs /\ call = NoCall /\ appends = {} /\ ~Aborts
           /\ UNCHANGED <<staging, opfs, chunkPaths, fileChunks, currentFile, accepted, tier, dispose>>
<1>. USE FieldsOfCalls
<1>1. /\ call = NoCall /\ appends = {} /\ caller # "idle" /\ ~QuotaMet
      /\ UNCHANGED <<staging, opfs, chunkPaths, fileChunks, currentFile, accepted, tier, dispose>>
  BY QuietQueue DEF Quiet, CallerStep, BeginsFile, Appends, AppendsFiles, Discards, Finalizes, Aborts, CallBeginFile,
         CallAppend, CallDiscard, CallFinalize, CallAbort, storeVars, tableVars, fileVars, databaseVars, callerVars
<1>2. Kept' = Kept /\ AllKept' = AllKept
  BY <1>1 DEF Kept, AllKept
<1>3. caller' # "doomed" /\ call'.kind # "abort" /\ dispose # "done"
  BY <1>1 DEF Uncommitted, Live
<1>4. caller \notin {"idle", "doomed"} /\ ~Aborts
  BY <1>3 DEF CallerStep, BeginsFile, Appends, AppendsFiles, Discards, Finalizes, Aborts, CallAbort, callerVars
<1>5. Uncommitted
  BY <1>1, <1>3, <1>4 DEF Uncommitted, Live
<1>. QED BY <1>1, <1>2, <1>4, <1>5 DEF KeptAsIs

LEMMA CallsHold ==
    ASSUME TypeOK, ControlInv, KeepInv, KeptInv, CallerStep
    PROVE  KeptInv'
<1>. USE FieldsOfCalls
<1>. SUFFICES ASSUME Uncommitted' PROVE (FilesOfRows /\ ChunksOfFile /\ KeptIsAccepted)'
  BY DEF KeptInv
<1>1. /\ call = NoCall /\ appends = {} /\ ~Aborts
      /\ UNCHANGED <<staging, opfs, chunkPaths, fileChunks, currentFile, accepted, tier, dispose>>
  BY CallsMoveNoRow
<1>2. AllKept' = AllKept /\ \A t \in Tables : Kept'[t] = Kept[t]
  BY CallsMoveNoRow DEF KeptAsIs
<1>3. FilesTable \in Tables
  BY IngestAssumption
<1>4. AtOnce \in {"queued", "error"}
  BY DEF AtOnce
<1>6. Uncommitted
  BY CallsMoveNoRow DEF KeptAsIs
<1>7. FilesOfRows /\ ChunksOfFile /\ KeptIsAccepted
  BY <1>6 DEF KeptInv
<1>8. Answers = {} /\ (caller # "fileFailed" => AllKept = accepted)
  BY <1>1, <1>7 DEF Answers, KeptIsAccepted, Failing
<1>9. CASE BeginsFile
  <2>1. /\ fileNo' = fileNo + 1 /\ caller' = caller /\ caller \in {"between", "inFile"} /\ UNCHANGED appends
        /\ call'.kind = "beginFile" /\ call'.at # "deleting"
    BY <1>4, <1>9 DEF BeginsFile, CallBeginFile
  <2>2. \A t \in Tables \ {FilesTable} : \A r \in Kept[t] : r.file < fileNo'
    BY <1>6, <1>7, <2>1, KeptTypes DEF FilesOfRows
  <2>3. FilesOfRows'
    BY <1>2, <1>3, <1>6, <1>7, <2>1, <2>2, KeptTypes DEF FilesOfRows
  <2>4. ChunksOfFile'
    <3>1. \A t \in Tables : \A p \in chunkPaths[t] : opfs[p] \subseteq Kept[t]
      BY DEF Kept
    <3>2. \A t \in Tables \ {FilesTable} : \A p \in chunkPaths[t] : \A r \in opfs[p] : r.file # fileNo'
      BY <1>6, <2>1, <2>2, <3>1, KeptTypes
    <3>. QED BY <1>1, <1>7, <2>1, <3>2 DEF ChunksOfFile
  <2>5. KeptIsAccepted'
    BY <1>1, <1>2, <1>8, <2>1 DEF KeptIsAccepted, Failing, Answers
  <2>. QED BY <2>3, <2>4, <2>5
<1>10. CASE Appends \/ AppendsFiles
  <2>1. /\ fileNo' = fileNo /\ caller \in {"between", "inFile"} /\ UNCHANGED call
        /\ caller' = "filing" \/ (caller' = "inFile" /\ caller = "inFile")
    BY <1>10 DEF Appends, AppendsFiles, CallAppend
  <2>2. \A a \in appends' : a.at \in {"queued", "error"}
    BY <1>1, <1>4, <1>10 DEF Appends, AppendsFiles, CallAppend
  <2>3. FilesOfRows' /\ ChunksOfFile'
    BY <1>1, <1>2, <1>3, <1>7, <2>1 DEF FilesOfRows, ChunksOfFile, SansFile
  <2>4. KeptIsAccepted'
    <3>1. Answers' = {}
      BY <2>2 DEF Answers
    <3>. QED BY <1>1, <1>2, <1>8, <2>1, <3>1 DEF KeptIsAccepted, OfEarlier
  <2>. QED BY <2>3, <2>4
<1>11. CASE Discards
  <2>1. /\ fileNo' = fileNo /\ caller \in {"inFile", "fileFailed"} /\ caller' = "fileFailed" /\ UNCHANGED appends
        /\ call'.kind = "discard" /\ call'.at \in {"queued", "error", "nothing"}
    BY <1>4, <1>11 DEF Discards, CallDiscard
  <2>2. FilesOfRows' /\ ChunksOfFile'
    BY <1>1, <1>2, <1>3, <1>7, <2>1 DEF FilesOfRows, ChunksOfFile, SansFile
  <2>3. KeptIsAccepted'
    BY <1>1, <1>2, <1>7, <1>8, <2>1 DEF KeptIsAccepted, Failing, OfEarlier
  <2>. QED BY <2>2, <2>3
<1>12. CASE Finalizes
  <2>1. /\ UNCHANGED <<fileNo, caller, appends>> /\ caller = "filed"
        /\ call'.kind \in {"flushing", "finalize"} /\ call'.at # "deleting"
    BY <1>4, <1>12 DEF Finalizes, CallFinalize, callerVars
  <2>2. FilesOfRows' /\ ChunksOfFile'
    BY <1>1, <1>2, <1>3, <1>7, <2>1 DEF FilesOfRows, ChunksOfFile, SansFile
  <2>3. KeptIsAccepted'
    BY <1>1, <1>2, <1>8, <2>1 DEF KeptIsAccepted, Failing, Answers
  <2>. QED BY <2>2, <2>3
<1>. QED BY <1>1, <1>9, <1>10, <1>11, <1>12 DEF CallerStep

\* Nor does a call that returns, the files of a discard being no longer tracked.
LEMMA ReturnsMoveNoRow ==
    ASSUME TypeOK, ControlInv, KeepInv, Return, Uncommitted'
    PROVE  /\ KeptAsIs /\ \A t \in Tables : \A p \in chunkPaths[t] : opfs'[p] = opfs[p]
           /\ UNCHANGED <<dispose, staging, chunkPaths, tier, fileNo>>
           /\ \/ FileBegun /\ call.kind = "beginFile" /\ call.at = "ok"
              \/ Appended
              \/ Discarded /\ call.kind = "discard" /\ call.at = "deleting"
<1>. USE FieldsOfCalls
<1>1. UNCHANGED <<dispose, staging, chunkPaths, tier, fileNo>> /\ dispose # "done"
  <2>1. UNCHANGED <<dispose, staging, chunkPaths, tier>>
    BY DEF Return, FileBegun, Appended, Discarded, Finalized, Aborted, ReturnBeginFile, ReturnAppend, ReturnDiscard,
         ReturnFinalize, ReturnAbort, tableVars, databaseVars
  <2>2. UNCHANGED fileNo
    BY DEF Return, FileBegun, Appended, Discarded, Finalized, Aborted
  <2>. QED BY <2>1, <2>2 DEF Uncommitted
<1>2. ASSUME Uncommitted, \A t \in Tables : \A p \in chunkPaths[t] : opfs'[p] = opfs[p]
      PROVE  KeptAsIs
  <2>1. \A t \in Tables : Kept'[t] = Kept[t]
    <3>. SUFFICES ASSUME NEW t \in Tables PROVE Kept'[t] = Kept[t]
      OBVIOUS
    <3>1. UNION {opfs'[p] : p \in chunkPaths[t]} = UNION {opfs[p] : p \in chunkPaths[t]}
      BY <1>2
    <3>. QED BY <1>1, <3>1 DEF Kept
  <2>. QED BY <1>2, <2>1 DEF KeptAsIs, AllKept
<1>3. CASE FileBegun
  <2>1. /\ call.kind = "beginFile"
        /\ caller' = IF call.at = "ok" THEN "inFile" ELSE "doomed"
        /\ call.at = "ok" => opfs' = opfs
    BY <1>3 DEF FileBegun, ReturnBeginFile, ReclaimOnQuota
  <2>2. call.at = "ok" /\ caller \in {"between", "inFile"} /\ appends = {}
    BY <2>1 DEF Uncommitted, Live, ControlInv, OneCall, CallIsOfCaller
  <2>3. Uncommitted
    BY <1>1, <2>1, <2>2 DEF Uncommitted, Live, QuotaMet
  <2>. QED BY <1>1, <1>2, <1>3, <2>1, <2>2, <2>3
<1>4. CASE Appended
  <2>1. PICK a \in appends :
          /\ ReturnAppend(a)
          /\ caller' = IF a.at = "ok"
                       THEN IF caller = "filing" THEN "filed" ELSE caller
                       ELSE IF a.at = "quota" \/ caller = "filing" THEN "doomed"
                                                                  ELSE "fileFailed"
    BY <1>4 DEF Appended
  <2>2. a.at # "quota" /\ opfs' = opfs
    BY <2>1 DEF ReturnAppend, ReclaimOnQuota, Uncommitted, Live
  <2>3. appends = {a} /\ call = NoCall /\ caller \in {"inFile", "filing"}
    BY <2>1 DEF ControlInv, OneCall, CallIsOfCaller
  <2>4. Uncommitted
    BY <1>1, <2>2, <2>3 DEF Uncommitted, Live, QuotaMet
  <2>. QED BY <1>1, <1>2, <1>4, <2>2, <2>4
<1>5. CASE Discarded
  <2>1. /\ call.kind = "discard" /\ call.at \in {"deleting", "nothing", "error"}
        /\ caller' = IF call.at = "error" THEN "doomed" ELSE "between"
        /\ call.at = "deleting" => opfs' = Deleted(call.chunks)
    BY <1>5 DEF Discarded, ReturnDiscard
  <2>2. call.at = "deleting" /\ caller = "fileFailed" /\ appends = {}
    BY <2>1 DEF Uncommitted, Live, ControlInv, OneCall, CallIsOfCaller
  <2>3. Uncommitted
    BY <1>1, <2>1, <2>2 DEF Uncommitted, Live, QuotaMet
  <2>4. \A t \in Tables : \A p \in chunkPaths[t] : p \notin call.chunks /\ p \in DOMAIN opfs
    <3>. SUFFICES ASSUME NEW t \in Tables, NEW p \in chunkPaths[t]
                  PROVE  p \notin call.chunks /\ p \in DOMAIN opfs
      OBVIOUS
    <3>1. p \in DOMAIN opfs /\ p[2] = t
      BY <2>3, KeptTypes DEF KeepInv, StoreInv
    <3>2. ASSUME p \in call.chunks PROVE FALSE
      <4>1. PICK u \in Tables : p \in fileChunks[u]
        BY <2>2, <3>2 DEF KeepInv, StoreInv
      <4>2. p[2] = u
        BY <4>1 DEF KeepInv, StoreInv
      <4>. QED BY <2>2, <3>1, <4>1, <4>2 DEF KeepInv, StoreInv
    <3>. QED BY <3>1, <3>2
  <2>5. \A t \in Tables : \A p \in chunkPaths[t] : opfs'[p] = opfs[p]
    BY <2>1, <2>2, <2>4, DeletedFiles
  <2>. QED BY <1>1, <1>2, <1>5, <2>1, <2>2, <2>3, <2>5
<1>6. CASE Finalized \/ Aborted
  BY <1>6 DEF Finalized, Aborted, Uncommitted, Live
<1>. QED BY <1>3, <1>4, <1>5, <1>6 DEF Return

\* A file begins: every chunk tracked so far is of an earlier one.
LEMMA FileBegunHolds ==
    ASSUME TypeOK, ControlInv, KeepInv, KeptInv, FileBegun
    PROVE  KeptInv'
<1>. USE FieldsOfCalls
<1>. SUFFICES ASSUME Uncommitted' PROVE (FilesOfRows /\ ChunksOfFile /\ KeptIsAccepted)'
  BY DEF KeptInv
<1>1. /\ KeptAsIs /\ UNCHANGED <<dispose, staging, chunkPaths, tier, fileNo>>
      /\ call.kind = "beginFile" /\ call.at = "ok"
  <2>1. call.kind = "beginFile" /\ ~Appended /\ ~Discarded
    <3>1. call.kind = "beginFile" /\ call # NoCall
      BY DEF FileBegun, ReturnBeginFile
    <3>2. appends = {}
      BY <3>1 DEF ControlInv, OneCall
    <3>. QED BY <3>1, <3>2 DEF Appended, Discarded, ReturnDiscard
  <2>. QED BY <2>1, ReturnsMoveNoRow DEF Return
<1>2. /\ caller' = "inFile" /\ call' = NoCall /\ UNCHANGED <<opfs, appends, accepted>>
      /\ currentFile' = call.file /\ fileChunks' = Empty
  BY <1>1 DEF FileBegun, ReturnBeginFile, ReclaimOnQuota
<1>3. caller \in {"between", "inFile"} /\ appends = {} /\ call.file = fileNo
  BY <1>1 DEF ControlInv, OneCall, CallIsOfCaller, FileIsOfCaller
<1>4. Uncommitted /\ AllKept' = AllKept /\ \A t \in Tables : Kept'[t] = Kept[t]
  BY <1>1 DEF KeptAsIs
<1>5. FilesOfRows /\ ChunksOfFile /\ KeptIsAccepted
  BY <1>4 DEF KeptInv
<1>6. \A t \in Tables : \A p \in chunkPaths[t] : opfs[p] \subseteq Kept[t]
  BY DEF Kept
<1>7. FilesOfRows'
  BY <1>1, <1>2, <1>3, <1>4, <1>5, IngestAssumption DEF FilesOfRows, SansFile
<1>8. \A t \in Tables \ {FilesTable} : \A p \in chunkPaths[t] : \A r \in opfs[p] : r.file # fileNo
  BY <1>1, <1>5, <1>6 DEF FilesOfRows, SansFile
<1>9. ChunksOfFile'
  BY <1>1, <1>2, <1>8 DEF ChunksOfFile, Empty
<1>10. KeptIsAccepted'
  BY <1>2, <1>3, <1>4, <1>5 DEF KeptIsAccepted, Failing, Answers
<1>. QED BY <1>7, <1>9, <1>10

\* The caller learns that its row is in, or that its file has failed.
LEMMA AppendedHolds ==
    ASSUME TypeOK, ControlInv, KeepInv, KeptInv, Appended
    PROVE  KeptInv'
<1>. USE FieldsOfCalls
<1>. SUFFICES ASSUME Uncommitted' PROVE (FilesOfRows /\ ChunksOfFile /\ KeptIsAccepted)'
  BY DEF KeptInv
<1>1. PICK a \in appends :
          /\ ReturnAppend(a)
          /\ accepted' = IF a.at = "ok" THEN accepted \cup {a.row} ELSE accepted
          /\ caller' = IF a.at = "ok"
                       THEN IF caller = "filing" THEN "filed" ELSE caller
                       ELSE IF a.at = "quota" \/ caller = "filing" THEN "doomed"
                                                                  ELSE "fileFailed"
  BY DEF Appended
<1>2. /\ appends' = appends \ {a} /\ a.at # "quota" /\ a.at # "queued"
      /\ UNCHANGED <<dispose, staging, opfs, chunkPaths, tier, call, fileNo, currentFile, fileChunks>>
  BY <1>1 DEF Appended, ReturnAppend, Outstanding, tableVars, fileVars, ReclaimOnQuota, Uncommitted, Live
<1>3. appends = {a} /\ call = NoCall /\ caller \in {"inFile", "filing"} /\ dispose # "done"
  BY <1>1, <1>2 DEF ControlInv, OneCall, CallIsOfCaller, Uncommitted
<1>4. Uncommitted /\ AllKept' = AllKept /\ \A t \in Tables : Kept'[t] = Kept[t]
  BY ReturnsMoveNoRow DEF Return, KeptAsIs
<1>5. FilesOfRows /\ ChunksOfFile /\ KeptIsAccepted
  BY <1>4 DEF KeptInv
<1>6. FilesTable \in Tables
  BY IngestAssumption
<1>7. a.at \in {"ok", "error"}
  BY <1>2 DEF TypeOK, SessionTypeOK, AppendCalls, Outcomes
<1>8. /\ a.at = "ok" => caller' \in {"filed", "inFile"} /\ (caller' = "inFile" => caller = "inFile")
      /\ a.at = "error" => caller = "inFile" /\ caller' = "fileFailed"
  BY <1>1, <1>3, <1>7 DEF Uncommitted, Live
<1>9. FilesOfRows' /\ ChunksOfFile'
  BY <1>2, <1>3, <1>4, <1>5, <1>6, <1>7, <1>8 DEF FilesOfRows, ChunksOfFile, SansFile
<1>10. KeptIsAccepted'
  <2>1. Answers' = {} /\ appends' = {}
    BY <1>2, <1>3 DEF Answers
  <2>2. CASE a.at = "ok"
    <3>1. Answers = {a.row}
      BY <1>3, <2>2 DEF Answers
    <3>2. AllKept = accepted \cup {a.row}
      BY <1>3, <1>5, <2>2, <3>1 DEF KeptIsAccepted, Failing
    <3>. QED BY <1>1, <1>4, <1>8, <2>1, <2>2, <3>2 DEF KeptIsAccepted, Failing
  <2>3. CASE a.at = "error"
    <3>1. OfEarlier(AllKept) = OfEarlier(accepted)
      BY <1>3, <1>5, <1>8, <2>3 DEF KeptIsAccepted, Failing
    <3>. QED BY <1>1, <1>2, <1>4, <1>8, <2>1, <2>3, <3>1 DEF KeptIsAccepted, Failing, OfEarlier
  <2>. QED BY <1>7, <2>2, <2>3
<1>. QED BY <1>9, <1>10

\* The failed file's rows are gone, from the session and from what was accepted.
LEMMA DiscardedHolds ==
    ASSUME TypeOK, ControlInv, KeepInv, KeptInv, Discarded
    PROVE  KeptInv'
<1>. USE FieldsOfCalls
<1>. SUFFICES ASSUME Uncommitted' PROVE (FilesOfRows /\ ChunksOfFile /\ KeptIsAccepted)'
  BY DEF KeptInv
<1>1. /\ KeptAsIs /\ \A t \in Tables : \A p \in chunkPaths[t] : opfs'[p] = opfs[p]
      /\ UNCHANGED <<dispose, staging, chunkPaths, tier, fileNo>>
      /\ call.kind = "discard" /\ call.at = "deleting"
  <2>1. call.kind = "discard" /\ ~Appended /\ ~FileBegun
    <3>1. call.kind = "discard" /\ call # NoCall
      BY DEF Discarded, ReturnDiscard
    <3>2. appends = {}
      BY <3>1 DEF ControlInv, OneCall
    <3>. QED BY <3>1, <3>2 DEF Appended, FileBegun, ReturnBeginFile
  <2>. QED BY <2>1, ReturnsMoveNoRow DEF Return
<1>2. /\ call' = NoCall /\ caller' = "between" /\ accepted' = accepted \ OfFile(fileNo)
      /\ UNCHANGED appends /\ fileChunks' = Empty
  BY <1>1 DEF Discarded, ReturnDiscard
<1>3. caller = "fileFailed" /\ appends = {}
  BY <1>1 DEF ControlInv, OneCall, CallIsOfCaller
<1>4. Uncommitted /\ AllKept' = AllKept /\ \A t \in Tables : Kept'[t] = Kept[t]
  BY <1>1 DEF KeptAsIs
<1>5. FilesOfRows /\ ChunksOfFile /\ KeptIsAccepted
  BY <1>4 DEF KeptInv
<1>6. \A t \in Tables : \A p \in chunkPaths[t] : opfs[p] \subseteq Kept[t]
  BY DEF Kept
<1>7. \A t \in Tables \ {FilesTable} : \A r \in Kept[t] : r.file # fileNo
  BY <1>1, <1>5 DEF FilesOfRows, SansFile
<1>8. FilesOfRows'
  BY <1>1, <1>2, <1>3, <1>4, <1>5, <1>7, IngestAssumption DEF FilesOfRows, SansFile
<1>9. ChunksOfFile'
  BY <1>1, <1>2, <1>6, <1>7 DEF ChunksOfFile, Empty
<1>10. KeptIsAccepted'
  <2>1. OfEarlier(AllKept) = OfEarlier(accepted)
    BY <1>3, <1>5 DEF KeptIsAccepted, Failing
  <2>2. Kept[FilesTable] = {}
    BY <1>3, <1>5 DEF FilesOfRows
  <2>3. \A r \in AllKept : r.file # fileNo
    BY <1>7, <2>2 DEF AllKept
  <2>4. OfEarlier(AllKept) = AllKept
    BY <2>3 DEF OfEarlier
  <2>5. accepted' = OfEarlier(accepted)
    BY <1>2 DEF OfFile, OfEarlier
  <2>6. Answers' = {}
    BY <1>2, <1>3 DEF Answers
  <2>. QED BY <1>2, <1>3, <1>4, <2>1, <2>4, <2>5, <2>6 DEF KeptIsAccepted, Failing
<1>. QED BY <1>8, <1>9, <1>10

LEMMA ReturnsHold ==
    ASSUME TypeOK, ControlInv, KeepInv, KeptInv, Return
    PROVE  KeptInv'
<1>1. CASE Finalized \/ Aborted
  <2>1. caller' \in {"idle", "doomed"}
    BY <1>1 DEF Finalized, Aborted
  <2>. QED BY <2>1 DEF KeptInv, Uncommitted, Live
<1>. QED BY <1>1, FileBegunHolds, AppendedHolds, DiscardedHolds DEF Return

\* A row that is staged, or rotated out at once, is held; one whose rotation failed belongs to
\* a file that is failing.
LEMMA AppendHolds ==
    ASSUME TypeOK, ControlInv, KeepInv, KeepInv', AppendInv, StagedInv, KeptInv, RunAppend, UNCHANGED callerVars
    PROVE  KeptInv'
<1>. USE FieldsOfCalls
<1>. SUFFICES ASSUME Uncommitted' PROVE (FilesOfRows /\ ChunksOfFile /\ KeptIsAccepted)'
  BY DEF KeptInv
<1>1. Running("append")
  BY DEF RunAppend
<1>2. /\ call = NoCall
      /\ UNCHANGED <<dispose, tier, call, caller, currentFile, fileNo, accepted>>
  BY <1>1, RunningIsOfCall DEF RunAppend, databaseVars, fileVars, callerVars
<1>3. PICK a \in appends : appends = {a} /\ a.at = "queued" /\ a.row = Head(queue).row /\ a.table = Head(queue).table
  BY <1>1, RunningIsOfCall
<1>4. caller \in {"inFile", "filing"} /\ ~QuotaMet
  BY <1>2, <1>3 DEF ControlInv, CallIsOfCaller, QuotaMet
<1>5. Uncommitted
  BY <1>2, <1>4 DEF Uncommitted, Live
<1>6. FilesOfRows /\ ChunksOfFile /\ KeptIsAccepted
  BY <1>5 DEF KeptInv
<1>7. AllKept = accepted
  BY <1>3, <1>4, <1>6 DEF KeptIsAccepted, Failing, Answers
<1>. DEFINE t == Head(queue).table
            row == Head(queue).row
            staged == [staging EXCEPT ![t] = @ \cup {row}]
            bytes == [stagedBytes EXCEPT ![t] = @ + 1]
<1>8. t \in Tables /\ row \in Rows
  <2>1. Head(queue) \in Operations
    BY <1>1, QueueType DEF TypeOK, SessionTypeOK
  <2>. QED BY <2>1 DEF Operations
<1>9. staged \in [Tables -> SUBSET Rows] /\ bytes \in [Tables -> Nat]
  BY <1>8 DEF TypeOK, SessionTypeOK
<1>10. \A u \in Tables : staged[u] = IF u = t THEN staging[u] \cup {row} ELSE staging[u]
  BY <1>8 DEF TypeOK, SessionTypeOK
<1>11. /\ caller = "filing" => t = FilesTable /\ row.file = None
       /\ caller = "inFile" => t # FilesTable /\ row.file = currentFile /\ currentFile = fileNo /\ fileNo > 0
  BY <1>2, <1>3, <1>4 DEF AppendInv, ControlInv, FileIsOfCaller
<1>. HIDE DEF t, row, staged, bytes
\* The step in terms of the table's rows.
<1>12. CASE (\A u \in Tables : Kept'[u] = IF u = t THEN Kept[u] \cup {row} ELSE Kept[u])
            /\ ChunksOfFile' /\ (\E outcome \in {"ok", "error"} : Answered(outcome))
  <2>1. PICK outcome \in {"ok", "error"} : Answered(outcome)
    BY <1>12
  <2>2. PICK b : appends' = {b} /\ b.row = a.row /\ b.at = outcome
    BY <1>3, <2>1, AnsweredIs
  <2>. Kept'[t] = Kept[t] \cup {row} /\ \A u \in Tables : u # t => Kept'[u] = Kept[u]
    BY <1>8, <1>12
  <2>3. AllKept' = AllKept \cup {row}
    <3>1. \A r : r \in AllKept' => r \in AllKept \cup {row}
      BY <1>12 DEF AllKept
    <3>2. \A r : r \in AllKept \cup {row} => r \in AllKept'
      BY <1>8, <1>12 DEF AllKept
    <3>. QED BY <3>1, <3>2
  <2>4. FilesOfRows'
    <3>1. ~SansFile' /\ caller' = caller /\ fileNo' = fileNo
      BY <1>2, <1>4 DEF SansFile
    <3>2. CASE caller = "inFile"
      <4>1. Kept'[FilesTable] = {} /\ t # FilesTable
        BY <1>4, <1>6, <1>11, <1>12, <3>2, IngestAssumption DEF FilesOfRows
      <4>2. ASSUME NEW u \in Tables \ {FilesTable}, NEW r \in Kept'[u]
            PROVE  0 < r.file /\ r.file <= fileNo
        <5>1. CASE r \in Kept[u]
          BY <1>6, <5>1 DEF FilesOfRows
        <5>2. CASE r = row
          BY <1>5, <1>11, <3>2, <5>2, KeptTypes
        <5>. QED BY <1>12, <4>2, <5>1, <5>2
      <4>. QED BY <3>1, <4>1, <4>2 DEF FilesOfRows
    <3>3. CASE caller = "filing"
      <4>1. t = FilesTable /\ row.file = None
        BY <1>11, <3>3
      <4>2. \A r \in Kept'[FilesTable] : r.file = None
        BY <1>6, <1>12, <4>1 DEF FilesOfRows
      <4>3. \A u \in Tables \ {FilesTable} : Kept'[u] = Kept[u]
        BY <1>12, <4>1
      <4>. QED BY <1>6, <3>1, <3>3, <4>2, <4>3 DEF FilesOfRows
    <3>. QED BY <1>4, <3>2, <3>3
  <2>5. KeptIsAccepted'
    <3>1. CASE outcome = "ok"
      <4>1. Answers' = {row}
        BY <1>3, <2>2, <3>1 DEF Answers, row
      <4>2. ~Failing'
        BY <1>2, <1>4, <2>2, <3>1 DEF Failing
      <4>. QED BY <1>2, <1>7, <2>3, <4>1, <4>2 DEF KeptIsAccepted
    <3>2. CASE outcome = "error"
      <4>1. Failing'
        BY <2>2, <3>2 DEF Failing
      <4>2. caller = "inFile" => OfEarlier(AllKept \cup {row}) = OfEarlier(accepted)
        BY <1>7, <1>11 DEF OfEarlier
      <4>. QED BY <1>2, <1>4, <2>3, <4>1, <4>2 DEF KeptIsAccepted, OfEarlier
    <3>. QED BY <2>1, <3>1, <3>2
  <2>. QED BY <1>12, <2>4, <2>5
<1>13. CASE Answered("error") /\ UNCHANGED <<state, storeVars, tableVars, fileVars>>
  <2>1. Kept' = Kept /\ AllKept' = AllKept
    BY <1>13 DEF Kept, AllKept, storeVars, tableVars
  <2>2. PICK b : appends' = {b} /\ b.at = "error"
    BY <1>3, <1>13, AnsweredIs
  <2>3. FilesOfRows' /\ ChunksOfFile'
    BY <1>2, <1>6, <1>13, <2>1 DEF FilesOfRows, ChunksOfFile, SansFile, storeVars, tableVars, fileVars
  <2>4. KeptIsAccepted'
    BY <1>2, <1>7, <2>1, <2>2 DEF KeptIsAccepted, Failing, OfEarlier
  <2>. QED BY <2>3, <2>4
<1>14. CASE Answered("ok") /\ staging' = staged /\ UNCHANGED <<opfs, chunkPaths, fileChunks>>
  <2>1. \A u \in Tables : Kept'[u] = IF u = t THEN Kept[u] \cup {row} ELSE Kept[u]
    <3>. SUFFICES ASSUME NEW u \in Tables PROVE Kept'[u] = IF u = t THEN Kept[u] \cup {row} ELSE Kept[u]
      OBVIOUS
    <3>1. Kept'[u] = staged[u] \cup UNION {opfs[p] : p \in chunkPaths[u]}
      BY <1>14 DEF Kept
    <3>. QED BY <1>10, <3>1 DEF Kept
  <2>2. ChunksOfFile'
    BY <1>2, <1>6, <1>14 DEF ChunksOfFile
  <2>. QED BY <1>12, <1>14, <2>1, <2>2
<1>15. CASE tier # "memory" /\ \E outcome \in {"ok", "error", "quota"} :
              Answered(outcome) /\ RotateOrAbort({t}, staged, bytes, TRUE, outcome)
  <2>1. PICK due \in SUBSET Tables, aborts \in BOOLEAN, outcome \in {"ok", "error", "quota"} :
           Answered(outcome) /\ RotateOrAbort(due, staged, bytes, aborts, outcome) /\ due = {t}
    BY <1>8, <1>15
  <2>2. RotatedRows(due, staged, aborts, outcome)
    BY <1>9, <2>1, RotateRows DEF KeepInv
  <2>3. outcome # "quota"
    <3>1. PICK b : appends' = {b} /\ b.at = outcome
      BY <1>3, <2>1, AnsweredIs
    <3>. QED BY <3>1 DEF Uncommitted, Live, QuotaMet
  <2>4. \A u \in Tables : chunkPaths[u] \subseteq DOMAIN opfs
    BY <1>5, KeptTypes
  <2>5. ASSUME NEW u \in Tables
        PROVE  Kept'[u] = IF u = t THEN Kept[u] \cup {row} ELSE Kept[u]
    <3>1. Kept'[u] = staged[u] \cup UNION {opfs[p] : p \in chunkPaths[u]}
      BY <2>2, <2>3, <2>4 DEF RotatedRows, Kept
    <3>. QED BY <1>10, <3>1 DEF Kept
  <2>6. ChunksOfFile'
    <3>1. tier = "spill"
      BY <1>15 DEF TypeOK, SessionTypeOK, Tiers
    <3>2. \A u \in Tables : \A r \in staged[u] : r.file = FileOf(u)
      BY ZenonT(60), <1>3, <1>4, <1>10, <1>11, <3>1 DEF StagedInv, FileOf
    <3>3. \A u \in Tables : chunkPaths'[u] \subseteq DOMAIN opfs'
      BY DEF Uncommitted, KeepInv, FilesInv
    <3>4. call'.at # "deleting" /\ \A u \in Tables : fileChunks'[u] \subseteq chunkPaths'[u]
      BY <1>2, <1>6, <2>2 DEF RotatedRows, ChunksOfFile
    <3>5. ASSUME NEW u \in Tables \ {FilesTable}, NEW p \in chunkPaths'[u]
          PROVE  /\ p \in fileChunks'[u] => \A r \in opfs'[p] : r.file = currentFile
                 /\ p \notin fileChunks'[u] => \A r \in opfs'[p] : r.file # fileNo
      <4>1. CASE p \in chunkPaths[u]
        <5>1. opfs'[p] = opfs[p]
          BY <2>2, <3>3, <4>1 DEF RotatedRows
        <5>2. p \in fileChunks'[u] <=> p \in fileChunks[u]
          BY <2>2, <4>1 DEF RotatedRows
        <5>. QED BY <1>6, <4>1, <5>1, <5>2 DEF ChunksOfFile
      <4>2. CASE p \notin chunkPaths[u]
        <5>1. opfs'[p] = staged[u] /\ u = t
          BY <2>1, <2>2, <3>3, <3>5, <4>2 DEF RotatedRows
        <5>2. currentFile = fileNo /\ fileNo > 0
          BY <1>4, <1>11, <5>1
        <5>3. p \in fileChunks'[u]
          BY <2>2, <3>5, <4>2, <5>2 DEF RotatedRows, None
        <5>. QED BY <3>2, <5>1, <5>3 DEF FileOf
      <4>. QED BY <4>1, <4>2
    <3>. QED BY <1>2, <3>4, <3>5 DEF ChunksOfFile
  <2>. QED BY <1>12, <2>1, <2>3, <2>5, <2>6
<1>. QED BY <1>13, <1>14, <1>15 DEF RunAppend, t, row, staged, bytes

\* A flush moves rows from the staging tables to chunks, and changes none.
LEMMA FlushMovesNoRow ==
    ASSUME TypeOK, ControlInv, KeepInv, RunFlush \/ RunResidual, UNCHANGED callerVars, Uncommitted'
    PROVE  /\ KeptAsIs /\ tier = "spill"
           /\ call.kind \in {"beginFile", "flushing"} /\ call.at = "queued"
           /\ call'.kind = call.kind /\ call'.at \in {"ok", "error"}
           /\ \/ UNCHANGED <<storeVars, chunkPaths, fileChunks>>
              \/ \E due \in SUBSET Tables, aborts \in BOOLEAN, outcome \in {"ok", "error"} :
                     RotatedRows(due, staging, aborts, outcome)
<1>. USE FieldsOfCalls
<1>1. PICK op \in {"flush", "residual"} : Running(op)
  BY DEF RunFlush, RunResidual
<1>2. UNCHANGED <<dispose, appends, caller>>
  BY DEF RunFlush, RunResidual, databaseVars, callerVars
<1>3. call.kind \in {"beginFile", "flushing"} /\ call.at = "queued" /\ appends = {}
  BY <1>1, RunningIsOfCall
<1>4. tier = "spill"
  BY <1>3 DEF ControlInv, CallIsOfCaller
<1>5. PICK outcome \in {"ok", "error", "quota"} :
          /\ Returns(outcome)
          /\ \/ outcome = "error" /\ UNCHANGED <<storeVars, chunkPaths, fileChunks>>
             \/ \E aborts \in BOOLEAN : RotateOrAbort(Due, staging, stagedBytes, aborts, outcome)
  BY DEF RunFlush, RunResidual
<1>6. call'.kind = call.kind /\ call'.at = outcome /\ outcome # "quota"
  BY <1>5 DEF Uncommitted, Live, QuotaMet
<1>7. Uncommitted
  BY <1>2, <1>3, <1>6 DEF Uncommitted, Live, QuotaMet
<1>8. CASE UNCHANGED <<storeVars, chunkPaths, fileChunks>>
  <2>1. Kept' = Kept
    BY <1>8 DEF Kept, storeVars
  <2>. QED BY <1>3, <1>4, <1>5, <1>6, <1>7, <1>8, <2>1 DEF KeptAsIs, AllKept
<1>9. CASE \E aborts \in BOOLEAN : RotateOrAbort(Due, staging, stagedBytes, aborts, outcome)
  <2>1. PICK aborts \in BOOLEAN : RotateOrAbort(Due, staging, stagedBytes, aborts, outcome)
    BY <1>9
  <2>2. Due \in SUBSET Tables /\ staging \in [Tables -> SUBSET Rows] /\ stagedBytes \in [Tables -> Nat]
    BY DEF Due, TypeOK, SessionTypeOK
  <2>3. RotatedRows(Due, staging, aborts, outcome)
    BY <2>1, <2>2, RotateRows DEF KeepInv
  <2>4. \A t \in Tables : chunkPaths[t] \subseteq DOMAIN opfs
    BY <1>7, KeptTypes
  <2>5. \A t \in Tables : Kept'[t] = Kept[t]
    BY <1>6, <2>3, <2>4 DEF RotatedRows, Kept
  <2>6. AllKept' = AllKept
    BY <2>5 DEF AllKept
  <2>7. outcome \in {"ok", "error"}
    BY <1>5, <1>6
  <2>. QED BY <1>3, <1>4, <1>6, <1>7, <2>2, <2>3, <2>5, <2>6, <2>7 DEF KeptAsIs
<1>. QED BY <1>5, <1>8, <1>9

\* Rows are staged only of a current file, so that the chunk they become is the file's.
LEMMA FlushHolds ==
    ASSUME TypeOK, ControlInv, KeepInv, KeepInv', StagedInv, KeptInv, RunFlush \/ RunResidual, UNCHANGED callerVars
    PROVE  KeptInv'
<1>. USE FieldsOfCalls
<1>. SUFFICES ASSUME Uncommitted' PROVE (FilesOfRows /\ ChunksOfFile /\ KeptIsAccepted)'
  BY DEF KeptInv
<1>1. UNCHANGED <<dispose, tier, currentFile, appends, caller, fileNo, accepted>>
  BY DEF RunFlush, RunResidual, databaseVars, callerVars
<1>2. /\ KeptAsIs /\ tier = "spill"
      /\ call.kind \in {"beginFile", "flushing"} /\ call.at = "queued"
      /\ call'.kind = call.kind /\ call'.at \in {"ok", "error"}
  BY FlushMovesNoRow
<1>3. Uncommitted /\ AllKept' = AllKept /\ \A t \in Tables : Kept'[t] = Kept[t]
  BY <1>2 DEF KeptAsIs
<1>4. FilesOfRows /\ ChunksOfFile /\ KeptIsAccepted
  BY <1>3 DEF KeptInv
<1>5. SansFile' <=> SansFile
  BY <1>1, <1>2 DEF SansFile
<1>6. FilesOfRows'
  BY <1>1, <1>3, <1>4, <1>5, IngestAssumption DEF FilesOfRows
<1>7. KeptIsAccepted'
  BY <1>1, <1>3, <1>4 DEF KeptIsAccepted, Failing, Answers, OfEarlier
<1>8. CASE UNCHANGED <<storeVars, chunkPaths, fileChunks>>
  <2>1. ChunksOfFile'
    BY <1>1, <1>2, <1>4, <1>8 DEF ChunksOfFile, storeVars
  <2>. QED BY <1>6, <1>7, <2>1
<1>9. CASE \E due \in SUBSET Tables, aborts \in BOOLEAN, outcome \in {"ok", "error"} :
              RotatedRows(due, staging, aborts, outcome)
  <2>1. PICK due \in SUBSET Tables, aborts \in BOOLEAN, outcome \in {"ok", "error"} :
            RotatedRows(due, staging, aborts, outcome)
    BY <1>9
  <2>2. \A t \in Tables : chunkPaths'[t] \subseteq DOMAIN opfs'
    BY DEF Uncommitted, KeepInv, FilesInv
  <2>3. call'.at # "deleting" /\ \A t \in Tables : fileChunks'[t] \subseteq chunkPaths'[t]
    BY <1>2, <1>4, <2>1 DEF RotatedRows, ChunksOfFile
  <2>4. ASSUME NEW u \in Tables \ {FilesTable}, NEW p \in chunkPaths'[u]
        PROVE  /\ p \in fileChunks'[u] => \A r \in opfs'[p] : r.file = currentFile
               /\ p \notin fileChunks'[u] => \A r \in opfs'[p] : r.file # fileNo
    <3>1. CASE p \in chunkPaths[u]
      <4>1. opfs'[p] = opfs[p]
        BY <2>1, <2>2, <2>4, <3>1 DEF RotatedRows
      <4>2. p \in fileChunks'[u] <=> p \in fileChunks[u]
        BY <2>1, <3>1 DEF RotatedRows
      <4>. QED BY <1>4, <3>1, <4>1, <4>2 DEF ChunksOfFile
    <3>2. CASE p \notin chunkPaths[u]
      <4>1. opfs'[p] = staging[u]
        BY <2>1, <2>2, <2>4, <3>2 DEF RotatedRows
      <4>2. \A r \in staging[u] : r.file = currentFile
        BY <1>2, <2>4 DEF StagedInv, FileOf
      <4>3. \A r \in staging[u] : 0 < r.file
        BY <1>4, <2>4 DEF FilesOfRows, Kept
      <4>4. ASSUME NEW r \in staging[u] PROVE p \in fileChunks'[u]
        <5>1. currentFile # None
          BY <4>2, <4>3 DEF None
        <5>. QED BY <2>1, <2>4, <3>2, <5>1 DEF RotatedRows
      <4>. QED BY <4>1, <4>2, <4>4
    <3>. QED BY <3>1, <3>2
  <2>5. ChunksOfFile'
    BY <1>1, <2>3, <2>4 DEF ChunksOfFile
  <2>. QED BY <1>6, <1>7, <2>5
<1>. QED BY <1>8, <1>9, FlushMovesNoRow

\* A discard takes rows of the failed file only: staged ones first, then those of its chunks.
LEMMA DiscardTakes ==
    ASSUME TypeOK, ControlInv, KeepInv, StagedInv, KeptInv, RunDiscard \/ DiscardForgets, UNCHANGED callerVars, Uncommitted'
    PROVE  KeptButFile
<1>. USE FieldsOfCalls
<1>1. UNCHANGED <<dispose, appends, caller, fileNo, opfs>>
  BY DEF RunDiscard, DiscardForgets, databaseVars, callerVars, storeVars
<1>2. call.kind = "discard" /\ call.at \in {"queued", "ok"} /\ appends = {}
  BY RunningIsOfCall DEF RunDiscard, DiscardForgets, ControlInv, OneCall
<1>3. caller = "fileFailed" /\ currentFile = fileNo
  BY <1>2 DEF ControlInv, CallIsOfCaller, FileIsOfCaller
<1>4. Uncommitted
  BY <1>1, <1>2, <1>3 DEF Uncommitted, Live, QuotaMet
<1>5. FilesOfRows /\ ChunksOfFile
  BY <1>4 DEF KeptInv
<1>6. Kept[FilesTable] = {}
  BY <1>3, <1>5 DEF FilesOfRows
<1>7. ASSUME NEW t \in Tables
      PROVE  Kept'[t] \subseteq Kept[t] /\ \A r \in Kept[t] \ Kept'[t] : r.file = fileNo
  <2>1. Kept[t] = staging[t] \cup UNION {opfs[p] : p \in chunkPaths[t]}
    BY DEF Kept
  <2>2. CASE RunDiscard
    <3>1. Kept'[t] = staging'[t] \cup UNION {opfs[p] : p \in chunkPaths[t]}
      BY <1>1, <2>2 DEF Kept, RunDiscard
    <3>2. PICK emptied \in SUBSET created :
              IF Unserved THEN UNCHANGED <<staging, stagedBytes>> ELSE
                staging' = [u \in Tables |->
                   IF u \notin emptied THEN staging[u]
                   ELSE IF tier = "spill" THEN {}
                   ELSE {r \in staging[u] : r.file # Head(queue).file}]
      BY <2>2 DEF RunDiscard
    <3>3. Head(queue).file = fileNo
      BY <1>3, <2>2, RunningIsOfCall DEF RunDiscard
    <3>4. tier = "spill" /\ t # FilesTable => \A r \in staging[t] : r.file = fileNo
      BY <1>3 DEF StagedInv, FileOf
    <3>5. t = FilesTable => staging[t] = {}
      BY <1>6, <2>1
    <3>6. staging'[t] \subseteq staging[t] /\ \A r \in staging[t] \ staging'[t] : r.file = fileNo
      BY <3>2, <3>3, <3>4, <3>5
    <3>. QED BY <2>1, <3>1, <3>6
  <2>3. CASE DiscardForgets
    <3>1. Kept'[t] = staging[t] \cup UNION {opfs[p] : p \in chunkPaths[t] \ fileChunks[t]}
      BY <2>3 DEF DiscardForgets, Kept, storeVars
    <3>2. t # FilesTable => \A p \in fileChunks[t] \cap chunkPaths[t] : \A r \in opfs[p] : r.file = fileNo
      BY <1>3, <1>5 DEF ChunksOfFile
    <3>3. \A r \in Kept[t] \ Kept'[t] : \E p \in fileChunks[t] \cap chunkPaths[t] : r \in opfs[p]
      BY <2>1, <3>1
    <3>. QED BY <1>6, <2>1, <3>1, <3>2, <3>3
  <2>. QED BY <2>2, <2>3
<1>8. OfEarlier(AllKept)' = OfEarlier(AllKept)
  <2>1. \A r \in AllKept' : r \in AllKept
    BY <1>7 DEF AllKept
  <2>2. \A r \in AllKept : r \in AllKept' \/ r.file = fileNo
    BY <1>7 DEF AllKept
  <2>3. OfEarlier(AllKept') = OfEarlier(AllKept)
    BY <2>1, <2>2 DEF OfEarlier
  <2>. QED BY <1>1, <2>3 DEF OfEarlier
<1>. QED BY <1>3, <1>4, <1>7, <1>8 DEF KeptButFile

\* In memory the deletes, when all succeed, take all of the file's rows.
LEMMA DiscardHolds ==
    ASSUME TypeOK, ControlInv, KeepInv, StagedInv, KeptInv, RunDiscard, UNCHANGED callerVars
    PROVE  KeptInv'
<1>. USE FieldsOfCalls
<1>. SUFFICES ASSUME Uncommitted' PROVE (FilesOfRows /\ ChunksOfFile /\ KeptIsAccepted)'
  BY DEF KeptInv
<1>1. UNCHANGED <<dispose, tier, currentFile, appends, caller, fileNo, accepted, opfs, chunkPaths, fileChunks>>
  BY DEF RunDiscard, databaseVars, callerVars, fileVars
<1>2. call.kind = "discard" /\ call.at = "queued" /\ Head(queue).file = currentFile
  BY RunningIsOfCall DEF RunDiscard
<1>3. PICK emptied \in SUBSET created :
          /\ Returns(IF emptied = created /\ ~Unserved THEN "ok" ELSE "error")
          /\ IF Unserved THEN UNCHANGED <<staging, stagedBytes>> ELSE
                staging' = [t \in Tables |->
                   IF t \notin emptied THEN staging[t]
                   ELSE IF tier = "spill" THEN {}
                   ELSE {r \in staging[t] : r.file # Head(queue).file}]
  BY DEF RunDiscard
<1>4. call'.kind = "discard" /\ call'.at = IF emptied = created /\ ~Unserved THEN "ok" ELSE "error"
  BY <1>2, <1>3
<1>5. KeptButFile
  BY DiscardTakes
<1>6. /\ Uncommitted /\ caller = "fileFailed" /\ currentFile = fileNo
      /\ \A t \in Tables : Kept'[t] \subseteq Kept[t]
  BY <1>5 DEF KeptButFile
<1>7. FilesOfRows /\ ChunksOfFile /\ KeptIsAccepted
  BY <1>6 DEF KeptInv
<1>8. call'.at = "ok" /\ tier = "memory" => \A t \in Tables \ {FilesTable} : \A r \in Kept'[t] : r.file # fileNo
  <2>. SUFFICES ASSUME call'.at = "ok", tier = "memory", NEW t \in Tables PROVE \A r \in Kept'[t] : r.file # fileNo
    OBVIOUS
  <2>1. chunkPaths[t] = {} /\ (t \notin created => staging[t] = {})
    BY DEF KeepInv, StoreInv
  <2>2. \A r \in Kept'[t] : r \in staging'[t]
    <3>1. \A r : r \notin UNION {opfs[p] : p \in chunkPaths[t]}
      BY <2>1
    <3>2. Kept'[t] = staging'[t] \cup UNION {opfs[p] : p \in chunkPaths[t]}
      BY <1>1 DEF Kept
    <3>. QED BY <3>1, <3>2
  <2>3. emptied = created /\ ~Unserved
    BY <1>4
  <2>. QED BY <1>2, <1>3, <1>6, <2>1, <2>2, <2>3 DEF Tiers
<1>9. FilesOfRows'
  <2>1. SansFile' => call'.at = "ok" /\ tier = "memory"
    BY <1>1, <1>4, <1>6 DEF SansFile
  <2>2. Kept'[FilesTable] = {}
    BY <1>6, <1>7, IngestAssumption DEF FilesOfRows
  <2>. QED BY <1>1, <1>6, <1>7, <1>8, <2>1, <2>2, IngestAssumption DEF FilesOfRows
<1>10. ChunksOfFile'
  BY <1>1, <1>2, <1>4, <1>7 DEF ChunksOfFile
<1>11. KeptIsAccepted'
  <2>1. OfEarlier(accepted)' = OfEarlier(accepted)
    BY <1>1 DEF OfEarlier
  <2>. QED BY <1>1, <1>5, <1>6, <1>7, <2>1 DEF KeptIsAccepted, Failing, KeptButFile
<1>. QED BY <1>9, <1>10, <1>11

\* A discard then forgets the chunks of the failed file, which have its rows and no others.
LEMMA ForgetsHolds ==
    ASSUME TypeOK, ControlInv, KeepInv, StagedInv, KeptInv, DiscardForgets, UNCHANGED callerVars
    PROVE  KeptInv'
<1>. USE FieldsOfCalls
<1>. SUFFICES ASSUME Uncommitted' PROVE (FilesOfRows /\ ChunksOfFile /\ KeptIsAccepted)'
  BY DEF KeptInv
<1>1. /\ UNCHANGED <<dispose, tier, currentFile, appends, caller, fileNo, accepted, opfs, staging, fileChunks>>
      /\ call.kind = "discard" /\ call.at = "ok"
      /\ \A t \in Tables : chunkPaths'[t] = chunkPaths[t] \ fileChunks[t]
  BY DEF DiscardForgets, databaseVars, callerVars, storeVars, fileVars
<1>2. call'.kind = "discard" /\ call'.at = "deleting"
  <2>1. call \in SessionCalls
    BY DEF TypeOK, SessionTypeOK
  <2>. QED BY <1>1, <2>1 DEF DiscardForgets, SessionCalls
<1>3. KeptButFile
  BY DiscardTakes
<1>4. /\ Uncommitted /\ caller = "fileFailed" /\ currentFile = fileNo
      /\ \A t \in Tables : Kept'[t] \subseteq Kept[t]
  BY <1>3 DEF KeptButFile
<1>5. FilesOfRows /\ ChunksOfFile /\ KeptIsAccepted
  BY <1>4 DEF KeptInv
<1>6. ASSUME NEW t \in Tables \ {FilesTable}, NEW r \in Kept'[t]
      PROVE  r.file # fileNo
  <2>1. CASE r \in staging[t]
    <3>1. tier = "spill" => staging[t] = {}
      BY <1>1 DEF StagedInv, Empty
    <3>2. tier = "memory" => r.file # fileNo
      BY <1>1, <1>5, <2>1 DEF FilesOfRows, SansFile, Kept
    <3>. QED BY <2>1, <3>1, <3>2 DEF TypeOK, SessionTypeOK, Tiers
  <2>2. CASE r \notin staging[t]
    <3>1. Kept'[t] = staging[t] \cup UNION {opfs[p] : p \in chunkPaths[t] \ fileChunks[t]}
      BY <1>1 DEF Kept
    <3>2. PICK p \in chunkPaths[t] \ fileChunks[t] : r \in opfs[p]
      BY <1>6, <2>2, <3>1
    <3>. QED BY <1>5, <3>2 DEF ChunksOfFile
  <2>. QED BY <2>1, <2>2
<1>7. FilesOfRows'
  <2>1. Kept'[FilesTable] = {}
    BY <1>4, <1>5, IngestAssumption DEF FilesOfRows
  <2>. QED BY <1>1, <1>4, <1>5, <1>6, <2>1, IngestAssumption DEF FilesOfRows
<1>8. ChunksOfFile'
  <2>1. call'.at = "deleting"
    BY <1>2
  <2>2. \A t \in Tables : \A p \in chunkPaths'[t] : p \in chunkPaths[t] /\ p \notin fileChunks[t]
    BY <1>1
  <2>. QED BY <1>1, <1>5, <2>1, <2>2 DEF ChunksOfFile
<1>9. KeptIsAccepted'
  <2>1. OfEarlier(accepted)' = OfEarlier(accepted)
    BY <1>1 DEF OfEarlier
  <2>. QED BY <1>1, <1>3, <1>4, <1>5, <2>1 DEF KeptIsAccepted, Failing, KeptButFile
<1>. QED BY <1>7, <1>8, <1>9

\* The transaction and what follows it are past the point; so is an abort.
LEMMA CommitsHold ==
    ASSUME TypeOK, ControlInv, KeptInv, RunCommit \/ RunDrop \/ FinalizeCommits \/ FinalizeSwaps, UNCHANGED callerVars
    PROVE  KeptInv'
<1>. USE FieldsOfCalls
<1>1. CASE RunCommit \/ RunDrop
  <2>1. call.kind \in {"finalize", "abort"}
    BY <1>1, RunningIsOfCall DEF RunCommit, RunDrop
  <2>2. PICK outcome \in {"ok", "error"} : Returns(outcome)
    BY <1>1 DEF RunCommit, RunDrop
  <2>3. call'.kind = call.kind /\ call'.at # "queued"
    BY <2>2
  <2>. QED BY <2>1, <2>3 DEF KeptInv, Uncommitted, Live
<1>2. CASE FinalizeSwaps
  <2>1. call \in SessionCalls
    BY DEF TypeOK, SessionTypeOK
  <2>2. call'.kind = "finalize" /\ call'.at = "swapping"
    BY <1>2, <2>1 DEF FinalizeSwaps, SessionCalls
  <2>. QED BY <2>2 DEF KeptInv, Uncommitted
<1>3. CASE FinalizeCommits
  <2>1. /\ call.kind = "flushing" /\ call'.kind = "finalize" /\ call'.at \in {"queued", "error"}
        /\ UNCHANGED <<dispose, currentFile, appends, caller, fileNo, accepted, opfs, staging, chunkPaths, fileChunks, tier>>
        /\ call.at = "ok"
    BY <1>3 DEF FinalizeCommits, AtOnce, databaseVars, callerVars, storeVars, fileVars, tableVars
  <2>2. caller = "filed" /\ appends = {}
    BY <2>1 DEF ControlInv, CallIsOfCaller, OneCall
  <2>. SUFFICES ASSUME Uncommitted' PROVE (FilesOfRows /\ ChunksOfFile /\ KeptIsAccepted)'
    BY DEF KeptInv
  <2>3. Uncommitted
    BY <2>1, <2>2 DEF Uncommitted, Live, QuotaMet
  <2>4. FilesOfRows /\ ChunksOfFile /\ KeptIsAccepted
    BY <2>3 DEF KeptInv
  <2>5. Kept' = Kept /\ AllKept' = AllKept
    BY <2>1 DEF Kept, AllKept
  <2>6. FilesOfRows' /\ ChunksOfFile'
    BY <2>1, <2>2, <2>4, <2>5 DEF FilesOfRows, ChunksOfFile, SansFile
  <2>7. KeptIsAccepted'
    BY <2>1, <2>4, <2>5 DEF KeptIsAccepted, Failing, Answers, OfEarlier
  <2>. QED BY <2>6, <2>7
<1>. QED BY <1>1, <1>2, <1>3

LEMMA TheRestHolds ==
    ASSUME KeptInv, Teardown \/ Rest \/ UNCHANGED vars
    PROVE  KeptInv'
<1>1. CASE DisposeFinishes
  BY <1>1 DEF DisposeFinishes, KeptInv, Uncommitted
<1>2. CASE (Dispose /\ UNCHANGED callerVars) \/ Rest \/ UNCHANGED vars
  <2>1. /\ UNCHANGED <<call, currentFile, appends, caller, fileNo, accepted, opfs, staging, chunkPaths, fileChunks, tier>>
        /\ dispose' = dispose \/ dispose = "no"
    BY <1>2 DEF Dispose, Rest, vars, ingestVars, databaseVars, storeVars, tableVars, fileVars, sessionVars, callVars,
         callerVars
  <2>2. Uncommitted' => Uncommitted
    BY <2>1 DEF Uncommitted, Live, QuotaMet
  <2>3. Kept' = Kept /\ AllKept' = AllKept
    BY <2>1 DEF Kept, AllKept
  <2>4. FilesOfRows' = FilesOfRows /\ ChunksOfFile' = ChunksOfFile
    BY <2>1, <2>3 DEF FilesOfRows, ChunksOfFile, SansFile
  <2>5. KeptIsAccepted' = KeptIsAccepted
    BY <2>1, <2>3 DEF KeptIsAccepted, Failing, Answers, OfEarlier
  <2>. QED BY <2>2, <2>4, <2>5 DEF KeptInv
<1>. QED BY <1>1, <1>2 DEF Teardown

LEMMA KeptHolds == Spec => []KeptInv
<1>1. TypeInv /\ ControlInv /\ KeepInv /\ KeepInv' /\ AppendInv /\ StagedInv /\ KeptInv /\ [Next]_vars => KeptInv'
  <2>. SUFFICES ASSUME TypeOK, ControlInv, KeepInv, KeepInv', AppendInv, StagedInv, KeptInv, [Next]_vars
                PROVE  KeptInv'
    BY DEF TypeInv
  <2>1. CASE Opens \/ CallerStep
    BY <2>1, OpensHolds, CallsHold
  <2>2. CASE Return
    BY <2>2, ReturnsHold
  <2>3. CASE RunOperation /\ UNCHANGED callerVars
    BY <2>3, AppendHolds, FlushHolds, DiscardHolds, CommitsHold DEF RunOperation
  <2>4. CASE SessionStep /\ UNCHANGED callerVars
    BY <2>4, ForgetsHolds, CommitsHold DEF SessionStep
  <2>5. CASE Teardown \/ Rest \/ UNCHANGED vars
    BY <2>5, TheRestHolds
  <2>. QED BY <2>1, <2>2, <2>3, <2>4, <2>5 DEF Next, DatabaseStep
<1>. QED BY <1>1, KeptAtFirstIs, RowsHold, AppendRowsHold, KeepHolds, ControlHolds, TypesHold, PTL DEF Spec

-----------------------------------------------------------------------------
(* Refinement: what a step does to the rows a query reaches and to those accepted.            *)

\* A step that leaves the finals alone shows a query nothing, if it only deletes files, or
\* writes only those of an ingest that has not committed.
Hidden ==
    /\ UNCHANGED finals /\ (dispose = "done" <=> dispose' = "done")
    /\ \/ Shrinks
       \/ FinalsGeneration # generation /\ \A p \in DOMAIN opfs : p[1] # generation => opfs'[p] = opfs[p]

LEMMA ScannedKept ==
    ASSUME KeepInv, KeepInv', Hidden, dispose # "done", NEW t \in Tables
    PROVE  Scanned(t)' = Scanned(t)
<1>1. ASSUME NEW p \in finals[t].paths
      PROVE  p \in DOMAIN opfs /\ p \in DOMAIN opfs' /\ opfs'[p] = opfs[p]
  <2>1. p \in DOMAIN opfs /\ p[1] = FinalsGeneration /\ p \in DOMAIN opfs'
    BY <1>1 DEF KeepInv, FilesInv, Hidden
  <2>. QED BY <2>1, ShrunkFiles DEF Hidden
<1>2. {opfs'[p] : p \in finals[t].paths \cap DOMAIN opfs'} = {opfs[p] : p \in finals[t].paths \cap DOMAIN opfs}
  BY <1>1
<1>. QED BY <1>2 DEF Scanned, Hidden

LEMMA ContentsKept ==
    ASSUME KeepInv, KeepInv', Hidden
    PROVE  Contents' = Contents
<1>1. CASE dispose = "done"
  BY <1>1 DEF Contents, Hidden
<1>2. CASE dispose # "done"
  <2>1. \A t \in Tables : Scanned(t)' = Scanned(t)
    BY <1>2, ScannedKept
  <2>. QED BY <1>2, <2>1 DEF Contents, Hidden
<1>. QED BY <1>1, <1>2

\* The steps of AtomicIngest, in terms of this module's variables.
LEMMA AtomicSteps ==
    ASSUME TypeOK
    PROVE  /\ Contents' = Contents /\ accepted' \subseteq accepted => [Atomic!Next]_Atomic!vars
           /\ \A r \in Rows : r \notin accepted /\ accepted' = accepted \cup {r} /\ Contents' = Contents =>
                  [Atomic!Next]_Atomic!vars
           /\ Contents' \in {accepted, {}} /\ accepted' = accepted => [Atomic!Next]_Atomic!vars
<1>1. ASSUME Contents' = Contents, accepted' \subseteq accepted
      PROVE  Atomic!Drop
  <2>1. accepted' = accepted \ (accepted \ accepted') /\ accepted \ accepted' \in SUBSET accepted
    BY <1>1
  <2>. QED BY <1>1, <2>1 DEF Atomic!Drop
<1>2. ASSUME NEW r \in Rows, r \notin accepted, accepted' = accepted \cup {r}, Contents' = Contents
      PROVE  Atomic!Accept
  BY <1>2 DEF Atomic!Accept
<1>3. ASSUME Contents' \in {accepted, {}}, accepted' = accepted
      PROVE  Atomic!Publish \/ Atomic!Close
  BY <1>3 DEF Atomic!Publish, Atomic!Close
<1>. QED BY <1>1, <1>2, <1>3 DEF Atomic!Next

\* What the transaction publishes is what was held, and that is what was accepted.
LEMMA CommitPublishes ==
    ASSUME TypeOK, ControlInv, KeepInv, StagedInv, KeptInv, RunCommit, call'.at # "error"
    PROVE  /\ Uncommitted /\ \A t \in Tables : Scanned(t)' = Kept[t]
           /\ Contents' = accepted
<1>. USE FieldsOfCalls
<1>1. /\ UNCHANGED <<dispose, opfs>> /\ finals' = [t \in Tables |-> FinalOf(t)] /\ dispose = "no"
  <2>1. ~Returns("error")
    OBVIOUS
  <2>. QED BY <2>1 DEF RunCommit, Refused, databaseVars
<1>2. call.kind = "finalize" /\ call.at = "queued" /\ appends = {}
  BY RunningIsOfCall DEF RunCommit
<1>3. caller = "filed"
  BY <1>2 DEF ControlInv, CallIsOfCaller
<1>4. Uncommitted
  BY <1>1, <1>2, <1>3 DEF Uncommitted, Live, QuotaMet
<1>5. AllKept = accepted
  BY <1>2, <1>3, <1>4 DEF KeptInv, KeptIsAccepted, Failing, Answers
<1>6. ASSUME NEW t \in Tables
      PROVE  Scanned(t)' = Kept[t]
  <2>1. Scanned(t)' = FinalOf(t).rows \cup UNION {opfs[p] : p \in FinalOf(t).paths \cap DOMAIN opfs}
    BY <1>1 DEF Scanned
  <2>2. Kept[t] = staging[t] \cup UNION {opfs[p] : p \in chunkPaths[t]}
    BY DEF Kept
  <2>3. CASE tier = "spill" /\ t \in created /\ chunkPaths[t] # {}
    <3>1. FinalOf(t).rows = {} /\ FinalOf(t).paths = chunkPaths[t]
      BY <2>3 DEF FinalOf
    <3>2. staging[t] = {}
      BY <1>2, <2>3 DEF StagedInv, Empty
    <3>3. chunkPaths[t] \cap DOMAIN opfs = chunkPaths[t]
      BY <1>4, KeptTypes
    <3>. QED BY <2>1, <2>2, <3>1, <3>2, <3>3
  <2>4. CASE ~(tier = "spill" /\ t \in created /\ chunkPaths[t] # {})
    <3>1. FinalOf(t).rows = staging[t] /\ FinalOf(t).paths = {}
      BY <2>4 DEF FinalOf
    <3>2. chunkPaths[t] = {}
      BY <2>4 DEF KeepInv, StoreInv, TypeOK, SessionTypeOK, Tiers
    <3>3. UNION {opfs[p] : p \in {}} = {}
      OBVIOUS
    <3>4. {} \cap DOMAIN opfs = {}
      OBVIOUS
    <3>. QED BY <2>1, <2>2, <3>1, <3>2, <3>3, <3>4
  <2>. QED BY <2>3, <2>4
<1>. QED BY <1>1, <1>4, <1>5, <1>6 DEF Contents, AllKept

\* A rotation writes files of the ingest's own generation, which no view scans.
LEMMA RotationHides ==
    ASSUME TypeOK, ControlInv, KeepInv, KeepInv', RunAppend \/ RunFlush \/ RunResidual
    PROVE  Contents' = Contents
<1>. USE FieldsOfCalls
<1>1. UNCHANGED <<finals, dispose>>
  BY DEF RunAppend, RunFlush, RunResidual, catalogVars, databaseVars
<1>2. FinalsGeneration # generation
  <2>1. PICK op \in {"append", "flush", "residual"} : Running(op)
    BY DEF RunAppend, RunFlush, RunResidual
  <2>2. /\ call.kind \in {"none", "beginFile", "flushing"} /\ call.at # "swapping" /\ caller # "idle"
    <3>1. CASE op = "append"
      BY <2>1, <3>1, RunningIsOfCall DEF ControlInv, CallIsOfCaller
    <3>2. CASE op \in {"flush", "residual"}
      BY <2>1, <3>2, RunningIsOfCall DEF ControlInv, CallIsOfCaller
    <3>. QED BY <3>1, <3>2
  <2>3. catalogGen < generation /\ FinalsGeneration = catalogGen
    BY <2>2 DEF KeepInv, GenerationsInv, FinalsGeneration, Committed
  <2>4. catalogGen \in Nat /\ generation \in Nat
    BY IngestAssumption DEF TypeOK, SessionTypeOK, Generations, None
  <2>. QED BY <2>3, <2>4
<1>3. CASE UNCHANGED opfs
  BY <1>1, <1>3, ContentsKept DEF Shrinks, Hidden
<1>4. CASE \E due \in SUBSET Tables, staged \in [Tables -> SUBSET Rows], bytes \in [Tables -> Nat],
              aborts \in BOOLEAN, outcome \in {"ok", "error", "quota"} :
                  RotateOrAbort(due, staged, bytes, aborts, outcome)
  <2>1. PICK due \in SUBSET Tables, staged \in [Tables -> SUBSET Rows], bytes \in [Tables -> Nat],
              aborts \in BOOLEAN, outcome \in {"ok", "error", "quota"} :
                  RotateOrAbort(due, staged, bytes, aborts, outcome)
    BY <1>4
  <2>2. RotatedRows(due, staged, aborts, outcome)
    BY <2>1, RotateRows DEF KeepInv
  <2>. QED BY <1>1, <1>2, <2>2, ContentsKept DEF RotatedRows, Hidden
<1>5. CASE RunFlush \/ RunResidual
  <2>1. Due \in SUBSET Tables /\ staging \in [Tables -> SUBSET Rows] /\ stagedBytes \in [Tables -> Nat]
    BY DEF Due, TypeOK, SessionTypeOK
  <2>2. UNCHANGED opfs \/ \E aborts \in BOOLEAN, outcome \in {"ok", "error", "quota"} :
                              RotateOrAbort(Due, staging, stagedBytes, aborts, outcome)
    BY <1>5 DEF RunFlush, RunResidual, storeVars
  <2>. QED BY <1>3, <1>4, <2>1, <2>2
<1>6. CASE RunAppend
  <2>. DEFINE t == Head(queue).table
              staged == [staging EXCEPT ![t] = @ \cup {Head(queue).row}]
              bytes == [stagedBytes EXCEPT ![t] = @ + 1]
  <2>1. Head(queue) \in Operations
    BY <1>6, QueueType DEF RunAppend, TypeOK, SessionTypeOK
  <2>2. t \in Tables /\ Head(queue).row \in Rows
    BY <2>1 DEF Operations
  <2>3. staged \in [Tables -> SUBSET Rows] /\ bytes \in [Tables -> Nat]
    BY <2>2 DEF TypeOK, SessionTypeOK
  <2>4. UNCHANGED opfs \/ \E outcome \in {"ok", "error", "quota"} : RotateOrAbort({t}, staged, bytes, TRUE, outcome)
    BY <1>6 DEF RunAppend, storeVars
  <2>. HIDE DEF t, staged, bytes
  <2>5. {t} \in SUBSET Tables /\ TRUE \in BOOLEAN
    BY <2>2
  <2>. QED BY <1>3, <1>4, <2>3, <2>4, <2>5
<1>. QED BY <1>5, <1>6

\* Calls, and what each returns: only the row of an append that went well is new.
LEMMA CallersRefine ==
    ASSUME TypeOK, ControlInv, KeepInv, KeepInv', AppendInv, Opens \/ CallerStep \/ Return
    PROVE  [Atomic!Next]_Atomic!vars
<1>1. UNCHANGED <<finals, dispose>> /\ Shrinks
  BY DEF Opens, BeginIngest, CallerStep, BeginsFile, Appends, AppendsFiles, Discards, Finalizes, Aborts, CallBeginFile,
         CallAppend, CallDiscard, CallFinalize, CallAbort, Return, FileBegun, Appended, Discarded, Finalized, Aborted,
         ReturnBeginFile, ReturnAppend, ReturnDiscard, ReturnFinalize, ReturnAbort, ReclaimOnQuota, Shrinks,
         databaseVars, catalogVars, storeVars
<1>2. Contents' = Contents
  BY <1>1, ContentsKept DEF Hidden
<1>3. CASE ~Appended
  <2>1. accepted' \subseteq accepted
    BY <1>3 DEF Opens, CallerStep, BeginsFile, Appends, AppendsFiles, Discards, Finalizes, Aborts, callerVars, Return,
         FileBegun, Discarded, Finalized, Aborted
  <2>. QED BY <1>2, <2>1, AtomicSteps
<1>4. CASE Appended
  <2>1. PICK a \in appends : accepted' = IF a.at = "ok" THEN accepted \cup {a.row} ELSE accepted
    BY <1>4 DEF Appended
  <2>2. a.row \in Rows /\ a.row.n \in Nat
    BY IngestAssumption DEF TypeOK, SessionTypeOK, AppendCalls, Rows
  <2>3. a.row \notin accepted
    BY <2>2 DEF AppendInv
  <2>. QED BY <1>2, <2>1, <2>2, <2>3, AtomicSteps
<1>. QED BY <1>3, <1>4

\* The queue, the session and the database: only the transaction and disposal show anything.
LEMMA DatabaseRefines ==
    ASSUME TypeOK, ControlInv, KeepInv, KeepInv', StagedInv, KeptInv, DatabaseStep \/ Teardown \/ Rest \/ UNCHANGED vars
    PROVE  [Atomic!Next]_Atomic!vars
<1>1. UNCHANGED callerVars /\ accepted' = accepted
  BY DEF DatabaseStep, Teardown, Rest, vars, callerVars
<1>2. CASE Contents' = Contents
  BY <1>1, <1>2, AtomicSteps
<1>3. CASE RunAppend \/ RunFlush \/ RunResidual
  BY <1>2, <1>3, RotationHides
<1>4. CASE RunDiscard \/ RunDrop \/ SessionStep \/ Dispose \/ Rest \/ UNCHANGED vars
  <2>1. UNCHANGED <<finals, opfs>> /\ (dispose = "done" <=> dispose' = "done")
    BY <1>4 DEF RunDiscard, RunDrop, SessionStep, DiscardForgets, FinalizeCommits, FinalizeSwaps, Dispose, Rest, vars,
         ingestVars, databaseVars, catalogVars, storeVars
  <2>. QED BY <1>2, <2>1, ContentsKept DEF Shrinks, Hidden
<1>5. CASE RunCommit
  <2>1. UNCHANGED <<opfs, dispose>>
    BY <1>5 DEF RunCommit, databaseVars
  <2>2. call'.at = "error" => Contents' = Contents
    <3>1. Returns("ok") => call'.at = "ok"
      BY FieldsOfCalls
    <3>2. call'.at = "error" => UNCHANGED finals
      BY <1>5, <3>1 DEF RunCommit
    <3>. QED BY <2>1, <3>2, ContentsKept DEF Shrinks, Hidden
  <2>3. call'.at # "error" => Contents' = accepted
    BY <1>5, CommitPublishes
  <2>. QED BY <1>1, <1>2, <2>2, <2>3, AtomicSteps
<1>6. CASE DisposeFinishes
  <2>1. Contents' = {}
    BY <1>6 DEF DisposeFinishes, Contents
  <2>. QED BY <1>1, <2>1, AtomicSteps
<1>. QED BY <1>3, <1>4, <1>5, <1>6 DEF DatabaseStep, RunOperation, Teardown

\* A query sees an ingest whole or not at all: chunk rotation, failed rotations, discards, the
\* swap transaction and every failure of them (ingest-session.ts) implement AtomicIngest.
THEOREM IngestImplementsAtomic == Spec => IngestIsAtomic
<1>1. Init => Atomic!Init
  <2>. SUFFICES ASSUME Init PROVE Atomic!Init
    OBVIOUS
  <2>1. \A t \in Tables : Scanned(t) = {}
    BY DEF Init, IngestInit, Scanned
  <2>2. Contents = {}
    BY <2>1 DEF Contents
  <2>. QED BY <2>2 DEF Init, Atomic!Init
<1>2. /\ TypeInv /\ ControlInv /\ KeepInv /\ KeepInv' /\ AppendInv /\ StagedInv /\ KeptInv /\ [Next]_vars
      => [Atomic!Next]_Atomic!vars
  <2>. SUFFICES ASSUME TypeOK, ControlInv, KeepInv, KeepInv', AppendInv, StagedInv, KeptInv, [Next]_vars
                PROVE  [Atomic!Next]_Atomic!vars
    BY DEF TypeInv
  <2>. QED BY CallersRefine, DatabaseRefines DEF Next
<1>. QED BY <1>1, <1>2, TypesHold, ControlHolds, KeepHolds, AppendRowsHold, RowsHold, KeptHolds, PTL
         DEF Spec, IngestIsAtomic, Atomic!Spec
================================================================================
