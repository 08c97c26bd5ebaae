------------------------- MODULE IngestSession_proofs -------------------------
(***************************************************************************)
(* Proofs about the operations of an ingest session, whoever calls it: that they    *)
(* keep the types of the session's state.                                      *)
(***************************************************************************)
EXTENDS IngestSession, FiniteSetTheorems, SequenceTheorems, TLAPS

\* What a rotation makes of the store has its type.
LEMMA RotateType ==
    ASSUME SessionTypeOK, generation # None, NEW done \in SUBSET Tables, NEW copied \in SUBSET Tables,
           NEW staged \in [Tables -> SUBSET Rows], NEW bytes \in [Tables -> Nat],
           Rotate(done, copied, staged, bytes)
    PROVE  /\ DOMAIN opfs' \subseteq Paths /\ \A p \in DOMAIN opfs' : opfs'[p] \subseteq Rows
           /\ stagedBytes' \in [Tables -> Nat] /\ chunkIndex' \in [Tables -> Nat]
           /\ chunkPaths' \in [Tables -> SUBSET Paths] /\ fileChunks' \in [Tables -> SUBSET Paths]
<1>1. \A t \in Tables : NextPath(t) \in Paths /\ NextPath(t)[2] = t
  BY DEF NextPath, Paths, SessionTypeOK
<1>2. DOMAIN opfs' \subseteq Paths /\ \A p \in DOMAIN opfs' : opfs'[p] \subseteq Rows
  <2>1. DOMAIN opfs' = DOMAIN opfs \cup {NextPath(t) : t \in done \cup copied}
    BY DEF Rotate
  <2>2. ASSUME NEW p \in DOMAIN opfs'
        PROVE  p \in Paths /\ opfs'[p] \subseteq Rows
    <3>1. CASE p \in {NextPath(t) : t \in done \cup copied}
      <4>1. PICK t \in done \cup copied : p = NextPath(t)
        BY <3>1
      <4>2. opfs'[p] = staged[p[2]]
        BY <2>2, <3>1 DEF Rotate
      <4>. QED BY <1>1, <4>1, <4>2
    <3>2. CASE p \notin {NextPath(t) : t \in done \cup copied}
      <4>1. opfs'[p] = opfs[p] /\ p \in DOMAIN opfs
        BY <2>1, <2>2, <3>2 DEF Rotate
      <4>. QED BY <4>1 DEF SessionTypeOK
    <3>. QED BY <3>1, <3>2
  <2>. QED BY <2>2
<1>3. stagedBytes' \in [Tables -> Nat] /\ chunkIndex' \in [Tables -> Nat]
  BY DEF Rotate, SessionTypeOK
<1>4. chunkPaths' \in [Tables -> SUBSET Paths] /\ fileChunks' \in [Tables -> SUBSET Paths]
  BY <1>1 DEF Rotate, SessionTypeOK
<1>. QED BY <1>2, <1>3, <1>4

\* So has what it leaves in the staging tables, whatever its outcome.
LEMMA RotateOrAbortType ==
    ASSUME SessionTypeOK, generation # None, NEW due \in SUBSET Tables,
           NEW staged \in [Tables -> SUBSET Rows], NEW bytes \in [Tables -> Nat],
           NEW aborts \in BOOLEAN, NEW outcome \in Outcomes, RotateOrAbort(due, staged, bytes, aborts, outcome)
    PROVE  /\ DOMAIN opfs' \subseteq Paths /\ \A p \in DOMAIN opfs' : opfs'[p] \subseteq Rows
           /\ stagedBytes' \in [Tables -> Nat] /\ chunkIndex' \in [Tables -> Nat]
           /\ chunkPaths' \in [Tables -> SUBSET Paths] /\ fileChunks' \in [Tables -> SUBSET Paths]
           /\ staging' \in [Tables -> SUBSET Rows] /\ state' \in {"open", "finalized", "aborted", "failed"}
<1>1. PICK done \in SUBSET due : \E copied \in SUBSET (due \ done) :
           /\ Rotate(done, copied, staged, bytes)
           /\ IF outcome = "quota" /\ aborts
              THEN state' = "aborted" /\ DropStaging
              ELSE UNCHANGED state /\ staging' = Emptied(done, staged)
  BY DEF RotateOrAbort
<1>2. PICK copied \in SUBSET (due \ done) :
           /\ Rotate(done, copied, staged, bytes)
           /\ IF outcome = "quota" /\ aborts
              THEN state' = "aborted" /\ DropStaging
              ELSE UNCHANGED state /\ staging' = Emptied(done, staged)
  BY <1>1
<1>3. done \in SUBSET Tables /\ copied \in SUBSET Tables
  OBVIOUS
<1>4. staging' \in [Tables -> SUBSET Rows] /\ state' \in {"open", "finalized", "aborted", "failed"}
  BY <1>2 DEF SessionTypeOK, DropStaging, Emptied, Empty
<1>. QED BY <1>2, <1>3, <1>4, RotateType

\* An operation that is queued is one of Operations, and so is the one that runs.
LEMMA QueueType ==
    ASSUME queue \in Seq(Operations)
    PROVE  /\ \A o \in Operations : Enqueue(o) => queue' \in Seq(Operations)
           /\ \A op \in {"append", "flush", "discard", "residual", "commit", "drop"} :
                  Running(op) => queue' \in Seq(Operations) /\ Head(queue) \in Operations
<1>1. ASSUME NEW o \in Operations, Enqueue(o)
      PROVE  queue' \in Seq(Operations)
  <2>1. Append(queue, o) \in Seq(Operations)
    OBVIOUS
  <2>. QED BY <1>1, <2>1 DEF Enqueue
<1>2. ASSUME NEW op, Running(op)
      PROVE  queue' \in Seq(Operations) /\ Head(queue) \in Operations
  <2>1. queue # << >> /\ queue' = Tail(queue)
    BY <1>2 DEF Running
  <2>. QED BY <2>1
<1>. QED BY <1>1, <1>2

LEMMA OperationType ==
    ASSUME SessionTypeOK
    PROVE  /\ \A f \in Files \cup {None}, op \in {"flush", "discard", "residual", "commit", "drop"} :
                  Operation(op, f) \in Operations
           /\ \A t \in Tables, r \in Rows : Insertion(t, r) \in Operations
  BY IngestAssumption DEF SessionTypeOK, Operation, Operations, Insertion, Rows, NoRow

\* A call as it is made, and as it goes on.
LEMMA CallTypes ==
    /\ NoCall \in SessionCalls /\ AtOnce \in Outcomes
    /\ \A f \in Files \cup {None} :
          /\ Called("beginFile", AtOnce, f) \in SessionCalls /\ Called("beginFile", "ok", f) \in SessionCalls
          /\ Called("beginFile", "error", f) \in SessionCalls /\ Called("discard", AtOnce, f) \in SessionCalls
    /\ Called("discard", "nothing", None) \in SessionCalls
    /\ Called("flushing", AtOnce, None) \in SessionCalls /\ Called("finalize", AtOnce, None) \in SessionCalls
    /\ Called("finalize", "refused", None) \in SessionCalls
    /\ Called("abort", AtOnce, None) \in SessionCalls /\ Called("abort", "nothing", None) \in SessionCalls
<1>1. NoCall \in SessionCalls /\ AtOnce \in Outcomes
  BY DEF NoCall, SessionCalls, AtOnce, Outcomes, None
<1>2. ASSUME NEW f \in Files \cup {None},
             NEW kind \in {"beginFile", "discard", "flushing", "finalize", "abort"},
             NEW at \in Outcomes \cup {"nothing", "refused"}
      PROVE  Called(kind, at, f) \in SessionCalls
  BY <1>1 DEF NoCall, SessionCalls, Called
<1>3. AtOnce \in Outcomes \cup {"nothing", "refused"} /\ {"ok", "error"} \subseteq Outcomes
  BY <1>1 DEF Outcomes
<1>. QED BY <1>1, <1>2, <1>3

\* Deleting files leaves the others as they are.
LEMMA DeletedFiles ==
    \A S : /\ DOMAIN Deleted(S) = DOMAIN opfs \ S
           /\ \A p \in DOMAIN opfs \ S : Deleted(S)[p] = opfs[p]
  BY DEF Deleted

Shrinks == opfs' = opfs \/ \E S : opfs' = Deleted(S)

LEMMA ShrunkType ==
    ASSUME SessionTypeOK, Shrinks
    PROVE  DOMAIN opfs' \subseteq Paths /\ \A p \in DOMAIN opfs' : opfs'[p] \subseteq Rows
<1>1. CASE opfs' = opfs
  BY <1>1 DEF SessionTypeOK
<1>2. CASE \E S : opfs' = Deleted(S)
  <2>1. PICK S : opfs' = Deleted(S)
    BY <1>2
  <2>2. DOMAIN opfs' = DOMAIN opfs \ S /\ \A p \in DOMAIN opfs \ S : opfs'[p] = opfs[p]
    BY <2>1, DeletedFiles
  <2>. QED BY <2>2 DEF SessionTypeOK
<1>. QED BY <1>1, <1>2 DEF Shrinks

\* The outcome of an operation, given to the call that waits for it.
LEMMA OutcomeTypes ==
    ASSUME SessionTypeOK, NEW outcome \in Outcomes
    PROVE  /\ Answered(outcome) => appends' \subseteq AppendCalls
           /\ Returns(outcome) => call' \in SessionCalls /\ (call = NoCall => call.at = "none")
<1>1. Returns(outcome) => call' \in SessionCalls
  BY DEF SessionTypeOK, Returns, SessionCalls
<1>2. ASSUME Answered(outcome), NEW b \in appends'
      PROVE  b \in AppendCalls
  <2>1. PICK a \in appends : b = IF a.row = Head(queue).row THEN [a EXCEPT !.at = outcome] ELSE a
    BY <1>2 DEF Answered
  <2>2. a \in AppendCalls
    BY DEF SessionTypeOK
  <2>3. [a EXCEPT !.at = outcome] \in AppendCalls
    BY <2>2 DEF AppendCalls
  <2>. QED BY <2>1, <2>2, <2>3
<1>. QED BY <1>1, <1>2 DEF NoCall

\* A call keeps the types, whether it is queued or answered at once.
LEMMA CallsKeepTypes ==
    ASSUME SessionTypeOK
    PROVE  /\ \A t \in Tables, r \in Rows : CallAppend(t, r) => SessionTypeOK'
           /\ \A f \in Files : CallBeginFile(f) => SessionTypeOK'
           /\ CallDiscard \/ CallFinalize \/ CallAbort => SessionTypeOK'
<1>. USE DEF databaseVars, catalogVars, storeVars, tableVars, fileVars
<1>0. AtOnce \in Outcomes /\ queue \in Seq(Operations)
  BY CallTypes DEF SessionTypeOK
<1>1. ASSUME NEW t \in Tables, NEW r \in Rows, CallAppend(t, r)
      PROVE  SessionTypeOK'
  <2>1. queue' \in Seq(Operations)
    BY <1>0, <1>1, OperationType, QueueType DEF CallAppend
  <2>2. appends' \subseteq AppendCalls
    BY <1>0, <1>1 DEF CallAppend, AppendCalls, Outcomes, SessionTypeOK
  <2>3. UNCHANGED <<databaseVars, catalogVars, storeVars, generation, tier, state, tableVars, fileVars, call>>
    BY <1>1 DEF CallAppend
  <2>. QED BY <2>1, <2>2, <2>3 DEF SessionTypeOK
<1>2. ASSUME NEW f \in Files, CallBeginFile(f)
      PROVE  SessionTypeOK'
  <2>1. queue' \in Seq(Operations)
    <3>1. Operation("flush", f) \in Operations
      BY OperationType
    <3>. QED BY <1>0, <1>2, <3>1, QueueType DEF CallBeginFile
  <2>2. call' \in SessionCalls
    <3>1. {Called("beginFile", AtOnce, f), Called("beginFile", "ok", f), Called("beginFile", "error", f)} \subseteq SessionCalls
      BY CallTypes
    <3>. QED BY <1>2, <3>1 DEF CallBeginFile
  <2>3. UNCHANGED <<databaseVars, catalogVars, storeVars, generation, tier, state, tableVars, fileVars, appends>>
    BY <1>2 DEF CallBeginFile
  <2>. QED BY <2>1, <2>2, <2>3 DEF SessionTypeOK
<1>3. ASSUME CallDiscard
      PROVE  SessionTypeOK'
  <2>1. currentFile \in Files \cup {None}
    BY DEF SessionTypeOK
  <2>2. queue' \in Seq(Operations)
    <3>1. Operation("discard", currentFile) \in Operations
      BY <2>1, OperationType
    <3>. QED BY <1>0, <1>3, <3>1, QueueType DEF CallDiscard
  <2>3. call' \in SessionCalls
    <3>1. {Called("discard", AtOnce, currentFile), Called("discard", "nothing", None)} \subseteq SessionCalls
      BY <2>1, CallTypes
    <3>. QED BY <1>3, <3>1 DEF CallDiscard
  <2>4. UNCHANGED <<databaseVars, catalogVars, storeVars, generation, tier, state, tableVars, fileVars, appends>>
    BY <1>3 DEF CallDiscard
  <2>. QED BY <2>2, <2>3, <2>4 DEF SessionTypeOK
<1>4. ASSUME CallFinalize \/ CallAbort
      PROVE  SessionTypeOK'
  <2>1. queue' \in Seq(Operations)
    <3>1. \A op \in {"residual", "commit", "drop"} : Operation(op, None) \in Operations
      BY OperationType
    <3>. QED BY <1>0, <1>4, <3>1, QueueType DEF CallFinalize, CallAbort
  <2>2. call' \in SessionCalls
    <3>1. {Called("flushing", AtOnce, None), Called("finalize", AtOnce, None), Called("finalize", "refused", None),
           Called("abort", AtOnce, None), Called("abort", "nothing", None)} \subseteq SessionCalls
      BY CallTypes
    <3>. QED BY <1>4, <3>1 DEF CallFinalize, CallAbort
  <2>3. /\ UNCHANGED <<databaseVars, catalogVars, storeVars, generation, tier, tableVars, fileVars, appends>>
        /\ state' \in {state, "finalized", "aborted"}
    BY <1>4 DEF CallFinalize, CallAbort
  <2>. QED BY <2>1, <2>2, <2>3 DEF SessionTypeOK
<1>. QED BY <1>1, <1>2, <1>3, <1>4

\* An ingest begins with its types.
LEMMA BeginKeepsTypes ==
    ASSUME SessionTypeOK, NEW g \in Generations, NEW t \in Tiers, BeginIngest(g, t)
    PROVE  SessionTypeOK'
<1>1. /\ rowCounts' \in [Tables -> Nat] /\ stagedBytes' \in [Tables -> Nat]
      /\ chunkIndex' \in [Tables -> Nat] /\ chunkPaths' \in [Tables -> SUBSET Paths]
      /\ fileChunks' \in [Tables -> SUBSET Paths] /\ fileRows' \in [Tables -> Nat]
  BY DEF BeginIngest, Empty, Zero
<1>2. /\ activeIngest' = g /\ spillIngest' \in {g, None} /\ generation' = g /\ tier' = t /\ state' = "open"
      /\ created' = {} /\ currentFile' = None
      /\ UNCHANGED <<dispose, openAtDispose, catalogVars, storeVars, callVars>>
  BY DEF BeginIngest
<1>. QED BY <1>1, <1>2 DEF SessionTypeOK, catalogVars, storeVars, callVars

\* A call that returns keeps them.
LEMMA ReturnsKeepTypes ==
    ASSUME SessionTypeOK,
           \/ \E a \in appends : ReturnAppend(a)
           \/ ReturnBeginFile \/ ReturnDiscard \/ ReturnFinalize \/ ReturnAbort
    PROVE  SessionTypeOK'
<1>. USE DEF databaseVars, catalogVars, tableVars, fileVars
<1>0. NoCall \in SessionCalls
  BY CallTypes
<1>1. ASSUME NEW a \in appends, ReturnAppend(a)
      PROVE  SessionTypeOK'
  <2>1. DOMAIN opfs' \subseteq Paths /\ \A p \in DOMAIN opfs' : opfs'[p] \subseteq Rows
    <3>1. Shrinks
      BY <1>1 DEF ReturnAppend, ReclaimOnQuota, Shrinks
    <3>. QED BY <3>1, ShrunkType
  <2>2. activeIngest' \in Generations \cup {None} /\ spillIngest' \in Generations \cup {None}
    BY <1>1 DEF ReturnAppend, ReclaimOnQuota, Settled, NotSettled, SessionTypeOK
  <2>3. /\ appends' = appends \ {a}
        /\ UNCHANGED <<dispose, openAtDispose, catalogVars, staging, generation, tier, state, tableVars,
                       fileVars, queue, call>>
    BY <1>1 DEF ReturnAppend
  <2>. QED BY <2>1, <2>2, <2>3 DEF SessionTypeOK
<1>2. ASSUME ReturnBeginFile
      PROVE  SessionTypeOK'
  <2>1. /\ fileChunks' \in [Tables -> SUBSET Paths] /\ fileRows' \in [Tables -> Nat]
        /\ currentFile' \in Files \cup {None}
    <3>1. call.file \in Files \cup {None}
      BY DEF SessionTypeOK, SessionCalls
    <3>2. CASE currentFile' = call.file /\ fileChunks' = Empty /\ fileRows' = Zero
      BY ONLY <3>1, <3>2 DEF Empty, Zero
    <3>3. CASE UNCHANGED fileVars
      BY <3>3 DEF SessionTypeOK
    <3>. QED BY <1>2, <3>2, <3>3 DEF ReturnBeginFile
  <2>2. DOMAIN opfs' \subseteq Paths /\ \A p \in DOMAIN opfs' : opfs'[p] \subseteq Rows
    <3>1. Shrinks
      BY <1>2 DEF ReturnBeginFile, ReclaimOnQuota, Shrinks
    <3>. QED BY <3>1, ShrunkType
  <2>3. activeIngest' \in Generations \cup {None} /\ spillIngest' \in Generations \cup {None}
    BY <1>2 DEF ReturnBeginFile, ReclaimOnQuota, Settled, NotSettled, SessionTypeOK
  <2>4. /\ call' = NoCall
        /\ UNCHANGED <<dispose, openAtDispose, catalogVars, staging, generation, tier, state, tableVars,
                       queue, appends>>
    BY <1>2 DEF ReturnBeginFile
  <2>. QED BY <1>0, <2>1, <2>2, <2>3, <2>4 DEF SessionTypeOK
<1>3. ASSUME ReturnDiscard
      PROVE  SessionTypeOK'
  <2>1. /\ fileChunks' \in [Tables -> SUBSET Paths] /\ fileRows' \in [Tables -> Nat]
        /\ currentFile' \in Files \cup {None} /\ rowCounts' \in [Tables -> Nat]
    <3>1. CountsWithoutFile \in [Tables -> Nat]
      BY DEF CountsWithoutFile, AtLeastZero, SessionTypeOK
    <3>2. CASE call.at = "deleting"
      BY <1>3, <3>1, <3>2 DEF ReturnDiscard, Empty, Zero
    <3>3. CASE call.at # "deleting"
      BY <1>3, <3>3 DEF ReturnDiscard, SessionTypeOK
    <3>. QED BY <3>2, <3>3
  <2>2. DOMAIN opfs' \subseteq Paths /\ \A p \in DOMAIN opfs' : opfs'[p] \subseteq Rows
    <3>1. Shrinks
      BY <1>3 DEF ReturnDiscard, Shrinks
    <3>. QED BY <3>1, ShrunkType
  <2>3. /\ call' = NoCall
        /\ UNCHANGED <<databaseVars, catalogVars, staging, generation, tier, state, created,
                       stagedBytes, chunkIndex, chunkPaths, queue, appends>>
    BY <1>3 DEF ReturnDiscard
  <2>. QED BY <1>0, <2>1, <2>2, <2>3 DEF SessionTypeOK
<1>4. ASSUME ReturnFinalize \/ ReturnAbort
      PROVE  SessionTypeOK'
  <2>1. DOMAIN opfs' \subseteq Paths /\ \A p \in DOMAIN opfs' : opfs'[p] \subseteq Rows
    <3>1. Shrinks
      BY <1>4 DEF ReturnFinalize, ReturnAbort, Shrinks
    <3>. QED BY <3>1, ShrunkType
  <2>2. activeIngest' \in Generations \cup {None} /\ spillIngest' \in Generations \cup {None}
    BY <1>4 DEF ReturnFinalize, ReturnAbort, Settled, NotSettled, SessionTypeOK
  <2>3. /\ call' = NoCall /\ state' \in {state, "failed"}
        /\ UNCHANGED <<dispose, openAtDispose, catalogVars, staging, generation, tier, tableVars, fileVars,
                       queue, appends>>
    BY <1>4 DEF ReturnFinalize, ReturnAbort
  <2>. QED BY <1>0, <2>1, <2>2, <2>3 DEF SessionTypeOK
<1>. QED BY <1>1, <1>2, <1>3, <1>4

\* So does an operation of the queue, which is that of an ingest.
LEMMA OperationsKeepTypes ==
    ASSUME SessionTypeOK, generation # None, RunOperation
    PROVE  SessionTypeOK'
<1>. USE DEF SessionTypeOK, databaseVars, catalogVars, storeVars, tableVars, fileVars, Tiers
<1>0. {"ok", "error", "quota"} \subseteq Outcomes
  BY DEF Outcomes
<1>1. CASE RunAppend
  <2>1. Running("append")
    BY <1>1 DEF RunAppend, Running
  <2>2. queue' \in Seq(Operations) /\ Head(queue) \in Operations
    BY <2>1, QueueType
  <2>. DEFINE t == Head(queue).table
              staged == [staging EXCEPT ![t] = @ \cup {Head(queue).row}]
              bytes == [stagedBytes EXCEPT ![t] = @ + 1]
  <2>3. t \in Tables /\ Head(queue).row \in Rows
    BY <2>2 DEF Operations
  <2>4. staged \in [Tables -> SUBSET Rows] /\ bytes \in [Tables -> Nat]
    BY <2>3
  <2>5. CASE Answered("error") /\ UNCHANGED <<state, storeVars, tableVars, fileVars>>
    <3>1. appends' \subseteq AppendCalls
      BY <1>0, <2>5, OutcomeTypes
    <3>. QED BY <1>1, <2>1, <2>2, <2>5, <3>1 DEF RunAppend
  <2>6. CASE /\ created' = created \cup {t}
             /\ rowCounts' = [rowCounts EXCEPT ![t] = @ + 1]
             /\ fileRows' = IF currentFile # None
                            THEN [fileRows EXCEPT ![t] = @ + 1] ELSE fileRows
             /\ UNCHANGED currentFile
             /\ IF tier = "memory" \/ bytes[t] < RotateAt
                THEN /\ Answered("ok")
                     /\ staging' = staged
                     /\ stagedBytes' = IF tier = "memory" THEN stagedBytes ELSE bytes
                     /\ UNCHANGED <<state, opfs, chunkIndex, chunkPaths, fileChunks>>
                ELSE \E outcome \in {"ok", "error", "quota"} :
                       /\ Answered(outcome)
                       /\ RotateOrAbort({t}, staged, bytes, TRUE, outcome)
    <3>1. rowCounts' \in [Tables -> Nat] /\ fileRows' \in [Tables -> Nat] /\ created' \subseteq Tables
      <4>. HIDE DEF t
      <4>1. rowCounts' \in [Tables -> Nat]
        BY <2>3, <2>6
      <4>2. fileRows' \in [Tables -> Nat]
        <5>1. fileRows' = [fileRows EXCEPT ![t] = @ + 1] \/ fileRows' = fileRows
          BY <2>6
        <5>2. fileRows \in [Tables -> Nat]
          OBVIOUS
        <5>. QED BY ONLY <5>1, <5>2
      <4>3. created' \subseteq Tables
        BY <2>3, <2>6
      <4>. QED BY <4>1, <4>2, <4>3
    <3>2. /\ appends' \subseteq AppendCalls
          /\ DOMAIN opfs' \subseteq Paths /\ \A p \in DOMAIN opfs' : opfs'[p] \subseteq Rows
          /\ stagedBytes' \in [Tables -> Nat] /\ chunkIndex' \in [Tables -> Nat]
          /\ chunkPaths' \in [Tables -> SUBSET Paths] /\ fileChunks' \in [Tables -> SUBSET Paths]
          /\ staging' \in [Tables -> SUBSET Rows] /\ state' \in {"open", "finalized", "aborted", "failed"}
      <4>1. CASE tier = "memory" \/ bytes[t] < RotateAt
        <5>1. Answered("ok")
          BY <2>6, <4>1
        <5>2. appends' \subseteq AppendCalls
          BY <1>0, <5>1, OutcomeTypes
        <5>. QED BY <2>4, <2>6, <4>1, <5>2
      <4>2. CASE ~(tier = "memory" \/ bytes[t] < RotateAt)
        <5>1. PICK outcome \in {"ok", "error", "quota"} :
                 Answered(outcome) /\ RotateOrAbort({t}, staged, bytes, TRUE, outcome)
          BY <2>6, <4>2
        <5>2. appends' \subseteq AppendCalls
          BY <1>0, <5>1, OutcomeTypes
        <5>3. {t} \in SUBSET Tables /\ outcome \in Outcomes
          BY <1>0, <2>3
        <5>. HIDE DEF t, staged, bytes
        <5>. QED BY <2>1, <2>4, <5>1, <5>2, <5>3, RotateOrAbortType
      <4>. QED BY <4>1, <4>2
    <3>3. UNCHANGED <<databaseVars, catalogVars, generation, tier, call>>
      BY <1>1 DEF RunAppend
    <3>4. UNCHANGED currentFile
      BY <2>6
    <3>. HIDE DEF t, staged, bytes
    <3>. QED BY <2>1, <2>2, <3>1, <3>2, <3>3, <3>4
  <2>. QED BY <1>1, <2>5, <2>6 DEF RunAppend
<1>2. CASE RunFlush
  <2>1. Running("flush")
    BY <1>2 DEF RunFlush, Running
  <2>2. queue' \in Seq(Operations)
    BY <2>1, QueueType
  <2>3. /\ call' \in SessionCalls
        /\ DOMAIN opfs' \subseteq Paths /\ \A p \in DOMAIN opfs' : opfs'[p] \subseteq Rows
        /\ stagedBytes' \in [Tables -> Nat] /\ chunkIndex' \in [Tables -> Nat]
        /\ chunkPaths' \in [Tables -> SUBSET Paths] /\ fileChunks' \in [Tables -> SUBSET Paths]
        /\ staging' \in [Tables -> SUBSET Rows] /\ state' \in {"open", "finalized", "aborted", "failed"}
    <3>1. CASE Returns("error") /\ UNCHANGED <<state, storeVars, stagedBytes, chunkIndex, chunkPaths, fileChunks>>
      <4>1. call' \in SessionCalls
        BY <1>0, <3>1, OutcomeTypes
      <4>. QED BY <3>1, <4>1
    <3>2. CASE \E outcome \in {"ok", "error", "quota"} :
                  Returns(outcome) /\ RotateOrAbort(Due, staging, stagedBytes, TRUE, outcome)
      <4>1. PICK outcome \in {"ok", "error", "quota"} :
                  Returns(outcome) /\ RotateOrAbort(Due, staging, stagedBytes, TRUE, outcome)
        BY <3>2
      <4>2. Due \in SUBSET Tables /\ outcome \in Outcomes
        BY <1>0 DEF Due
      <4>3. call' \in SessionCalls
        BY <4>1, <4>2, OutcomeTypes
      <4>. QED BY <2>1, <4>1, <4>2, <4>3, RotateOrAbortType
    <3>. QED BY <1>2, <3>1, <3>2 DEF RunFlush
  <2>. QED BY <1>2, <2>1, <2>2, <2>3 DEF RunFlush
<1>3. CASE RunDiscard
  <2>1. Running("discard")
    BY <1>3 DEF RunDiscard, Running
  <2>2. queue' \in Seq(Operations)
    BY <2>1, QueueType
  <2>3. call' \in SessionCalls
    <3>1. Returns("ok") \/ Returns("error")
      BY <1>3 DEF RunDiscard
    <3>. QED BY <1>0, <3>1, OutcomeTypes
  <2>4. staging' \in [Tables -> SUBSET Rows] /\ stagedBytes' \in [Tables -> Nat]
    <3>1. CASE Unserved
      BY <1>3, <3>1 DEF RunDiscard
    <3>2. CASE ~Unserved
      <4>1. PICK emptied \in SUBSET created :
             /\ staging' = [t \in Tables |->
                   IF t \notin emptied THEN staging[t]
                   ELSE IF tier = "spill" THEN {}
                   ELSE {r \in staging[t] : r.file # Head(queue).file}]
             /\ stagedBytes' = [t \in Tables |->
                   IF t \in emptied /\ tier = "spill" THEN 0 ELSE stagedBytes[t]]
        BY <1>3, <3>2 DEF RunDiscard
      <4>. QED BY <4>1
    <3>. QED BY <3>1, <3>2
  <2>. QED BY <1>3, <2>1, <2>2, <2>3, <2>4 DEF RunDiscard
<1>4. CASE RunResidual
  <2>1. Running("residual")
    BY <1>4 DEF RunResidual, Running
  <2>2. queue' \in Seq(Operations)
    BY <2>1, QueueType
  <2>3. /\ call' \in SessionCalls
        /\ DOMAIN opfs' \subseteq Paths /\ \A p \in DOMAIN opfs' : opfs'[p] \subseteq Rows
        /\ stagedBytes' \in [Tables -> Nat] /\ chunkIndex' \in [Tables -> Nat]
        /\ chunkPaths' \in [Tables -> SUBSET Paths] /\ fileChunks' \in [Tables -> SUBSET Paths]
        /\ staging' \in [Tables -> SUBSET Rows] /\ state' \in {"open", "finalized", "aborted", "failed"}
    <3>1. CASE Returns("error") /\ UNCHANGED <<state, storeVars, stagedBytes, chunkIndex, chunkPaths, fileChunks>>
      <4>1. call' \in SessionCalls
        BY <1>0, <3>1, OutcomeTypes
      <4>. QED BY <3>1, <4>1
    <3>2. CASE \E outcome \in {"ok", "error", "quota"} :
                  Returns(outcome) /\ RotateOrAbort(Due, staging, stagedBytes, FALSE, outcome)
      <4>1. PICK outcome \in {"ok", "error", "quota"} :
                  Returns(outcome) /\ RotateOrAbort(Due, staging, stagedBytes, FALSE, outcome)
        BY <3>2
      <4>2. Due \in SUBSET Tables /\ outcome \in Outcomes
        BY <1>0 DEF Due
      <4>3. call' \in SessionCalls
        BY <4>1, <4>2, OutcomeTypes
      <4>. QED BY <2>1, <4>1, <4>2, <4>3, RotateOrAbortType
    <3>. QED BY <1>4, <3>1, <3>2 DEF RunResidual
  <2>. QED BY <1>4, <2>1, <2>2, <2>3 DEF RunResidual
<1>5. CASE RunCommit
  <2>1. Running("commit")
    BY <1>5 DEF RunCommit, Running
  <2>2. queue' \in Seq(Operations)
    BY <2>1, QueueType
  <2>3. call' \in SessionCalls
    <3>1. Returns("ok") \/ Returns("error")
      BY <1>5 DEF RunCommit
    <3>. QED BY <1>0, <3>1, OutcomeTypes
  <2>4. \A t \in Tables : FinalOf(t) \in [kind : {"none", "table", "view"},
                                          rows : SUBSET Rows, paths : SUBSET Paths]
    BY DEF FinalOf
  <2>5. /\ finals' \in [Tables -> [kind : {"none", "table", "view"}, rows : SUBSET Rows, paths : SUBSET Paths]]
        /\ staging' \in [Tables -> SUBSET Rows]
    <3>1. CASE UNCHANGED <<finals, staging>>
      BY <3>1
    <3>2. CASE finals' = [t \in Tables |-> FinalOf(t)] /\ staging' = Empty
      BY ONLY <3>2, <2>4 DEF Empty
    <3>. QED BY <1>5, <3>1, <3>2 DEF RunCommit, DropStaging
  <2>. QED BY <1>5, <2>1, <2>2, <2>3, <2>5 DEF RunCommit
<1>6. CASE RunDrop
  <2>1. Running("drop")
    BY <1>6 DEF RunDrop, Running
  <2>2. queue' \in Seq(Operations)
    BY <2>1, QueueType
  <2>3. call' \in SessionCalls
    <3>1. Returns("ok") \/ Returns("error")
      BY <1>6 DEF RunDrop
    <3>. QED BY <1>0, <3>1, OutcomeTypes
  <2>4. staging' \in [Tables -> SUBSET Rows]
    BY <1>6 DEF RunDrop, DropStaging, Empty
  <2>. QED BY <1>6, <2>1, <2>2, <2>3, <2>4 DEF RunDrop
<1>. QED BY <1>1, <1>2, <1>3, <1>4, <1>5, <1>6 DEF RunOperation

\* So do the steps a method takes without its caller, and disposal.
LEMMA StepsKeepTypes ==
    ASSUME SessionTypeOK, SessionStep \/ Dispose \/ DisposeFinishes
    PROVE  SessionTypeOK'
<1>. USE DEF SessionTypeOK, databaseVars, catalogVars, storeVars, tableVars, fileVars, callVars, sessionVars, Tiers
<1>1. CASE DiscardForgets
  <2>1. chunkPaths' \in [Tables -> SUBSET Paths]
    BY <1>1 DEF DiscardForgets
  <2>2. UNION {fileChunks[t] : t \in Tables} \in SUBSET Paths
    OBVIOUS
  <2>3. call' \in SessionCalls
    BY <1>1, <2>2 DEF DiscardForgets, SessionCalls
  <2>. QED BY <1>1, <2>1, <2>3 DEF DiscardForgets
<1>2. CASE FinalizeCommits
  <2>1. queue' \in Seq(Operations)
    BY <1>2, OperationType, QueueType DEF FinalizeCommits
  <2>2. call' \in SessionCalls
    BY <1>2, CallTypes DEF FinalizeCommits
  <2>. QED BY <1>2, <2>1, <2>2 DEF FinalizeCommits
<1>3. CASE FinalizeSwaps
  <2>1. catalogKinds' \in [Tables -> {"none", "table", "view"}] /\ catalogGen' \in Generations \cup {None}
    BY <1>3 DEF FinalizeSwaps
  <2>2. call' \in SessionCalls
    BY <1>3 DEF FinalizeSwaps, SessionCalls
  <2>. QED BY <1>3, <2>1, <2>2 DEF FinalizeSwaps
<1>4. CASE Dispose
  BY <1>4 DEF Dispose
<1>5. CASE DisposeFinishes
  <2>1. DOMAIN opfs' \subseteq Paths /\ \A p \in DOMAIN opfs' : opfs'[p] \subseteq Rows
    <3>1. Shrinks
      BY <1>5 DEF DisposeFinishes, Shrinks
    <3>. QED BY <3>1, ShrunkType
  <2>2. dispose' = "done" /\ UNCHANGED <<activeIngest, spillIngest, openAtDispose, catalogVars, staging,
                                         sessionVars, callVars>>
    BY <1>5 DEF DisposeFinishes
  <2>. QED BY <2>1, <2>2
<1>. QED BY <1>1, <1>2, <1>3, <1>4, <1>5 DEF SessionStep

\* The types hold before any ingest.
LEMMA TypesBeforeIngests == IngestInit => SessionTypeOK
<1>. SUFFICES ASSUME IngestInit PROVE SessionTypeOK
  OBVIOUS
<1>. USE DEF IngestInit
<1>1. DOMAIN opfs \subseteq Paths /\ \A p \in DOMAIN opfs : opfs[p] \subseteq Rows
  OBVIOUS
<1>2. queue \in Seq(Operations)
  OBVIOUS
<1>3. call \in SessionCalls
  BY CallTypes
<1>4. /\ staging \in [Tables -> SUBSET Rows] /\ chunkPaths \in [Tables -> SUBSET Paths]
      /\ fileChunks \in [Tables -> SUBSET Paths] /\ rowCounts \in [Tables -> Nat]
      /\ stagedBytes \in [Tables -> Nat] /\ chunkIndex \in [Tables -> Nat] /\ fileRows \in [Tables -> Nat]
      /\ catalogKinds \in [Tables -> {"none", "table", "view"}]
      /\ finals \in [Tables -> [kind : {"none", "table", "view"}, rows : SUBSET Rows, paths : SUBSET Paths]]
  BY DEF Empty, Zero
<1>. QED BY <1>1, <1>2, <1>3, <1>4 DEF SessionTypeOK, Tiers, None

\* The fields of a call as it is made, and after its operation has run.
LEMMA CallFields ==
    /\ NoCall.kind = "none" /\ NoCall.at = "none"
    /\ \A kind, at, f :
          /\ Called(kind, at, f).kind = kind /\ Called(kind, at, f).at = at
          /\ Called(kind, at, f).file = f
          /\ kind # "none" => Called(kind, at, f) # NoCall
    /\ \A outcome : SessionTypeOK /\ Returns(outcome) =>
          /\ call'.kind = call.kind /\ call'.at = outcome /\ call'.file = call.file
          /\ call'.chunks = call.chunks /\ call'.prev = call.prev
<1>1. \A outcome : SessionTypeOK /\ Returns(outcome) =>
          /\ call'.kind = call.kind /\ call'.at = outcome /\ call'.file = call.file
          /\ call'.chunks = call.chunks /\ call'.prev = call.prev
  BY DEF SessionTypeOK, SessionCalls, Returns
<1>2. NoCall.kind = "none" /\ NoCall.at = "none"
  BY DEF NoCall
<1>3. ASSUME NEW kind, NEW at, NEW f
      PROVE  /\ Called(kind, at, f).kind = kind /\ Called(kind, at, f).at = at
             /\ Called(kind, at, f).file = f
             /\ kind # "none" => Called(kind, at, f) # NoCall
  <2>1. /\ Called(kind, at, f).kind = kind /\ Called(kind, at, f).at = at
        /\ Called(kind, at, f).file = f
    BY DEF NoCall, Called
  <2>. QED BY <1>2, <2>1
<1>. QED BY <1>1, <1>2, <1>3
=============================================================================
