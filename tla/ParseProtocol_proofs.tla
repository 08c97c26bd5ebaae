------------------------- MODULE ParseProtocol_proofs -------------------------
(***************************************************************************)
(* Proofs about ParseProtocol, for any number of tasks, batches and workers and *)
(* any credit window: the type of its state, that a worker never has a second  *)
(* run, that batches are handed over in order, that a parse that resolves has  *)
(* handed over all of them and one the worker failed hands over none           *)
(* afterwards, that credit is conserved, and that the client waits only for an  *)
(* answer that comes.                                                        *)
(***************************************************************************)
EXTENDS ParseProtocol, FiniteSetTheorems, TLAPS

-----------------------------------------------------------------------------
(* Facts about the data.                                                   *)

LEMMA TaskFacts ==
    /\ NoTask \notin Tasks
    /\ \A n \in 0..MaxTasks : n < MaxTasks => n + 1 \in Tasks /\ n + 1 \in 0..MaxTasks
BY ProtocolAssumption DEF Tasks, NoTask

\* Sequences of one kind of message.
LEMMA SeqFacts ==
    ASSUME NEW S
    PROVE  /\ << >> \in Seq(S)
           /\ \A s \in Seq(S) : s # << >> => Head(s) \in S /\ Tail(s) \in Seq(S)
           /\ \A s \in Seq(S), x \in S :
                 /\ <<x>> \in Seq(S)
                 /\ s \o <<x>> \in Seq(S)
                 /\ Append(s, x) \in Seq(S)
OBVIOUS

\* A settlement leaves the outcomes well typed.
LEMMA SettledType ==
    ASSUME NEW out \in [Tasks -> Outcomes], NEW t \in Tasks \cup {NoTask},
           NEW how \in Outcomes
    PROVE  Settled(out, t, how) \in [Tasks -> Outcomes]
BY DEF Settled

-----------------------------------------------------------------------------
(* The type of the state.                                                  *)

\* Replacing or keeping the worker leaves its state well typed.
LEMMA ReplaceWorkerType ==
    ASSUME TypeOK, NEW inbox, ReplaceWorker(inbox)
    PROVE  /\ disposed' \in BOOLEAN
           /\ gen' \in Nat
           /\ alive' \in BOOLEAN
           /\ runs' \in [Tasks -> RunStates]
           /\ current' \in Tasks \cup {NoTask}
           /\ permits' \in Nat
           /\ toWorker' \in {inbox, << >>}
<1> USE DEF TypeOK, ClientTypeOK, WorkerTypeOK, ReplaceWorker
<1>1. disposed' \in BOOLEAN
  OBVIOUS
<1>2. gen' \in Nat
  OBVIOUS
<1>3. alive' \in BOOLEAN
  OBVIOUS
<1>4. runs' \in [Tasks -> RunStates]
  BY DEF StopWorker, RunStates
<1>5. current' \in Tasks \cup {NoTask} /\ permits' \in Nat
  BY DEF StopWorker
<1>6. toWorker' \in {inbox, << >>}
  OBVIOUS
<1>7. QED
  BY <1>1, <1>2, <1>3, <1>4, <1>5, <1>6

LEMMA KeepWorkerType ==
    ASSUME TypeOK, KeepWorker
    PROVE  /\ disposed' \in BOOLEAN /\ gen' \in Nat /\ alive' \in BOOLEAN
           /\ runs' \in [Tasks -> RunStates]
           /\ current' \in Tasks \cup {NoTask} /\ permits' \in Nat
BY DEF KeepWorker, TypeOK, ClientTypeOK, WorkerTypeOK

\* The client's calls.
LEMMA CallsType ==
    ASSUME TypeOK, Parse \/ ParsePostFails \/ Cancel \/ Dispose
    PROVE  TypeOK'
<1> USE DEF TypeOK
<1>1. CASE Parse
  <2> DEFINE request == [kind |-> "parse", task |-> nextTaskId']
  <2>1. nextTaskId' \in Tasks /\ nextTaskId' \in 0..MaxTasks /\ active' \in Tasks
    BY <1>1, TaskFacts DEF Parse, ClientTypeOK
  <2>2. Settled(outcome, active, "cancelled") \in [Tasks -> Outcomes]
    BY SettledType DEF ClientTypeOK, Outcomes
  <2>3. outcome' \in [Tasks -> Outcomes]
    BY <1>1, <2>1, <2>2 DEF Parse, Outcomes
  <2>4. request \in Requests
    BY <2>1 DEF Requests
  <2>5. \/ ReplaceWorker(<<request>>)
        \/ KeepWorker /\ toWorker' = toWorker \o <<request>>
    BY <1>1 DEF Parse
  <2>6. toWorker' \in Seq(Requests)
    BY ZenonT(60), <2>4, <2>5, SeqFacts, ReplaceWorkerType DEF PortsTypeOK
  <2>7. ClientTypeOK'
    BY <2>1, <2>3, <2>5, ReplaceWorkerType, KeepWorkerType DEF ClientTypeOK
  <2>8. WorkerTypeOK'
    BY <1>1, <2>5, ReplaceWorkerType, KeepWorkerType DEF WorkerTypeOK, Parse
  <2>9. ChainTypeOK' /\ PortsTypeOK'
    BY <1>1, <2>6 DEF Parse, ChainTypeOK, PortsTypeOK
  <2>10. QED
    BY <2>7, <2>8, <2>9
<1>2. CASE ParsePostFails
  <2>1. nextTaskId' \in Tasks /\ nextTaskId' \in 0..MaxTasks /\ active' = NoTask
    BY <1>2, TaskFacts DEF ParsePostFails, ClientTypeOK
  <2>2. Settled(outcome, active, "cancelled") \in [Tasks -> Outcomes]
    BY SettledType DEF ClientTypeOK, Outcomes
  <2>3. outcome' \in [Tasks -> Outcomes]
    BY <1>2, <2>1, <2>2 DEF ParsePostFails, Outcomes
  <2>4. ReplaceWorker(<< >>)
    BY <1>2 DEF ParsePostFails
  <2>5. ClientTypeOK' /\ WorkerTypeOK'
    BY <1>2, <2>1, <2>3, <2>4, ReplaceWorkerType
    DEF ParsePostFails, ClientTypeOK, WorkerTypeOK
  <2>6. ChainTypeOK' /\ PortsTypeOK'
    BY <1>2, <2>4, SeqFacts, ReplaceWorkerType
    DEF ParsePostFails, ChainTypeOK, PortsTypeOK
  <2>7. QED
    BY <2>5, <2>6
<1>3. CASE Cancel
  <2>1. outcome' \in [Tasks -> Outcomes]
    BY <1>3, SettledType DEF Cancel, ClientTypeOK, Outcomes
  <2>2. ReplaceWorker(<< >>)
    BY <1>3 DEF Cancel
  <2>3. ClientTypeOK' /\ WorkerTypeOK'
    BY <1>3, <2>1, <2>2, ReplaceWorkerType
    DEF Cancel, ClientTypeOK, WorkerTypeOK
  <2>4. ChainTypeOK' /\ PortsTypeOK'
    BY <1>3, <2>2, SeqFacts, ReplaceWorkerType DEF Cancel, ChainTypeOK, PortsTypeOK
  <2>5. QED
    BY <2>3, <2>4
<1>4. CASE Dispose
  <2>1. outcome' \in [Tasks -> Outcomes]
    BY <1>4, SettledType DEF Dispose, ClientTypeOK, Outcomes
  <2>2. runs' \in [Tasks -> RunStates]
    BY <1>4 DEF Dispose, StopWorker, WorkerTypeOK, RunStates
  <2>3. ClientTypeOK' /\ WorkerTypeOK'
    BY <1>4, <2>1, <2>2 DEF Dispose, StopWorker, ClientTypeOK, WorkerTypeOK
  <2>4. ChainTypeOK' /\ PortsTypeOK'
    BY <1>4, SeqFacts DEF Dispose, ChainTypeOK, PortsTypeOK
  <2>5. QED
    BY <2>3, <2>4
<1>5. QED
  BY <1>1, <1>2, <1>3, <1>4

\* The client's event handlers.
LEMMA DeliverType ==
    ASSUME TypeOK, Deliver
    PROVE  TypeOK'
<1> USE DEF TypeOK
<1>1. fromWorker # << >> /\ Event \in Events /\ fromWorker' \in Seq(Events)
  BY SeqFacts DEF Deliver, OnStale, OnBatch, OnFinish, OnError, OnCrash, Receive,
     Event, PortsTypeOK
<1>2. CASE OnStale
  BY <1>1, <1>2 DEF OnStale, clientVars, workerVars, ClientTypeOK, ChainTypeOK,
     WorkerTypeOK, PortsTypeOK
<1>3. CASE OnBatch
  <2>1. active \in Tasks => chain' \in [Tasks -> Seq(Nat)]
    BY <1>1, <1>3, SeqFacts DEF OnBatch, Chained, Events, ChainTypeOK
  <2>2. active \notin Tasks => chain' \in [Tasks -> Seq(Nat)]
    BY <1>3 DEF OnBatch, Chained, ChainTypeOK
  <2>3. ClientTypeOK' /\ ChainTypeOK'
    BY <1>3, <2>1, <2>2 DEF OnBatch, ClientTypeOK, ChainTypeOK
  <2>4. WorkerTypeOK' /\ PortsTypeOK'
    BY <1>1, <1>3 DEF OnBatch, workerVars, WorkerTypeOK, PortsTypeOK
  <2>5. QED
    BY <2>3, <2>4
<1>4. CASE OnFinish
  <2>1. ClientTypeOK' /\ ChainTypeOK'
    BY <1>4 DEF OnFinish, ClientTypeOK, ChainTypeOK
  <2>2. WorkerTypeOK' /\ PortsTypeOK'
    BY <1>1, <1>4 DEF OnFinish, workerVars, WorkerTypeOK, PortsTypeOK
  <2>3. QED
    BY <2>1, <2>2
<1>5. CASE OnError
  <2>1. ClientTypeOK' /\ ChainTypeOK'
    BY <1>5 DEF OnError, ClientTypeOK, ChainTypeOK
  <2>2. WorkerTypeOK' /\ PortsTypeOK'
    BY <1>1, <1>5 DEF OnError, workerVars, WorkerTypeOK, PortsTypeOK
  <2>3. QED
    BY <2>1, <2>2
<1>6. CASE OnCrash
  <2>1. ReplaceWorker(<< >>)
    BY <1>6 DEF OnCrash
  <2>2. ClientTypeOK' /\ ChainTypeOK'
    BY <1>6, <2>1, ReplaceWorkerType DEF OnCrash, ClientTypeOK, ChainTypeOK
  <2>3. WorkerTypeOK' /\ PortsTypeOK'
    BY <1>1, <1>6, <2>1, ReplaceWorkerType, SeqFacts
    DEF OnCrash, WorkerTypeOK, PortsTypeOK
  <2>4. QED
    BY <2>2, <2>3
<1>7. QED
  BY <1>2, <1>3, <1>4, <1>5, <1>6 DEF Deliver

\* A message the worker posts is an event.
LEMMA MessageType ==
    ASSUME TypeOK, NEW k \in {"batch", "finish", "error", "crash"},
           NEW t \in Tasks \cup {NoTask}, NEW n \in Nat, Post(Message(k, t, n))
    PROVE  fromWorker' \in Seq(Events)
<1>1. Message(k, t, n) \in Events
  BY DEF Message, Events, TypeOK, ClientTypeOK
<1>2. QED
  BY <1>1, SeqFacts DEF Post, TypeOK, PortsTypeOK

\* The worker's side.
LEMMA WorkerType ==
    ASSUME TypeOK,
           \/ WorkerParse \/ WorkerAck \/ Crash
           \/ \E t \in Tasks : WorkerStep(t)
    PROVE  TypeOK'
<1> USE DEF TypeOK
<1>1. ClientTypeOK' /\ ChainTypeOK'
  BY DEF WorkerParse, WorkerAck, Crash, WorkerStep, HeadRead, HeadReadFails, Take,
     PullBatch, PullEnd, clientVars, ClientTypeOK, ChainTypeOK
<1>2. CASE WorkerParse \/ WorkerAck
  <2>1. Request \in Requests /\ toWorker' \in Seq(Requests)
    BY <1>2, SeqFacts DEF WorkerParse, WorkerAck, Request, PortsTypeOK
  <2>2. runs' \in [Tasks -> RunStates]
    BY <1>2, <2>1 DEF WorkerParse, WorkerAck, WorkerTypeOK, RunStates, Running,
       Requests
  <2>3. permits' \in Nat
    BY <1>2 DEF WorkerParse, WorkerAck, WorkerTypeOK
  <2>4. WorkerTypeOK'
    BY <1>2, <2>2, <2>3 DEF WorkerParse, WorkerAck, WorkerTypeOK
  <2>5. QED
    BY <1>1, <1>2, <2>1, <2>4 DEF WorkerParse, WorkerAck, PortsTypeOK
<1>3. CASE Crash
  <2>1. runs' \in [Tasks -> RunStates]
    BY <1>3 DEF Crash, StopWorker, WorkerTypeOK, RunStates
  <2>2. WorkerTypeOK'
    BY <1>3, <2>1 DEF Crash, StopWorker, WorkerTypeOK
  <2>3. PortsTypeOK'
    BY <1>3, MessageType, SeqFacts DEF Crash, PortsTypeOK
  <2>4. QED
    BY <1>1, <2>2, <2>3
<1>4. ASSUME NEW t \in Tasks, WorkerStep(t)
      PROVE  TypeOK'
  <2>1. runs' \in [Tasks -> RunStates]
    BY <1>4 DEF WorkerStep, HeadRead, HeadReadFails, Take, PullBatch, PullEnd,
       WorkerTypeOK, RunStates, Running
  <2>2. current' \in Tasks \cup {NoTask} /\ alive' \in BOOLEAN
    BY <1>4 DEF WorkerStep, HeadRead, HeadReadFails, Take, PullBatch, PullEnd,
       WorkerTypeOK
  <2>3. permits' \in Nat
    BY <1>4, ProtocolAssumption DEF WorkerStep, HeadRead, HeadReadFails, Take,
       MayTake, PullBatch, PullEnd, WorkerTypeOK
  <2>4. sent' \in [Tasks -> Nat]
    BY <1>4 DEF WorkerStep, HeadRead, HeadReadFails, Take, PullBatch, PullEnd,
       WorkerTypeOK
  <2>5. toWorker' \in Seq(Requests)
    BY <1>4 DEF WorkerStep, HeadRead, HeadReadFails, Take, PullBatch, PullEnd,
       PortsTypeOK
  <2>6. fromWorker' \in Seq(Events)
    <3>1. sent[t] \in Nat /\ sent[t] + 1 \in Nat /\ 0 \in Nat
      BY DEF WorkerTypeOK
    <3>2. \/ UNCHANGED fromWorker
          \/ Post(Message("error", t, 0))
          \/ Post(Message("batch", t, sent[t] + 1))
          \/ \E k \in {"finish", "error"} : Post(Message(k, t, sent[t]))
      BY <1>4 DEF WorkerStep, HeadRead, HeadReadFails, Take, PullBatch, PullEnd
    <3>3. QED
      BY <3>1, <3>2, MessageType DEF PortsTypeOK
  <2>7. QED
    BY <1>1, <2>1, <2>2, <2>3, <2>4, <2>5, <2>6 DEF WorkerTypeOK, PortsTypeOK
<1>5. QED
  BY <1>2, <1>3, <1>4

\* The ack chains.
LEMMA ChainStepType ==
    ASSUME TypeOK, NEW t \in Tasks, ChainStep(t)
    PROVE  TypeOK'
<1> USE DEF TypeOK
<1>1. CASE StartBatch(t)
  <2>1. Head(chain[t]) \in Nat /\ Tail(chain[t]) \in Seq(Nat)
    BY <1>1, SeqFacts DEF StartBatch, ChainTypeOK
  <2>2. ChainTypeOK'
    BY <1>1, <2>1 DEF StartBatch, ChainTypeOK
  <2>3. QED
    BY <1>1, <2>2 DEF StartBatch, workerVars, ClientTypeOK, WorkerTypeOK, PortsTypeOK
<1>2. CASE HandlerDone(t)
  <2>1. [kind |-> "ack", task |-> t] \in Requests
    BY DEF Requests
  <2>2. PortsTypeOK'
    BY <1>2, <2>1, SeqFacts DEF HandlerDone, PortsTypeOK
  <2>3. ChainTypeOK'
    BY <1>2 DEF HandlerDone, ChainTypeOK
  <2>4. QED
    BY <1>2, <2>2, <2>3 DEF HandlerDone, workerVars, ClientTypeOK, WorkerTypeOK
<1>3. CASE HandlerFails(t)
  <2>1. outcome' \in [Tasks -> Outcomes]
    BY <1>3, SettledType DEF HandlerFails, ClientTypeOK, Outcomes
  <2>2. /\ active' \in {active, NoTask}
        /\ ReplaceWorker(<< >>) \/ (KeepWorker /\ UNCHANGED toWorker)
    BY <1>3 DEF HandlerFails
  <2>3. ClientTypeOK'
    BY <1>3, <2>1, <2>2, ReplaceWorkerType, KeepWorkerType
    DEF HandlerFails, ClientTypeOK
  <2>4. WorkerTypeOK'
    BY <1>3, <2>2, ReplaceWorkerType, KeepWorkerType DEF HandlerFails, WorkerTypeOK
  <2>5. ChainTypeOK' /\ PortsTypeOK'
    BY <1>3, <2>2, SeqFacts, ReplaceWorkerType
    DEF HandlerFails, ChainTypeOK, PortsTypeOK
  <2>6. QED
    BY <2>3, <2>4, <2>5
<1>4. CASE Settle(t)
  <2>1. outcome' \in [Tasks -> Outcomes]
    BY <1>4, SettledType DEF Settle, ClientTypeOK, Outcomes
  <2>2. ClientTypeOK' /\ ChainTypeOK'
    BY <1>4, <2>1 DEF Settle, ClientTypeOK, ChainTypeOK
  <2>3. QED
    BY <1>4, <2>2 DEF Settle, workerVars, WorkerTypeOK, PortsTypeOK
<1>5. QED
  BY <1>1, <1>2, <1>3, <1>4 DEF ChainStep

\* The initial state is well typed, and each step leaves the state well typed.
LEMMA TypeInit == Init => TypeOK
<1> SUFFICES ASSUME Init PROVE TypeOK
  OBVIOUS
<1> USE ProtocolAssumption DEF Init
<1>1. ClientTypeOK
  <2>1. outcome \in [Tasks -> Outcomes]
    BY DEF Outcomes
  <2>2. nextTaskId \in 0..MaxTasks /\ gen \in Nat
    OBVIOUS
  <2>3. QED
    BY <2>1, <2>2 DEF ClientTypeOK
<1>2. ChainTypeOK
  BY SeqFacts DEF ChainTypeOK
<1>3. WorkerTypeOK
  BY DEF WorkerTypeOK, RunStates
<1>4. PortsTypeOK
  BY SeqFacts DEF PortsTypeOK
<1>5. QED
  BY <1>1, <1>2, <1>3, <1>4 DEF TypeOK

LEMMA TypeStep == TypeOK /\ [Next]_vars => TypeOK'
<1> SUFFICES ASSUME TypeOK, [Next]_vars PROVE TypeOK'
  OBVIOUS
<1>1. CASE UNCHANGED vars
  BY <1>1 DEF TypeOK, ClientTypeOK, ChainTypeOK, WorkerTypeOK, PortsTypeOK, vars,
     clientVars, workerVars
<1>2. CASE Next
  BY <1>1, <1>2, CallsType, DeliverType, WorkerType, ChainStepType DEF Next, Rest
<1>3. QED
  BY <1>1, <1>2

\* The state always has its type.
THEOREM TypeCorrect == Spec => []TypeOK
<1>1. QED
  BY TypeInit, TypeStep, PTL DEF Spec

-----------------------------------------------------------------------------
(* One run per worker.                                                     *)

\* Only the task the client waits for runs.
RunsAreActive == \A t \in Tasks : runs[t] \in Running => active = t

\* The gate in use belongs to the run that takes from it.
GateIsOfTheRun == \A t \in Tasks : runs[t] \in {"take", "pull"} => current = t

\* A parse request is of the task the client waits for, which has not started,
\* and there is one at most.
RequestsAreActive ==
    /\ \A i \in 1..Len(toWorker) :
          toWorker[i].kind = "parse" =>
              toWorker[i].task = active /\ runs[active] = "none"
    /\ \A i, j \in 1..Len(toWorker) :
          toWorker[i].kind = "parse" /\ toWorker[j].kind = "parse" => i = j

\* The last message of a task comes from a run that has ended.
EndsAreOver ==
    \A i \in 1..Len(fromWorker) :
        fromWorker[i].kind \in {"finish", "error"} =>
            /\ fromWorker[i].task \in Tasks
            /\ runs[fromWorker[i].task] = "done"

\* A task that has not been given out has no run.
FutureHasNoRun ==
    /\ active <= nextTaskId
    /\ \A t \in Tasks : t > nextTaskId => runs[t] = "none"

\* OneRunPerWorker is not inductive: that the client takes an end message for the
\* end of the run, and that it never puts a second request into an inbox, need the
\* two ports in the invariant.
RunInv == RunsAreActive /\ GateIsOfTheRun /\ RequestsAreActive /\ EndsAreOver
            /\ FutureHasNoRun

IndInv == TypeOK /\ RunInv

\* The elements of a sequence that a message has left or joined.
LEMMA SeqElements ==
    ASSUME NEW S, NEW s \in Seq(S)
    PROVE  /\ s # << >> =>
                 /\ 1 \in 1..Len(s) /\ Head(s) = s[1]
                 /\ \A i \in 1..Len(Tail(s)) : i + 1 \in 1..Len(s) /\ Tail(s)[i] = s[i + 1]
           /\ \A x \in S :
                 /\ s \o <<x>> = Append(s, x)
                 /\ \A i \in 1..Len(Append(s, x)) :
                       \/ i \in 1..Len(s) /\ Append(s, x)[i] = s[i]
                       \/ i = Len(s) + 1 /\ Append(s, x)[i] = x
<1>1. s # << >> => 1 \in 1..Len(s) /\ Head(s) = s[1]
  OBVIOUS
<1>2. ASSUME s # << >>, NEW i \in 1..Len(Tail(s))
      PROVE  i + 1 \in 1..Len(s) /\ Tail(s)[i] = s[i + 1]
  BY <1>2
<1>3. ASSUME NEW x \in S
      PROVE  /\ s \o <<x>> = Append(s, x)
             /\ \A i \in 1..Len(Append(s, x)) :
                   \/ i \in 1..Len(s) /\ Append(s, x)[i] = s[i]
                   \/ i = Len(s) + 1 /\ Append(s, x)[i] = x
  <2>1. s \o <<x>> = Append(s, x)
    OBVIOUS
  <2>2. QED
    BY <2>1
<1>4. QED
  BY <1>1, <1>2, <1>3

\* Stopping the worker ends its runs and changes no run that had ended or that had
\* not started.
LEMMA StoppedRuns ==
    ASSUME TypeOK, StopWorker
    PROVE  \A t \in Tasks : /\ runs'[t] \notin Running
                            /\ runs[t] \notin Running => runs'[t] = runs[t]
BY DEF StopWorker, TypeOK, WorkerTypeOK, Running

LEMMA ReplacedStops ==
    ASSUME NEW inbox, ReplaceWorker(inbox)
    PROVE  StopWorker
BY DEF ReplaceWorker

\* Once the worker is stopped, only the inbox of the new one can break the
\* invariant.
LEMMA StoppedInv ==
    ASSUME IndInv, StopWorker
    PROVE  /\ RunsAreActive' /\ GateIsOfTheRun'
           /\ \A t \in Tasks : runs[t] = "done" => runs'[t] = "done"
           /\ \A t \in Tasks : runs[t] = "none" => runs'[t] = "none"
BY StoppedRuns DEF IndInv, RunsAreActive, GateIsOfTheRun, Running

LEMMA EmptyInbox == ASSUME toWorker' = << >> PROVE RequestsAreActive'
BY DEF RequestsAreActive

\* The end messages stay over while no ended run starts again and the worker posts
\* no end message of a run that goes on.
LEMMA EndsStayOver ==
    ASSUME IndInv, TypeOK',
           \A t \in Tasks : runs[t] = "done" => runs'[t] = "done",
           \A i \in 1..Len(fromWorker') :
               \/ \E j \in 1..Len(fromWorker) : fromWorker'[i] = fromWorker[j]
               \/ fromWorker'[i].kind \in {"batch", "crash"}
               \/ /\ fromWorker'[i].task \in Tasks
                  /\ runs'[fromWorker'[i].task] = "done"
    PROVE  EndsAreOver'
BY DEF IndInv, RunInv, EndsAreOver

\* The client's calls.
LEMMA CallsRun ==
    ASSUME IndInv, TypeOK', Parse \/ ParsePostFails \/ Cancel \/ Dispose
    PROVE  RunInv'
<1> USE DEF IndInv, RunInv
<1>1. UNCHANGED fromWorker
  BY DEF Parse, ParsePostFails, Cancel, Dispose
<1>2. CASE Parse
  <2> DEFINE request == [kind |-> "parse", task |-> nextTaskId']
  <2>1. /\ active' = nextTaskId' /\ nextTaskId' = nextTaskId + 1
        /\ nextTaskId \in Nat /\ nextTaskId' \in Tasks
    BY <1>2, TaskFacts, ProtocolAssumption DEF Parse, TypeOK, ClientTypeOK
  <2>2. runs[nextTaskId'] = "none"
    BY <2>1 DEF FutureHasNoRun, Tasks
  <2>3. /\ \A i \in 1..Len(toWorker') : toWorker'[i].kind = "parse" => toWorker'[i] = request
        /\ \A i, j \in 1..Len(toWorker') :
              toWorker'[i].kind = "parse" /\ toWorker'[j].kind = "parse" => i = j
        /\ \A t \in Tasks : runs[t] = "done" => runs'[t] = "done"
        /\ \A t \in Tasks : runs[t] = "none" => runs'[t] = "none"
        /\ \A t \in Tasks : runs'[t] \notin Running
        /\ GateIsOfTheRun'
    <3>1. CASE active # NoTask
      <4>1. ReplaceWorker(<<request>>)
        BY <1>2, <3>1 DEF Parse
      <4>2. toWorker' \in {<<request>>, << >>}
        BY <4>1, ReplaceWorkerType
      <4>3. QED
        BY <4>1, <4>2, ReplacedStops, StoppedInv, StoppedRuns
    <3>2. CASE active = NoTask
      <4>1. KeepWorker /\ toWorker' = toWorker \o <<request>>
        BY <1>2, <3>2 DEF Parse
      <4>2. request \in Requests /\ toWorker \in Seq(Requests)
        BY <2>1 DEF Requests, TypeOK, PortsTypeOK
      <4>3. toWorker' = Append(toWorker, request)
        BY <4>1, <4>2, SeqElements
      <4>4. \A i \in 1..Len(toWorker) : toWorker[i].kind # "parse"
        <5>1. \A i \in 1..Len(toWorker) : toWorker[i] \in Requests
          BY <4>2
        <5>2. \A r \in Requests : r.task # NoTask
          BY TaskFacts DEF Requests
        <5>3. QED
          BY <3>2, <5>1, <5>2 DEF RequestsAreActive
      <4>5. \A i \in 1..Len(toWorker') :
               toWorker'[i].kind = "parse" => i = Len(toWorker) + 1 /\ toWorker'[i] = request
        BY <4>2, <4>3, <4>4, SeqElements
      <4>6. runs' = runs /\ GateIsOfTheRun'
        BY <4>1 DEF KeepWorker, GateIsOfTheRun
      <4>7. \A t \in Tasks : runs[t] \notin Running
        BY <3>2, TaskFacts DEF RunsAreActive
      <4>8. QED
        BY <4>5, <4>6, <4>7
    <3>3. QED
      BY <3>1, <3>2
  <2>4. RunsAreActive' /\ GateIsOfTheRun'
    BY <2>3 DEF RunsAreActive
  <2>5. RequestsAreActive'
    BY <2>1, <2>2, <2>3 DEF RequestsAreActive
  <2>6. EndsAreOver'
    BY <1>1, <2>3, EndsStayOver
  <2>7. FutureHasNoRun'
    BY <2>1, <2>3 DEF FutureHasNoRun, Tasks
  <2>8. QED
    BY <2>4, <2>5, <2>6, <2>7
<1>3. CASE ParsePostFails \/ Cancel \/ Dispose
  <2>1. StopWorker /\ toWorker' = << >> /\ active' = NoTask
    BY <1>3, ReplacedStops, ReplaceWorkerType DEF ParsePostFails, Cancel, Dispose
  <2>2. nextTaskId \in Nat /\ nextTaskId' \in Nat /\ nextTaskId <= nextTaskId'
    BY <1>3, ProtocolAssumption DEF ParsePostFails, Cancel, Dispose, TypeOK, ClientTypeOK
  <2>3. RunsAreActive' /\ GateIsOfTheRun' /\ RequestsAreActive' /\ EndsAreOver'
    BY <1>1, <2>1, StoppedInv, EmptyInbox, EndsStayOver
  <2>4. FutureHasNoRun'
    BY <2>1, <2>2, StoppedInv DEF FutureHasNoRun, Tasks, NoTask
  <2>5. QED
    BY <2>3, <2>4
<1>4. QED
  BY <1>2, <1>3

\* The client's event handlers: the end of a run frees the worker, a crash replaces
\* it.
LEMMA DeliverRun ==
    ASSUME IndInv, TypeOK', Deliver
    PROVE  RunInv'
<1> USE DEF IndInv, RunInv
<1>1. /\ fromWorker \in Seq(Events) /\ fromWorker # << >>
      /\ fromWorker' = Tail(fromWorker) /\ Event = fromWorker[1] /\ 1 \in 1..Len(fromWorker)
  BY SeqElements DEF Deliver, OnStale, OnBatch, OnFinish, OnError, OnCrash, Receive,
     Event, TypeOK, PortsTypeOK
<1>2. \A i \in 1..Len(fromWorker') :
         \E j \in 1..Len(fromWorker) : fromWorker'[i] = fromWorker[j]
  BY <1>1, SeqElements
<1>3. CASE OnStale \/ OnBatch
  <2>1. UNCHANGED <<active, nextTaskId, runs, current, toWorker>>
    BY <1>3 DEF OnStale, OnBatch, clientVars, workerVars
  <2>2. EndsAreOver'
    BY <1>2, <2>1, EndsStayOver
  <2>3. QED
    BY <2>1, <2>2 DEF RunsAreActive, GateIsOfTheRun, RequestsAreActive, FutureHasNoRun
<1>4. CASE OnFinish \/ OnError
  <2>1. /\ UNCHANGED <<nextTaskId, runs, current, toWorker>>
        /\ active' = NoTask
        /\ Event.kind \in {"finish", "error"} /\ Event.task = active
    BY <1>4 DEF OnFinish, OnError, Heard, workerVars
  <2>2. active \in Tasks /\ runs[active] = "done"
    BY <1>1, <2>1 DEF EndsAreOver
  <2>3. \A t \in Tasks : runs[t] \notin Running
    BY <2>2 DEF RunsAreActive, Running
  <2>4. \A i \in 1..Len(toWorker) : toWorker[i].kind # "parse"
    BY <2>2 DEF RequestsAreActive
  <2>5. RunsAreActive' /\ GateIsOfTheRun' /\ RequestsAreActive'
    BY <2>1, <2>3, <2>4 DEF RunsAreActive, GateIsOfTheRun, RequestsAreActive
  <2>6. EndsAreOver'
    BY <1>2, <2>1, EndsStayOver
  <2>7. FutureHasNoRun'
    BY <2>1 DEF FutureHasNoRun, TypeOK, ClientTypeOK, NoTask
  <2>8. QED
    BY <2>5, <2>6, <2>7
<1>5. CASE OnCrash
  <2>1. /\ StopWorker /\ toWorker' = << >>
        /\ active' = NoTask /\ UNCHANGED nextTaskId
    BY <1>5, ReplacedStops, ReplaceWorkerType DEF OnCrash
  <2>2. RunsAreActive' /\ GateIsOfTheRun' /\ RequestsAreActive' /\ EndsAreOver'
    BY <1>2, <2>1, StoppedInv, EmptyInbox, EndsStayOver
  <2>3. FutureHasNoRun'
    BY <2>1, StoppedInv DEF FutureHasNoRun, TypeOK, ClientTypeOK, NoTask
  <2>4. QED
    BY <2>2, <2>3
<1>6. QED
  BY <1>3, <1>4, <1>5 DEF Deliver

\* The ack chains: an ack is no parse request, and a failing batch gives the worker
\* up.
LEMMA ChainRun ==
    ASSUME IndInv, TypeOK', NEW t \in Tasks, ChainStep(t)
    PROVE  RunInv'
<1> USE DEF IndInv, RunInv
<1>1. UNCHANGED <<nextTaskId, fromWorker>>
  BY DEF ChainStep, StartBatch, HandlerDone, HandlerFails, Settle
<1>2. CASE StartBatch(t) \/ Settle(t)
  <2>1. UNCHANGED <<active, runs, current, toWorker>>
    BY <1>2 DEF StartBatch, Settle, workerVars
  <2>2. EndsAreOver'
    BY <1>1, <2>1, EndsStayOver
  <2>3. QED
    BY <1>1, <2>1, <2>2
    DEF RunsAreActive, GateIsOfTheRun, RequestsAreActive, FutureHasNoRun
<1>3. CASE HandlerDone(t)
  <2> DEFINE ack == [kind |-> "ack", task |-> t]
  <2>1. UNCHANGED <<active, runs, current>>
    BY <1>3 DEF HandlerDone, workerVars
  <2>2. ack \in Requests /\ toWorker \in Seq(Requests) /\ ack.kind # "parse"
    BY DEF Requests, TypeOK, PortsTypeOK
  <2>3. toWorker' = toWorker \/ toWorker' = Append(toWorker, ack)
    BY <1>3 DEF HandlerDone
  <2>4. \A i \in 1..Len(toWorker') :
           toWorker'[i].kind = "parse" =>
               i \in 1..Len(toWorker) /\ toWorker'[i] = toWorker[i]
    BY <2>2, <2>3, SeqElements
  <2>5. RequestsAreActive'
    BY <2>1, <2>4 DEF RequestsAreActive
  <2>6. EndsAreOver'
    BY <1>1, <2>1, EndsStayOver
  <2>7. QED
    BY <1>1, <2>1, <2>5, <2>6 DEF RunsAreActive, GateIsOfTheRun, FutureHasNoRun
<1>4. CASE HandlerFails(t)
  <2>1. CASE active = t
    <3>1. StopWorker /\ toWorker' = << >> /\ active' = NoTask
      BY <1>4, <2>1, ReplacedStops, ReplaceWorkerType DEF HandlerFails
    <3>2. RunsAreActive' /\ GateIsOfTheRun' /\ RequestsAreActive' /\ EndsAreOver'
      BY <1>1, <3>1, StoppedInv, EmptyInbox, EndsStayOver
    <3>3. FutureHasNoRun'
      BY <1>1, <3>1, StoppedInv DEF FutureHasNoRun, TypeOK, ClientTypeOK, NoTask
    <3>4. QED
      BY <3>2, <3>3
  <2>2. CASE active # t
    <3>1. UNCHANGED <<active, runs, current, toWorker>>
      BY <1>4, <2>2 DEF HandlerFails, KeepWorker
    <3>2. EndsAreOver'
      BY <1>1, <3>1, EndsStayOver
    <3>3. QED
      BY <1>1, <3>1, <3>2
      DEF RunsAreActive, GateIsOfTheRun, RequestsAreActive, FutureHasNoRun
  <2>3. QED
    BY <2>1, <2>2
<1>5. QED
  BY <1>2, <1>3, <1>4 DEF ChainStep

\* What the worker posts joins the events already on the way.
LEMMA PostedEvents ==
    ASSUME TypeOK, NEW k \in {"batch", "finish", "error", "crash"},
           NEW t \in Tasks \cup {NoTask}, NEW n \in Nat, Post(Message(k, t, n))
    PROVE  \A i \in 1..Len(fromWorker') :
               \/ \E j \in 1..Len(fromWorker) : fromWorker'[i] = fromWorker[j]
               \/ fromWorker'[i].kind = k /\ fromWorker'[i].task = t
<1> DEFINE m == Message(k, t, n)
<1>1. m \in Events /\ fromWorker \in Seq(Events) /\ m.kind = k /\ m.task = t
  BY DEF Message, Events, TypeOK, ClientTypeOK, PortsTypeOK
<1>2. fromWorker' = Append(fromWorker, m)
  BY DEF Post
<1> HIDE DEF m
<1>3. QED
  BY <1>1, <1>2, SeqElements

\* The worker's side: it starts the run it is asked for, and says that a run has
\* ended only once it has.
LEMMA WorkerRun ==
    ASSUME IndInv, TypeOK',
           \/ WorkerParse \/ WorkerAck \/ Crash
           \/ \E t \in Tasks : WorkerStep(t)
    PROVE  RunInv'
<1> USE DEF IndInv, RunInv
<1>1. UNCHANGED <<active, nextTaskId>>
  BY DEF WorkerParse, WorkerAck, Crash, WorkerStep, HeadRead, HeadReadFails, Take,
     PullBatch, PullEnd, clientVars
<1>2. \A t \in Tasks : active = t => t <= nextTaskId
  BY DEF FutureHasNoRun
<1>3. ASSUME toWorker # << >>, toWorker' = Tail(toWorker)
      PROVE  \A i \in 1..Len(toWorker') :
                i + 1 \in 1..Len(toWorker) /\ toWorker'[i] = toWorker[i + 1]
  BY <1>3, SeqElements DEF TypeOK, PortsTypeOK
<1>4. CASE WorkerParse
  <2>1. /\ toWorker # << >> /\ toWorker' = Tail(toWorker)
        /\ Request = toWorker[1] /\ 1 \in 1..Len(toWorker)
        /\ UNCHANGED <<current, fromWorker>>
    BY <1>4, SeqElements DEF WorkerParse, Request, TypeOK, PortsTypeOK
  <2>2. /\ active \in Tasks /\ runs[active] = "none"
        /\ runs' = [runs EXCEPT ![active] = "head"]
    <3>1. Request \in Requests
      BY <2>1 DEF TypeOK, PortsTypeOK
    <3>2. Request.task \in Tasks
      BY <3>1 DEF Requests
    <3>3. QED
      BY <1>4, <2>1, <3>2 DEF WorkerParse, RequestsAreActive
  <2>3. \A t \in Tasks : runs'[t] = IF t = active THEN "head" ELSE runs[t]
    BY <2>2 DEF TypeOK, WorkerTypeOK
  <2>4. \A i \in 1..Len(toWorker') : toWorker'[i].kind # "parse"
    <3>1. \A i \in 1..Len(toWorker) : i # 1 => toWorker[i].kind # "parse"
      BY <1>4, <2>1 DEF WorkerParse, RequestsAreActive
    <3>2. \A i \in 1..Len(toWorker') : i + 1 # 1
      OBVIOUS
    <3>3. QED
      BY <1>3, <2>1, <3>1, <3>2
  <2>5. RunsAreActive' /\ GateIsOfTheRun'
    BY <1>1, <2>1, <2>3 DEF RunsAreActive, GateIsOfTheRun
  <2>6. RequestsAreActive'
    BY <2>4 DEF RequestsAreActive
  <2>7. EndsAreOver'
    BY <2>1, <2>2, <2>3, EndsStayOver
  <2>8. FutureHasNoRun'
    BY <1>1, <1>2, <2>2, <2>3 DEF FutureHasNoRun, TypeOK, ClientTypeOK, Tasks
  <2>9. QED
    BY <2>5, <2>6, <2>7, <2>8
<1>5. CASE WorkerAck
  <2>1. /\ toWorker # << >> /\ toWorker' = Tail(toWorker)
        /\ UNCHANGED <<runs, current, fromWorker>>
    BY <1>5 DEF WorkerAck
  <2>2. RequestsAreActive'
    <3>1. \A i, j \in 1..Len(toWorker') : i + 1 = j + 1 => i = j
      OBVIOUS
    <3>2. QED
      BY <1>1, <1>3, <2>1, <3>1 DEF RequestsAreActive
  <2>3. EndsAreOver'
    BY <2>1, EndsStayOver
  <2>4. QED
    BY <1>1, <2>1, <2>2, <2>3 DEF RunsAreActive, GateIsOfTheRun, FutureHasNoRun
<1>6. CASE Crash
  <2>1. StopWorker /\ toWorker' = << >>
    BY <1>6 DEF Crash
  <2>2. \A i \in 1..Len(fromWorker') :
           \/ \E j \in 1..Len(fromWorker) : fromWorker'[i] = fromWorker[j]
           \/ fromWorker'[i].kind = "crash"
    BY <1>6, PostedEvents DEF Crash
  <2>3. RunsAreActive' /\ GateIsOfTheRun' /\ RequestsAreActive' /\ EndsAreOver'
    BY <2>1, <2>2, StoppedInv, EmptyInbox, EndsStayOver
  <2>4. FutureHasNoRun'
    BY <1>1, <2>1, StoppedInv DEF FutureHasNoRun
  <2>5. QED
    BY <2>3, <2>4
<1>7. ASSUME NEW t \in Tasks, WorkerStep(t)
      PROVE  RunInv'
  <2>1. /\ runs[t] \in Running /\ UNCHANGED toWorker
        /\ \E r \in RunStates \ {"none", "killed"} : runs' = [runs EXCEPT ![t] = r]
    BY <1>7 DEF WorkerStep, HeadRead, HeadReadFails, Take, MayTake, PullBatch, PullEnd,
       RunStates, Running
  <2>2. /\ active = t
        /\ \A u \in Tasks : u # t => runs'[u] = runs[u] /\ runs[u] \notin Running
    BY <2>1 DEF RunsAreActive, TypeOK, WorkerTypeOK
  <2>3. \A u \in Tasks : /\ runs[u] = "done" => runs'[u] = "done"
                         /\ runs[u] = "none" => runs'[u] = "none"
    BY <2>1, <2>2 DEF Running
  <2>4. runs'[t] \in {"take", "pull"} => current' = t
    BY <1>7 DEF WorkerStep, HeadRead, HeadReadFails, Take, MayTake, PullBatch, PullEnd,
       GateIsOfTheRun, TypeOK, WorkerTypeOK
  <2>5. RunsAreActive' /\ GateIsOfTheRun'
    BY <1>1, <2>2, <2>4 DEF RunsAreActive, GateIsOfTheRun, Running
  <2>6. RequestsAreActive'
    <3>1. \A i \in 1..Len(toWorker) : toWorker[i].kind # "parse"
      BY <2>1, <2>2 DEF RequestsAreActive, Running
    <3>2. QED
      BY <2>1, <3>1 DEF RequestsAreActive
  <2>7. EndsAreOver'
    <3>1. sent[t] \in Nat /\ sent[t] + 1 \in Nat
      BY DEF TypeOK, WorkerTypeOK
    <3>2. \/ UNCHANGED fromWorker
          \/ Post(Message("batch", t, sent[t] + 1))
          \/ runs'[t] = "done" /\ Post(Message("error", t, 0))
          \/ /\ runs'[t] = "done"
             /\ \E k \in {"finish", "error"} : Post(Message(k, t, sent[t]))
      BY <1>7 DEF WorkerStep, HeadRead, HeadReadFails, Take, PullBatch, PullEnd,
         TypeOK, WorkerTypeOK
    <3>3. \A i \in 1..Len(fromWorker') :
             \/ \E j \in 1..Len(fromWorker) : fromWorker'[i] = fromWorker[j]
             \/ fromWorker'[i].kind = "batch"
             \/ fromWorker'[i].task = t /\ runs'[t] = "done"
      BY <3>1, <3>2, PostedEvents
    <3>4. QED
      BY <2>3, <3>3, EndsStayOver
  <2>8. FutureHasNoRun'
    BY <1>1, <2>3 DEF FutureHasNoRun
  <2>9. QED
    BY <2>5, <2>6, <2>7, <2>8
<1>8. QED
  BY <1>4, <1>5, <1>6, <1>7

LEMMA IndInit == Init => IndInv
<1> SUFFICES ASSUME Init PROVE RunInv
  BY TypeInit DEF IndInv
<1>1. QED
  BY ProtocolAssumption
  DEF Init, RunInv, RunsAreActive, GateIsOfTheRun, RequestsAreActive, EndsAreOver,
      FutureHasNoRun, Running, NoTask, Tasks

LEMMA IndStep == IndInv /\ [Next]_vars => IndInv'
<1> SUFFICES ASSUME IndInv, [Next]_vars PROVE IndInv'
  OBVIOUS
<1>1. TypeOK'
  BY TypeStep DEF IndInv
<1>2. CASE UNCHANGED vars
  <2>1. UNCHANGED <<active, nextTaskId, runs, current, toWorker, fromWorker>>
    BY <1>2 DEF vars, clientVars, workerVars
  <2>2. QED
    BY <1>1, <2>1 DEF IndInv, RunInv, RunsAreActive, GateIsOfTheRun,
       RequestsAreActive, EndsAreOver, FutureHasNoRun
<1>3. CASE Next
  BY <1>1, <1>2, <1>3, CallsRun, DeliverRun, WorkerRun, ChainRun DEF Next, Rest, IndInv
<1>4. QED
  BY <1>2, <1>3

\* A set no two elements of which differ has one element at most.
LEMMA AtMostOne ==
    ASSUME NEW S, \A x, y \in S : x = y
    PROVE  Cardinality(S) <= 1
<1>1. CASE S = {}
  BY <1>1, FS_EmptySet
<1>2. CASE S # {}
  <2>1. PICK x \in S : S = {x}
    BY <1>2
  <2>2. QED
    BY <2>1, FS_Singleton
<1>3. QED
  BY <1>1, <1>2

LEMMA IndImpliesOneRun == IndInv => OneRunPerWorker
<1> SUFFICES ASSUME IndInv PROVE OneRunPerWorker
  OBVIOUS
<1>1. \A t, u \in {v \in Tasks : runs[v] \in Running} : t = u
  BY DEF IndInv, RunInv, RunsAreActive
<1>2. Cardinality({v \in Tasks : runs[v] \in Running}) <= 1
  BY <1>1, AtMostOne
<1>3. QED
  BY <1>2 DEF OneRunPerWorker, IndInv, RunInv, GateIsOfTheRun

\* The worker never has a second run beside one that goes on: the client gives it a
\* task only when no run of an earlier one is left, through cancellations, failing
\* batches, crashes and messages of a replaced worker.
THEOREM OneRun == Spec => []OneRunPerWorker
<1>1. QED
  BY IndInit, IndStep, IndImpliesOneRun, PTL DEF Spec

-----------------------------------------------------------------------------
(* The order of batches and the credit: the inductive invariant.               *)

\* Batches of a task that have reached its ackChain.
Received(t) == started[t] + Len(chain[t])

IsBatch(i, t) == fromWorker[i].kind = "batch" /\ fromWorker[i].task = t

\* Nothing has happened of a task that has not been given out.
FutureIsBlank ==
    \A t \in Tasks : t > nextTaskId =>
        /\ outcome[t] = "unstarted" /\ after[t] = "none"
        /\ chain[t] = << >> /\ handling[t] = 0 /\ handled[t] = 0
        /\ started[t] = 0 /\ sent[t] = 0

\* The task the client waits for has not settled and nothing is chained to settle it.
ActiveIsPending ==
    active # NoTask => outcome[active] = "pending" /\ after[active] = "none"

\* Only a crash is not of a task that has been given out.
EventsAreOfTasks ==
    \A i \in 1..Len(fromWorker) :
        fromWorker[i].kind # "crash" =>
            fromWorker[i].task \in Tasks /\ fromWorker[i].task <= nextTaskId

\* What a task has received is what the worker sent first, in order.
ChainsInOrder ==
    \A t \in Tasks :
        /\ \A i \in 1..Len(chain[t]) : chain[t][i] = started[t] + i
        /\ handling[t] \in {0, started[t]}
        /\ Received(t) <= sent[t]

\* The batches on the way are later ones, in order.
PortInOrder ==
    \A i \in 1..Len(fromWorker), t \in Tasks :
        IsBatch(i, t) =>
            /\ Received(t) < fromWorker[i].seq /\ fromWorker[i].seq <= sent[t]
            /\ \A j \in 1..Len(fromWorker) :
                  IsBatch(j, t) /\ i < j => fromWorker[i].seq < fromWorker[j].seq

\* None of the active task's is missing, and the client hears each.
NothingLost ==
    active # NoTask =>
        \A n \in Nat : Received(active) < n /\ n <= sent[active] =>
            \E i \in 1..Len(fromWorker) :
                IsBatch(i, active) /\ fromWorker[i].seq = n /\ fromWorker[i].gen = gen

\* A finish is behind every batch of its task, and its run has ended.
FinishIsLast ==
    \A i, j \in 1..Len(fromWorker) :
        fromWorker[i].kind = "finish" /\ IsBatch(j, fromWorker[i].task) => j < i

\* A parse is about to resolve when everything sent has been received.
AfterIsComplete ==
    \A t \in Tasks : after[t] = "resolve" => runs[t] = "done" /\ Received(t) = sent[t]

\* While no onBatch has failed, those that have resolved, and the one running, are all
\* that have been started.
HandledAreStarted ==
    \A t \in Tasks : outcome[t] \in {"pending", "resolved"} =>
        handled[t] + (IF handling[t] # 0 THEN 1 ELSE 0) = started[t]

\* What ResolvedIsComplete says, of a run that ended by itself.
ResolvedIsOver ==
    \A t \in Tasks : outcome[t] = "resolved" =>
        runs[t] = "done" /\ handled[t] = sent[t] /\ Idle(t)

OrderInv ==
    /\ FutureIsBlank /\ ActiveIsPending /\ EventsAreOfTasks
    /\ ChainsInOrder /\ PortInOrder /\ NothingLost /\ FinishIsLast
    /\ AfterIsComplete /\ HandledAreStarted /\ ResolvedIsOver /\ WorkerFailureDrained

-----------------------------------------------------------------------------
(* Facts about the ports and the chains.                                       *)

\* The places of a sequence that a message has left or joined.
LEMMA TailPlaces ==
    ASSUME NEW S, NEW s \in Seq(S), s # << >>
    PROVE  /\ Len(Tail(s)) = Len(s) - 1
           /\ \A i \in 1..Len(Tail(s)) : i + 1 \in 1..Len(s) /\ Tail(s)[i] = s[i + 1]
           /\ \A i \in 1..Len(s) : i # 1 => i - 1 \in 1..Len(Tail(s)) /\ Tail(s)[i - 1] = s[i]
OBVIOUS

LEMMA AppendPlaces ==
    ASSUME NEW S, NEW s \in Seq(S), NEW x \in S
    PROVE  /\ Append(s, x) \in Seq(S) /\ Len(Append(s, x)) = Len(s) + 1
           /\ \A i \in 1..Len(s) : i \in 1..Len(Append(s, x)) /\ Append(s, x)[i] = s[i]
           /\ \A i \in 1..Len(Append(s, x)) : i \in 1..Len(s) \/ i = Len(s) + 1
           /\ Append(s, x)[Len(s) + 1] = x
OBVIOUS

\* What has been received and sent, as numbers.
LEMMA OrderTypes ==
    ASSUME TypeOK
    PROVE  /\ \A t \in Tasks : /\ chain[t] \in Seq(Nat) /\ Len(chain[t]) \in Nat
                               /\ started[t] \in Nat /\ sent[t] \in Nat /\ handled[t] \in Nat
                               /\ handling[t] \in Nat /\ Received(t) \in Nat
           /\ fromWorker \in Seq(Events) /\ Len(fromWorker) \in Nat
           /\ \A i \in 1..Len(fromWorker) : fromWorker[i] \in Events /\ fromWorker[i].seq \in Nat
           /\ nextTaskId \in Nat /\ active \in Tasks \cup {NoTask} /\ NoTask \notin Tasks
           /\ Tasks \subseteq Nat
<1>1. \A t \in Tasks : chain[t] \in Seq(Nat) /\ Len(chain[t]) \in Nat
  BY DEF TypeOK, ChainTypeOK
<1>2. \A t \in Tasks : /\ started[t] \in Nat /\ sent[t] \in Nat /\ handled[t] \in Nat
                       /\ handling[t] \in Nat
  BY DEF TypeOK, ChainTypeOK, WorkerTypeOK
<1>3. fromWorker \in Seq(Events)
  BY DEF TypeOK, PortsTypeOK
<1>4. \A i \in 1..Len(fromWorker) : fromWorker[i] \in Events /\ fromWorker[i].seq \in Nat
  <2>1. \A i \in 1..Len(fromWorker) : fromWorker[i] \in Events
    BY <1>3
  <2>2. \A m \in Events : m.seq \in Nat
    BY DEF Events
  <2>3. QED
    BY <2>1, <2>2
<1>5. QED
  BY <1>1, <1>2, <1>3, <1>4, TaskFacts, ProtocolAssumption
  DEF Received, TypeOK, ClientTypeOK, Tasks

\* Where no message moves and no batch is handed over, their order stays.
LEMMA OrderStays ==
    ASSUME OrderInv, UNCHANGED <<chain, handling, started, sent, fromWorker>>
    PROVE  ChainsInOrder' /\ PortInOrder' /\ FinishIsLast'
BY DEF OrderInv, ChainsInOrder, PortInOrder, FinishIsLast, IsBatch, Received

-----------------------------------------------------------------------------
(* The order of batches, step by step.                                         *)

\* The client's calls give the active task up, or a new one out.
LEMMA CallsOrder ==
    ASSUME IndInv, IndInv', OrderInv, Parse \/ ParsePostFails \/ Cancel \/ Dispose
    PROVE  OrderInv'
<1> USE DEF IndInv
<1>1. UNCHANGED <<chain, handling, handled, started, after, sent, fromWorker>>
  BY DEF Parse, ParsePostFails, Cancel, Dispose
<1>2. \A t \in Tasks : runs[t] = "done" => runs'[t] = "done"
  BY ReplacedStops, StoppedRuns DEF Parse, ParsePostFails, Cancel, Dispose, KeepWorker, Running
<1>3. /\ nextTaskId' \in {nextTaskId, nextTaskId + 1}
      /\ nextTaskId' # nextTaskId => nextTaskId' \in Tasks
      /\ active' \in {NoTask, nextTaskId'} /\ (active' # NoTask => nextTaskId' # nextTaskId)
  BY TaskFacts, OrderTypes DEF Parse, ParsePostFails, Cancel, Dispose, TypeOK, ClientTypeOK
<1>4. \A t \in Tasks :
         /\ t = active \/ outcome'[t] = outcome[t] \/ (t = nextTaskId' /\ nextTaskId' # nextTaskId)
         /\ outcome'[t] \in {outcome[t], "cancelled", "pending"}
         /\ t # nextTaskId' \/ nextTaskId' = nextTaskId => outcome'[t] \in {outcome[t], "cancelled"}
         /\ t = active' => outcome'[t] = "pending"
  BY <1>3, TaskFacts, OrderTypes
  DEF Parse, ParsePostFails, Cancel, Dispose, Settled, TypeOK, ClientTypeOK
<1>5. \A t \in Tasks : t > nextTaskId' => t > nextTaskId /\ t # active
  BY <1>3, OrderTypes DEF RunInv, FutureHasNoRun
<1>6. nextTaskId' # nextTaskId => nextTaskId' > nextTaskId
  BY <1>3, OrderTypes
<1>7. FutureIsBlank'
  BY <1>1, <1>3, <1>4, <1>5, OrderTypes DEF OrderInv, FutureIsBlank
<1>8. ActiveIsPending'
  BY <1>1, <1>3, <1>4, <1>6 DEF OrderInv, ActiveIsPending, FutureIsBlank
<1>9. EventsAreOfTasks'
  BY <1>1, <1>3, OrderTypes DEF OrderInv, EventsAreOfTasks
<1>10. NothingLost'
  <2>1. active' # NoTask => active' \in Tasks /\ sent'[active'] = 0 /\ started'[active'] = 0
                            /\ chain'[active'] = << >>
    BY <1>1, <1>3, <1>6 DEF OrderInv, FutureIsBlank
  <2>2. \A n \in Nat : ~(0 + 0 < n /\ n <= 0)
    OBVIOUS
  <2>3. QED
    BY <2>1, <2>2 DEF NothingLost, Received
<1>11. AfterIsComplete'
  BY <1>1, <1>2 DEF OrderInv, AfterIsComplete, Received
<1>12. HandledAreStarted'
  BY <1>1, <1>3, <1>4, <1>6 DEF OrderInv, HandledAreStarted, FutureIsBlank
<1>13. ResolvedIsOver' /\ WorkerFailureDrained'
  BY <1>1, <1>2, <1>4 DEF OrderInv, ResolvedIsOver, WorkerFailureDrained, Idle
<1>14. QED
  BY <1>1, <1>7, <1>8, <1>9, <1>10, <1>11, <1>12, <1>13, OrderStays DEF OrderInv

\* A message leaves the port: it was heard, or it is no batch of the active task.
LEMMA ReceiveOrder ==
    ASSUME TypeOK, TypeOK', OrderInv, Receive, UNCHANGED <<started, sent>>
    PROVE  /\ UNCHANGED nextTaskId => EventsAreOfTasks'
           /\ FinishIsLast'
           /\ UNCHANGED chain => PortInOrder'
           /\ UNCHANGED chain /\ UNCHANGED <<active, gen>> /\ (~IsBatch(1, active) \/ Event.gen # gen)
                 => NothingLost'
<1>1. /\ fromWorker # << >> /\ fromWorker' = Tail(fromWorker) /\ Event = fromWorker[1]
      /\ \A i \in 1..Len(fromWorker') : i + 1 \in 1..Len(fromWorker) /\ fromWorker'[i] = fromWorker[i + 1]
      /\ \A i \in 1..Len(fromWorker) :
            i # 1 => i - 1 \in 1..Len(fromWorker') /\ fromWorker'[i - 1] = fromWorker[i]
  BY OrderTypes, TailPlaces, SeqElements DEF Receive, Event
<1>2. ASSUME UNCHANGED nextTaskId PROVE EventsAreOfTasks'
  BY <1>1, <1>2 DEF OrderInv, EventsAreOfTasks
<1>3. \A i \in 1..Len(fromWorker'), t \in Tasks : IsBatch(i, t)' <=> IsBatch(i + 1, t)
  BY <1>1 DEF IsBatch
<1>4. \A i, j \in 1..Len(fromWorker') : (i < j <=> i + 1 < j + 1)
  OBVIOUS
<1>5. FinishIsLast'
  BY <1>1, <1>4 DEF OrderInv, FinishIsLast, IsBatch
<1>6. ASSUME UNCHANGED chain PROVE PortInOrder'
  <2>1. \A t \in Tasks : Received(t)' = Received(t)
    BY <1>6 DEF Received
  <2>2. QED
    BY <1>1, <1>3, <1>4, <2>1 DEF OrderInv, PortInOrder
<1>7. ASSUME UNCHANGED <<chain, active, gen>>, ~IsBatch(1, active) \/ Event.gen # gen
      PROVE  NothingLost'
  <2> SUFFICES ASSUME active # NoTask, NEW n \in Nat, Received(active) < n, n <= sent[active]
               PROVE  \E i \in 1..Len(fromWorker') :
                         /\ IsBatch(i, active)' /\ fromWorker'[i].seq = n /\ fromWorker'[i].gen = gen
    BY <1>7 DEF NothingLost, Received
  <2>1. PICK k \in 1..Len(fromWorker) :
           IsBatch(k, active) /\ fromWorker[k].seq = n /\ fromWorker[k].gen = gen
    BY DEF OrderInv, NothingLost
  <2>2. k # 1
    BY <1>1, <1>7, <2>1
  <2>3. /\ k - 1 \in 1..Len(fromWorker') /\ IsBatch(k - 1, active)'
        /\ fromWorker'[k - 1].seq = n /\ fromWorker'[k - 1].gen = gen
    BY <1>1, <1>7, <2>1, <2>2 DEF IsBatch
  <2>4. QED
    BY <2>3
<1>8. QED
  BY <1>2, <1>5, <1>6, <1>7

\* The event that is heard next is the first one.
LEMMA FirstEvent ==
    ASSUME TypeOK, Receive
    PROVE  /\ fromWorker # << >> /\ fromWorker' = Tail(fromWorker)
           /\ Event = fromWorker[1] /\ 1 \in 1..Len(fromWorker) /\ Event \in Events
           /\ \A i \in 1..Len(fromWorker') :
                 i + 1 \in 1..Len(fromWorker) /\ 1 < i + 1 /\ fromWorker'[i] = fromWorker[i + 1]
           /\ \A i \in 1..Len(fromWorker) :
                 i # 1 => i - 1 \in 1..Len(fromWorker') /\ fromWorker'[i - 1] = fromWorker[i]
BY OrderTypes, SeqElements, TailPlaces DEF Receive, Event

\* A batch that is heard is the next one of its task.
LEMMA HeardIsNext ==
    ASSUME TypeOK, OrderInv, Receive, Heard(Event), Event.kind = "batch"
    PROVE  active \in Tasks /\ IsBatch(1, active) /\ Event.seq = Received(active) + 1
                 /\ Event.seq <= sent[active]
<1> DEFINE next == Received(active) + 1
<1>1. active \in Tasks /\ IsBatch(1, active)
  BY FirstEvent DEF Heard, IsBatch, OrderInv, EventsAreOfTasks
<1>2. /\ Received(active) \in Nat /\ Event.seq \in Nat
      /\ Received(active) < Event.seq /\ Event.seq <= sent[active] /\ sent[active] \in Nat
  BY <1>1, FirstEvent, OrderTypes DEF OrderInv, PortInOrder
<1>3. CASE Event.seq # next
  <2>1. next \in Nat /\ Received(active) < next /\ next <= sent[active] /\ active # NoTask
    BY <1>1, <1>2, <1>3, OrderTypes
  <2>2. PICK k \in 1..Len(fromWorker) : IsBatch(k, active) /\ fromWorker[k].seq = next
    BY <2>1 DEF OrderInv, NothingLost
  <2>3. k # 1 /\ 1 < k
    BY <1>3, <2>2, FirstEvent, OrderTypes
  <2>4. Event.seq < next
    BY <1>1, <2>2, <2>3, FirstEvent DEF OrderInv, PortInOrder
  <2>5. QED
    BY <1>2, <2>4
<1>4. QED
  BY <1>1, <1>2, <1>3

\* A batch joins the chain of its task.
LEMMA OnBatchOrder ==
    ASSUME IndInv, IndInv', OrderInv, OnBatch
    PROVE  OrderInv'
<1> USE DEF IndInv
<1>1. /\ Receive /\ Heard(Event) /\ Event.kind = "batch"
      /\ UNCHANGED <<active, nextTaskId, gen, outcome, handling, handled, started, after, sent, runs>>
  BY DEF OnBatch, workerVars
<1>2. /\ active \in Tasks /\ IsBatch(1, active) /\ Event.seq = Received(active) + 1
      /\ Event.seq <= sent[active] /\ Event = fromWorker[1] /\ 1 \in 1..Len(fromWorker)
  BY <1>1, HeardIsNext, FirstEvent
<1>3. /\ chain' = [chain EXCEPT ![active] = Append(@, Event.seq)] /\ Event.seq \in Nat
      /\ \A t \in Tasks : t # active => chain'[t] = chain[t] /\ Received(t)' = Received(t)
  BY <1>1, <1>2, OrderTypes DEF OnBatch, Chained, TypeOK, ChainTypeOK, Received
<1>4. /\ chain'[active] = Append(chain[active], Event.seq)
      /\ Len(chain'[active]) = Len(chain[active]) + 1
      /\ Received(active)' = Received(active) + 1
  BY SMTT(30), <1>1, <1>2, <1>3, OrderTypes, AppendPlaces DEF TypeOK, ChainTypeOK, Received
<1>5. active <= nextTaskId /\ active # NoTask
  BY <1>2, OrderTypes DEF RunInv, FutureHasNoRun
<1>6. FutureIsBlank' /\ ActiveIsPending'
  BY <1>1, <1>3, <1>5, OrderTypes DEF OrderInv, FutureIsBlank, ActiveIsPending
<1>7. EventsAreOfTasks' /\ FinishIsLast'
  BY <1>1, ReceiveOrder
<1>8. ChainsInOrder'
  <2>1. ASSUME NEW i \in 1..Len(chain'[active])
        PROVE  chain'[active][i] = started[active] + i
    <3>1. CASE i \in 1..Len(chain[active])
      BY <1>2, <1>3, <1>4, <3>1, OrderTypes, AppendPlaces DEF OrderInv, ChainsInOrder
    <3>2. CASE i = Len(chain[active]) + 1
      <4>1. chain'[active][Len(chain[active]) + 1] = Event.seq
        BY <1>2, <1>3, <1>4, OrderTypes, AppendPlaces
      <4>2. Event.seq = started[active] + (Len(chain[active]) + 1)
        BY SMTT(30), <1>2, OrderTypes DEF Received
      <4>3. QED
        BY <3>2, <4>1, <4>2
    <3>3. QED
      BY <1>2, <1>4, <3>1, <3>2, OrderTypes
  <2>2. QED
    BY <1>1, <1>2, <1>3, <1>4, <2>1 DEF OrderInv, ChainsInOrder
<1>9. PortInOrder'
  <2>1. \A i \in 1..Len(fromWorker'), t \in Tasks :
           IsBatch(i, t)' => /\ i + 1 \in 1..Len(fromWorker) /\ 1 < i + 1 /\ IsBatch(i + 1, t)
                             /\ fromWorker'[i] = fromWorker[i + 1]
    BY <1>1, FirstEvent DEF IsBatch
  <2>2. ASSUME NEW i \in 1..Len(fromWorker'), IsBatch(i, active)'
        PROVE  Event.seq < fromWorker'[i].seq
    <3>1. i + 1 \in 1..Len(fromWorker) /\ 1 < i + 1 /\ IsBatch(i + 1, active)
      BY <1>1, <1>2, <2>1, <2>2
    <3>2. Event.seq < fromWorker[i + 1].seq
      BY <1>2, <3>1 DEF OrderInv, PortInOrder
    <3>3. QED
      BY <1>1, <3>2, FirstEvent
  <2>3. \A i, j \in 1..Len(fromWorker') : i < j => i + 1 < j + 1
    OBVIOUS
  <2>4. QED
    BY SMTT(30), <1>1, <1>2, <1>3, <1>4, <2>1, <2>2, <2>3 DEF OrderInv, PortInOrder
<1>10. NothingLost'
  <2> SUFFICES ASSUME NEW n \in Nat, Received(active)' < n, n <= sent[active]
               PROVE  \E i \in 1..Len(fromWorker') :
                         /\ IsBatch(i, active)' /\ fromWorker'[i].seq = n /\ fromWorker'[i].gen = gen
    BY <1>1 DEF NothingLost
  <2>1. Received(active) < n /\ Event.seq < n
    BY <1>2, <1>4, OrderTypes
  <2>2. PICK k \in 1..Len(fromWorker) :
           IsBatch(k, active) /\ fromWorker[k].seq = n /\ fromWorker[k].gen = gen
    BY <1>5, <2>1 DEF OrderInv, NothingLost
  <2>3. k # 1
    BY <1>2, <2>1, <2>2, OrderTypes
  <2>4. /\ k - 1 \in 1..Len(fromWorker') /\ IsBatch(k - 1, active)'
        /\ fromWorker'[k - 1].seq = n /\ fromWorker'[k - 1].gen = gen
    BY <1>1, <2>2, <2>3, FirstEvent DEF IsBatch
  <2>5. QED
    BY <2>4
<1>11. AfterIsComplete' /\ HandledAreStarted' /\ ResolvedIsOver' /\ WorkerFailureDrained'
  BY <1>1, <1>3, <1>5
  DEF OrderInv, ActiveIsPending, AfterIsComplete, HandledAreStarted, ResolvedIsOver,
      WorkerFailureDrained, Idle
<1>12. QED
  BY <1>6, <1>7, <1>8, <1>9, <1>10, <1>11 DEF OrderInv

\* A finish, an error or a crash: the active task is given up and its settlement chained.
\* Behind a finish nothing is missing any more.
LEMMA OnEndOrder ==
    ASSUME IndInv, IndInv', OrderInv, OnFinish \/ OnError \/ OnCrash
    PROVE  OrderInv'
<1> USE DEF IndInv
<1>1. /\ Receive /\ Heard(Event) /\ active' = NoTask
      /\ UNCHANGED <<nextTaskId, outcome, chain, handling, handled, started, sent>>
      /\ \A t \in Tasks : after'[t] = after[t] \/ (t = active /\ after'[t] \in {"resolve", "reject"})
  BY DEF OnFinish, OnError, OnCrash, workerVars, TypeOK, ChainTypeOK
<1>2. \A t \in Tasks : runs[t] = "done" => runs'[t] = "done"
  BY ReplacedStops, StoppedRuns DEF OnFinish, OnError, OnCrash, workerVars, Running
<1>3. active \in Tasks => active <= nextTaskId
  BY DEF RunInv, FutureHasNoRun
<1>4. FutureIsBlank'
  BY <1>1, <1>3, OrderTypes DEF OrderInv, FutureIsBlank
<1>5. ActiveIsPending' /\ NothingLost'
  BY <1>1 DEF ActiveIsPending, NothingLost
<1>6. EventsAreOfTasks' /\ FinishIsLast' /\ PortInOrder'
  BY <1>1, ReceiveOrder
<1>7. ChainsInOrder'
  BY <1>1 DEF OrderInv, ChainsInOrder, Received
<1>8. AfterIsComplete'
  <2> SUFFICES ASSUME NEW t \in Tasks, after'[t] = "resolve"
               PROVE  runs[t] = "done" /\ Received(t) = sent[t]
    BY <1>1, <1>2 DEF AfterIsComplete, Received
  <2>1. CASE after[t] = "resolve"
    BY <2>1 DEF OrderInv, AfterIsComplete
  <2>2. CASE after[t] # "resolve"
    <3>1. t = active /\ OnFinish
      BY <2>2 DEF OnFinish, OnError, OnCrash, TypeOK, ChainTypeOK
    <3>2. fromWorker[1].kind = "finish" /\ fromWorker[1].task = t /\ 1 \in 1..Len(fromWorker)
      BY <1>1, <3>1, FirstEvent DEF OnFinish, Heard
    <3>3. runs[t] = "done"
      BY <3>2 DEF RunInv, EndsAreOver
    <3>4. \A j \in 1..Len(fromWorker) : ~IsBatch(j, t)
      <4>1. \A j \in 1..Len(fromWorker) : IsBatch(j, t) => j < 1
        BY <3>2 DEF OrderInv, FinishIsLast
      <4>2. QED
        BY <4>1
    <3>5. ~(Received(t) < Received(t) + 1 /\ Received(t) + 1 <= sent[t])
      BY <3>1, <3>4, OrderTypes DEF OrderInv, NothingLost
    <3>6. Received(t) <= sent[t]
      BY DEF OrderInv, ChainsInOrder
    <3>7. QED
      BY <3>3, <3>5, <3>6, OrderTypes
  <2>3. QED
    BY <2>1, <2>2
<1>9. HandledAreStarted' /\ WorkerFailureDrained' /\ ResolvedIsOver'
  BY <1>1, <1>2 DEF OrderInv, HandledAreStarted, WorkerFailureDrained, ResolvedIsOver, Idle
<1>10. QED
  BY <1>4, <1>5, <1>6, <1>7, <1>8, <1>9 DEF OrderInv

\* The client's event handlers.
LEMMA DeliverOrder ==
    ASSUME IndInv, IndInv', OrderInv, Deliver
    PROVE  OrderInv'
<1> USE DEF IndInv
<1>1. CASE OnStale
  <2>1. Receive /\ ~Heard(Event) /\ UNCHANGED <<clientVars, workerVars>>
    BY <1>1 DEF OnStale
  <2>2. ~IsBatch(1, active) \/ Event.gen # gen
    BY <2>1, FirstEvent DEF Heard, FromCurrentWorker, IsBatch
  <2>3. EventsAreOfTasks' /\ FinishIsLast' /\ PortInOrder' /\ NothingLost'
    BY <2>1, <2>2, ReceiveOrder DEF clientVars, workerVars
  <2>4. QED
    BY <2>1, <2>3
    DEF OrderInv, FutureIsBlank, ActiveIsPending, ChainsInOrder, AfterIsComplete,
        HandledAreStarted, ResolvedIsOver, WorkerFailureDrained, Received, Idle, clientVars, workerVars
<1>2. QED
  BY <1>1, OnBatchOrder, OnEndOrder DEF Deliver

\* The ack chains: the next batch is started, an onBatch settles, the promise settles.
LEMMA ChainOrder ==
    ASSUME IndInv, IndInv', OrderInv, NEW t \in Tasks, ChainStep(t)
    PROVE  OrderInv'
<1> USE DEF IndInv
<1>1. /\ UNCHANGED <<nextTaskId, sent, fromWorker>> /\ active' \in {active, NoTask}
      /\ active' = NoTask \/ UNCHANGED gen
      /\ \A u \in Tasks : runs[u] = "done" => runs'[u] = "done"
  <2>1. HandlerFails(t) => \A u \in Tasks : runs[u] = "done" => runs'[u] = "done"
    BY ReplacedStops, StoppedRuns DEF HandlerFails, KeepWorker, Running
  <2>2. QED
    BY <2>1 DEF ChainStep, StartBatch, HandlerDone, HandlerFails, KeepWorker, Settle, workerVars
<1> HIDE DEF IndInv
<1>0. \A u \in Tasks : /\ started[u] \in Nat /\ Len(chain[u]) \in Nat /\ handled[u] \in Nat
                       /\ handling[u] \in Nat /\ sent[u] \in Nat
  BY OrderTypes DEF IndInv
<1> USE DEF IndInv
<1>2. EventsAreOfTasks' /\ FinishIsLast'
  BY <1>1 DEF OrderInv, EventsAreOfTasks, FinishIsLast, IsBatch
<1>3. t > nextTaskId => /\ chain[t] = << >> /\ handling[t] = 0 /\ after[t] = "none"
  BY DEF OrderInv, FutureIsBlank
<1>4. CASE StartBatch(t)
  <2>1. /\ handling[t] = 0 /\ chain[t] # << >> /\ UNCHANGED <<active, gen, outcome, handled, after, runs>>
        /\ \A u \in Tasks : u # t => /\ chain'[u] = chain[u] /\ handling'[u] = handling[u]
                                     /\ started'[u] = started[u]
        /\ handling'[t] = Head(chain[t]) /\ started'[t] = Head(chain[t]) /\ chain'[t] = Tail(chain[t])
    BY <1>4 DEF StartBatch, workerVars, TypeOK, ChainTypeOK
  <2>2. /\ Head(chain[t]) = chain[t][1] /\ 1 \in 1..Len(chain[t]) /\ Len(chain'[t]) = Len(chain[t]) - 1
        /\ \A i \in 1..Len(chain'[t]) : i + 1 \in 1..Len(chain[t]) /\ chain'[t][i] = chain[t][i + 1]
    BY SMTT(30), <2>1, OrderTypes, TailPlaces, SeqElements
  <2>3. started'[t] = started[t] + 1
    BY <2>1, <2>2 DEF OrderInv, ChainsInOrder
  <2>4. \A u \in Tasks : started'[u] + Len(chain'[u]) = started[u] + Len(chain[u])
    <3> SUFFICES ASSUME NEW u \in Tasks
                 PROVE  started'[u] + Len(chain'[u]) = started[u] + Len(chain[u])
      OBVIOUS
    <3>1. CASE u = t
      <4>1. \A a, b \in Nat : (a + 1) + (b - 1) = a + b
        OBVIOUS
      <4>2. started'[t] + Len(chain'[t]) = (started[t] + 1) + (Len(chain[t]) - 1)
        BY <2>2, <2>3
      <4>3. started[t] \in Nat /\ Len(chain[t]) \in Nat
        BY <1>0
      <4>4. started'[t] + Len(chain'[t]) = started[t] + Len(chain[t])
        BY <4>1, <4>2, <4>3
      <4>5. QED
        BY <3>1, <4>4
    <3>2. CASE u # t
      BY <2>1, <3>2
    <3>3. QED
      BY <3>1, <3>2
  <2>5. ChainsInOrder'
    <3>1. \A i \in 1..Len(chain'[t]) : chain'[t][i] = started'[t] + i
      <4>1. \A i \in 1..Len(chain'[t]) : chain'[t][i] = started[t] + (i + 1)
        BY <2>2 DEF OrderInv, ChainsInOrder
      <4>2. \A i \in Int : started[t] + (i + 1) = (started[t] + 1) + i
        BY <1>0
      <4>3. QED
        BY <2>3, <4>1, <4>2
    <3>2. ASSUME NEW u \in Tasks, u # t
          PROVE  /\ \A i \in 1..Len(chain'[u]) : chain'[u][i] = started'[u] + i
                 /\ handling'[u] \in {0, started'[u]}
      BY <2>1, <3>2 DEF OrderInv, ChainsInOrder
    <3>3. \A u \in Tasks : started'[u] + Len(chain'[u]) <= sent'[u]
      BY <1>1, <2>4 DEF OrderInv, ChainsInOrder, Received
    <3>4. QED
      BY <2>1, <3>1, <3>2, <3>3 DEF ChainsInOrder, Received
  <2>6. PortInOrder' /\ NothingLost' /\ AfterIsComplete'
    <3>1. PortInOrder'
      BY <1>1, <2>4 DEF OrderInv, PortInOrder, IsBatch, Received
    <3>2. active' # NoTask => started'[active] + Len(chain'[active]) = started[active] + Len(chain[active])
      BY <2>1, <2>4, OrderTypes
    <3>3. NothingLost'
      BY <1>1, <2>1, <3>2 DEF OrderInv, NothingLost, IsBatch, Received
    <3>4. AfterIsComplete'
      BY <1>1, <2>1, <2>4 DEF OrderInv, AfterIsComplete, Received
    <3>5. QED
      BY <3>1, <3>3, <3>4
  <2>7. HandledAreStarted'
    <3>1. outcome[t] \in {"pending", "resolved"} => handled[t] + 1 = started'[t] /\ handling'[t] # 0
      BY <1>0, <2>1, <2>3 DEF OrderInv, HandledAreStarted
    <3>2. QED
      BY <2>1, <3>1 DEF OrderInv, HandledAreStarted
  <2>8. FutureIsBlank' /\ ActiveIsPending' /\ ResolvedIsOver' /\ WorkerFailureDrained'
    BY <1>1, <1>3, <2>1
    DEF OrderInv, FutureIsBlank, ActiveIsPending, ResolvedIsOver, WorkerFailureDrained, Idle
  <2>9. QED
    BY <1>2, <2>5, <2>6, <2>7, <2>8 DEF OrderInv
<1>5. CASE HandlerDone(t) \/ HandlerFails(t)
  <2>1. /\ handling[t] # 0 /\ handling' = [handling EXCEPT ![t] = 0]
        /\ UNCHANGED <<chain, started, after>>
        /\ \/ /\ outcome' = outcome /\ handled' = [handled EXCEPT ![t] = @ + 1]
              /\ UNCHANGED active
           \/ /\ outcome' = Settled(outcome, t, "batchFailed") /\ UNCHANGED handled
              /\ active = t => active' = NoTask
    BY <1>5 DEF HandlerDone, HandlerFails
  <2>3. /\ \A u \in Tasks : u # t => /\ handling'[u] = handling[u] /\ handled'[u] = handled[u]
                                     /\ outcome'[u] = outcome[u]
        /\ handling'[t] = 0
        /\ \/ outcome'[t] = outcome[t] /\ handled'[t] = handled[t] + 1
           \/ outcome'[t] # "pending" /\ outcome'[t] \in {outcome[t], "batchFailed"} /\ handled'[t] = handled[t]
    BY <2>1 DEF Settled, NoTask, TypeOK, ClientTypeOK, ChainTypeOK, Tasks
  <2>4. outcome[t] \notin {"resolved", "workerFailed"}
    BY <2>1 DEF OrderInv, ResolvedIsOver, WorkerFailureDrained, Idle
  <2>5. ChainsInOrder' /\ PortInOrder' /\ NothingLost' /\ AfterIsComplete'
    BY <1>1, <2>1, <2>3
    DEF OrderInv, ChainsInOrder, PortInOrder, NothingLost, AfterIsComplete, IsBatch, Received
  <2>6. HandledAreStarted'
    BY SMTT(30), <2>1, <2>3, <2>4, OrderTypes DEF OrderInv, HandledAreStarted
  <2>7. FutureIsBlank'
    BY <1>1, <1>3, <2>1, <2>3 DEF OrderInv, FutureIsBlank
  <2>8. ActiveIsPending'
    BY <1>1, <2>1, <2>3, OrderTypes DEF OrderInv, ActiveIsPending
  <2>9. ResolvedIsOver' /\ WorkerFailureDrained'
    BY <1>1, <2>1, <2>3, <2>4 DEF OrderInv, ResolvedIsOver, WorkerFailureDrained, Idle
  <2>10. QED
    BY <1>2, <2>5, <2>6, <2>7, <2>8, <2>9 DEF OrderInv
<1>6. CASE Settle(t)
  <2>1. /\ after[t] # "none" /\ Idle(t) /\ after' = [after EXCEPT ![t] = "none"]
        /\ UNCHANGED <<active, gen, chain, handling, handled, started, runs>>
        /\ outcome' = Settled(outcome, t, IF after[t] = "resolve" THEN "resolved" ELSE "workerFailed")
    BY <1>6 DEF Settle, MaySettle, workerVars
  <2>2. t # active
    BY <2>1, OrderTypes DEF OrderInv, ActiveIsPending
  <2>3. /\ \A u \in Tasks : u # t => outcome'[u] = outcome[u] /\ after'[u] = after[u]
        /\ after'[t] = "none"
        /\ \/ outcome'[t] = outcome[t]
           \/ outcome[t] = "pending" /\ after[t] = "resolve" /\ outcome'[t] = "resolved"
           \/ outcome[t] = "pending" /\ outcome'[t] = "workerFailed"
    BY <2>1 DEF Settled, TypeOK, ClientTypeOK, ChainTypeOK
  <2>4. ChainsInOrder' /\ PortInOrder' /\ NothingLost'
    BY <1>1, <2>1 DEF OrderInv, ChainsInOrder, PortInOrder, NothingLost, IsBatch, Received
  <2>5. AfterIsComplete'
    BY <1>1, <2>1, <2>3 DEF OrderInv, AfterIsComplete, Received
  <2>6. FutureIsBlank' /\ ActiveIsPending'
    <3>1. t <= nextTaskId
      BY <1>3, <2>1, OrderTypes
    <3>2. FutureIsBlank'
      BY <1>1, <2>1, <2>3, <3>1, OrderTypes DEF OrderInv, FutureIsBlank
    <3>3. ActiveIsPending'
      BY <2>1, <2>2, <2>3, OrderTypes DEF OrderInv, ActiveIsPending
    <3>4. QED
      BY <3>2, <3>3
  <2>7. HandledAreStarted' /\ WorkerFailureDrained'
    BY <2>1, <2>3 DEF OrderInv, HandledAreStarted, WorkerFailureDrained, Idle
  <2>8. ResolvedIsOver'
    <3>1. outcome[t] = "pending" /\ after[t] = "resolve" =>
             runs[t] = "done" /\ handled[t] = sent[t]
      BY <2>1, OrderTypes DEF OrderInv, AfterIsComplete, HandledAreStarted, Received, Idle
    <3>2. QED
      BY <1>1, <2>1, <2>3, <3>1 DEF OrderInv, ResolvedIsOver, Idle
  <2>9. QED
    BY <1>2, <2>4, <2>5, <2>6, <2>7, <2>8 DEF OrderInv
<1>7. QED
  BY <1>4, <1>5, <1>6 DEF ChainStep

\* A message joins the port behind the others.
LEMMA PostPlaces ==
    ASSUME TypeOK, NEW m \in Events, Post(m)
    PROVE  /\ Len(fromWorker') = Len(fromWorker) + 1
           /\ \A i \in 1..Len(fromWorker) : i \in 1..Len(fromWorker') /\ fromWorker'[i] = fromWorker[i]
           /\ \A i \in 1..Len(fromWorker') :
                 \/ i \in 1..Len(fromWorker) /\ i < Len(fromWorker) + 1 /\ fromWorker'[i] = fromWorker[i]
                 \/ i = Len(fromWorker) + 1 /\ fromWorker'[i] = m
           /\ Len(fromWorker) + 1 \in 1..Len(fromWorker') /\ fromWorker'[Len(fromWorker) + 1] = m
<1>1. fromWorker' = Append(fromWorker, m) /\ fromWorker \in Seq(Events) /\ Len(fromWorker) \in Nat
  BY OrderTypes DEF Post
<1>2. QED
  BY <1>1, AppendPlaces

\* Whatever is posted that is no batch leaves the order of the batches as it is.
LEMMA PostOrder ==
    ASSUME IndInv, OrderInv, NEW m \in Events, Post(m), m.kind # "batch",
           m.kind = "crash" \/ (m.task \in Tasks /\ m.task <= nextTaskId),
           UNCHANGED <<clientVars, sent>>
    PROVE  EventsAreOfTasks' /\ PortInOrder' /\ NothingLost' /\ FinishIsLast'
<1> USE DEF IndInv
<1>1. UNCHANGED <<chain, started, active, gen, nextTaskId>>
  BY DEF clientVars
<1>2. EventsAreOfTasks'
  BY <1>1, PostPlaces DEF OrderInv, EventsAreOfTasks
<1>3. \A i \in 1..Len(fromWorker'), t \in Tasks :
         IsBatch(i, t)' => i \in 1..Len(fromWorker) /\ IsBatch(i, t) /\ fromWorker'[i] = fromWorker[i]
  BY PostPlaces DEF IsBatch
<1>4. PortInOrder'
  BY <1>1, <1>3 DEF OrderInv, PortInOrder, Received
<1>5. NothingLost'
  <2> SUFFICES ASSUME active # NoTask, NEW n \in Nat, Received(active) < n, n <= sent[active]
               PROVE  \E i \in 1..Len(fromWorker') :
                         /\ IsBatch(i, active)' /\ fromWorker'[i].seq = n /\ fromWorker'[i].gen = gen
    BY <1>1 DEF NothingLost, Received
  <2>1. PICK k \in 1..Len(fromWorker) :
           IsBatch(k, active) /\ fromWorker[k].seq = n /\ fromWorker[k].gen = gen
    BY DEF OrderInv, NothingLost
  <2>2. k \in 1..Len(fromWorker') /\ fromWorker'[k] = fromWorker[k]
    BY <2>1, PostPlaces
  <2>3. QED
    BY <1>1, <2>1, <2>2 DEF IsBatch
<1>6. FinishIsLast'
  <2> SUFFICES ASSUME NEW i \in 1..Len(fromWorker'), NEW j \in 1..Len(fromWorker'),
                      fromWorker'[i].kind = "finish", IsBatch(j, fromWorker[i].task)'
               PROVE  j < i
    BY DEF FinishIsLast
  <2>1. /\ j \in 1..Len(fromWorker) /\ j < Len(fromWorker) + 1 /\ fromWorker'[j] = fromWorker[j]
    BY PostPlaces DEF IsBatch
  <2>2. QED
    BY <2>1, PostPlaces DEF IsBatch, OrderInv, FinishIsLast
<1>7. QED
  BY <1>2, <1>4, <1>5, <1>6

\* A batch is posted: it is the next that was sent.
LEMMA PullBatchOrder ==
    ASSUME IndInv, IndInv', OrderInv, NEW t \in Tasks, PullBatch(t)
    PROVE  EventsAreOfTasks' /\ ChainsInOrder' /\ PortInOrder' /\ NothingLost' /\ FinishIsLast'
                 /\ sent'[t] = sent[t] + 1 /\ active = t /\ t <= nextTaskId
<1> USE DEF IndInv
<1> DEFINE m == Message("batch", t, sent[t] + 1)
<1>1. /\ runs[t] = "pull" /\ Post(m) /\ UNCHANGED <<chain, started, handling, active, gen, nextTaskId>>
      /\ active = t /\ t <= nextTaskId /\ t # NoTask
  BY OrderTypes DEF PullBatch, clientVars, RunInv, RunsAreActive, FutureHasNoRun, Running
<1>2. m \in Events /\ m.kind = "batch" /\ m.task = t /\ m.seq = sent[t] + 1 /\ m.gen = gen
  BY OrderTypes DEF Message, Events, TypeOK, ClientTypeOK
<1> HIDE DEF m
<1>3. /\ sent'[t] = sent[t] + 1 /\ sent[t] \in Nat
      /\ \A u \in Tasks : u # t => sent'[u] = sent[u]
  BY OrderTypes DEF PullBatch, TypeOK, WorkerTypeOK
<1>4. EventsAreOfTasks'
  BY <1>1, <1>2, PostPlaces DEF OrderInv, EventsAreOfTasks
<1>5. ChainsInOrder'
  BY SMTT(30), <1>1, <1>3, OrderTypes DEF OrderInv, ChainsInOrder, Received
<1>6. PortInOrder'
  <2> SUFFICES ASSUME NEW i \in 1..Len(fromWorker'), NEW u \in Tasks, IsBatch(i, u)'
               PROVE  /\ Received(u) < fromWorker'[i].seq /\ fromWorker'[i].seq <= sent'[u]
                      /\ \A j \in 1..Len(fromWorker') :
                            IsBatch(j, u)' /\ i < j => fromWorker'[i].seq < fromWorker'[j].seq
    BY <1>1 DEF PortInOrder, Received
  <2>1. CASE i = Len(fromWorker) + 1
    <3>1. fromWorker'[i] = m /\ u = t
      BY <1>1, <1>2, <2>1, PostPlaces DEF IsBatch
    <3>2. \A j \in 1..Len(fromWorker') : ~(i < j)
      BY <1>1, <1>2, <2>1, PostPlaces, OrderTypes
    <3>3. Received(t) <= sent[t] /\ Received(t) \in Nat
      BY OrderTypes DEF OrderInv, ChainsInOrder
    <3>4. QED
      BY <1>2, <1>3, <3>1, <3>2, <3>3
  <2>2. CASE i \in 1..Len(fromWorker)
    <3>1. fromWorker'[i] = fromWorker[i] /\ IsBatch(i, u)
      BY <1>1, <1>2, <2>2, PostPlaces DEF IsBatch
    <3>2. /\ Received(u) < fromWorker[i].seq /\ fromWorker[i].seq <= sent[u]
          /\ fromWorker[i].seq \in Nat /\ sent[u] \in Nat
      BY <2>2, <3>1, OrderTypes DEF OrderInv, PortInOrder
    <3>3. fromWorker[i].seq <= sent'[u]
      BY <1>3, <3>2
    <3>4. ASSUME NEW j \in 1..Len(fromWorker'), IsBatch(j, u)', i < j
          PROVE  fromWorker[i].seq < fromWorker'[j].seq
      <4>1. CASE j \in 1..Len(fromWorker)
        BY <1>1, <1>2, <2>2, <3>1, <3>4, <4>1, PostPlaces DEF IsBatch, OrderInv, PortInOrder
      <4>2. CASE j = Len(fromWorker) + 1
        BY <1>1, <1>2, <1>3, <3>2, <3>4, <4>2, PostPlaces DEF IsBatch
      <4>3. QED
        BY <1>1, <1>2, <4>1, <4>2, PostPlaces
    <3>5. QED
      BY <3>1, <3>2, <3>3, <3>4
  <2>3. QED
    BY <1>1, <1>2, <2>1, <2>2, PostPlaces
<1>7. NothingLost'
  <2> SUFFICES ASSUME NEW n \in Nat, Received(t) < n, n <= sent'[t]
               PROVE  \E i \in 1..Len(fromWorker') :
                         /\ IsBatch(i, t)' /\ fromWorker'[i].seq = n /\ fromWorker'[i].gen = gen
    BY <1>1 DEF NothingLost, Received, IsBatch
  <2>1. CASE n = sent[t] + 1
    BY <1>1, <1>2, <2>1, PostPlaces DEF IsBatch
  <2>2. CASE n # sent[t] + 1
    <3>1. n <= sent[t]
      BY <1>3, <2>2
    <3>2. PICK k \in 1..Len(fromWorker) :
             IsBatch(k, t) /\ fromWorker[k].seq = n /\ fromWorker[k].gen = gen
      BY <1>1, <3>1 DEF OrderInv, NothingLost
    <3>3. k \in 1..Len(fromWorker') /\ fromWorker'[k] = fromWorker[k]
      BY <1>1, <1>2, <3>2, PostPlaces
    <3>4. QED
      BY <3>2, <3>3 DEF IsBatch
  <2>3. QED
    BY <2>1, <2>2
<1>8. FinishIsLast'
  <2> SUFFICES ASSUME NEW i \in 1..Len(fromWorker'), NEW j \in 1..Len(fromWorker'),
                      fromWorker'[i].kind = "finish", IsBatch(j, fromWorker[i].task)'
               PROVE  j < i
    BY DEF FinishIsLast
  <2>1. /\ i \in 1..Len(fromWorker) /\ fromWorker'[i] = fromWorker[i]
    BY <1>1, <1>2, PostPlaces
  <2>2. fromWorker[i].task # t
    BY <1>1, <2>1 DEF RunInv, EndsAreOver
  <2>3. j \in 1..Len(fromWorker) /\ fromWorker'[j] = fromWorker[j]
    BY <1>1, <1>2, <2>1, <2>2, PostPlaces DEF IsBatch
  <2>4. QED
    BY <2>1, <2>3 DEF IsBatch, OrderInv, FinishIsLast
<1>9. QED
  BY <1>1, <1>3, <1>4, <1>5, <1>6, <1>7, <1>8

\* The worker's side.
LEMMA WorkerOrder ==
    ASSUME IndInv, IndInv', OrderInv,
           \/ WorkerParse \/ WorkerAck \/ Crash
           \/ \E t \in Tasks : WorkerStep(t)
    PROVE  OrderInv'
<1> USE DEF IndInv
<1>1. UNCHANGED clientVars
  BY DEF WorkerParse, WorkerAck, Crash, WorkerStep, HeadRead, HeadReadFails, Take, PullBatch, PullEnd
<1>2. \A t \in Tasks : runs[t] = "done" => runs'[t] = "done"
  <2>1. CASE WorkerParse
    <3>1. Request \in Requests /\ Request = toWorker[1] /\ 1 \in 1..Len(toWorker)
      BY <2>1, SeqElements DEF WorkerParse, Request, TypeOK, PortsTypeOK
    <3>2. runs[Request.task] = "none"
      BY <2>1, <3>1 DEF WorkerParse, RunInv, RequestsAreActive
    <3>3. QED
      BY <2>1, <3>2 DEF WorkerParse, TypeOK, WorkerTypeOK
  <2>2. CASE WorkerAck
    BY <2>2 DEF WorkerAck
  <2>3. CASE Crash
    BY <2>3, StoppedRuns DEF Crash, Running
  <2>4. ASSUME NEW t \in Tasks, WorkerStep(t) PROVE \A u \in Tasks : runs[u] = "done" => runs'[u] = "done"
    BY <2>4 DEF WorkerStep, HeadRead, HeadReadFails, Take, MayTake, PullBatch, PullEnd, TypeOK, WorkerTypeOK
  <2>5. QED
    BY <2>1, <2>2, <2>3, <2>4
<1>3. ASSUME sent' = sent
      PROVE  ChainsInOrder' /\ FutureIsBlank' /\ ActiveIsPending' /\ AfterIsComplete'
               /\ HandledAreStarted' /\ ResolvedIsOver' /\ WorkerFailureDrained'
  BY <1>1, <1>2, <1>3
  DEF clientVars, OrderInv, FutureIsBlank, ActiveIsPending, ChainsInOrder, AfterIsComplete,
      HandledAreStarted, ResolvedIsOver, WorkerFailureDrained, Received, Idle
<1>4. CASE sent' = sent /\ fromWorker' = fromWorker
  <2>1. EventsAreOfTasks' /\ PortInOrder' /\ NothingLost' /\ FinishIsLast'
    BY <1>1, <1>4
    DEF clientVars, OrderInv, EventsAreOfTasks, PortInOrder, NothingLost, FinishIsLast, IsBatch, Received
  <2>2. QED
    BY <1>3, <1>4, <2>1 DEF OrderInv
<1>5. ASSUME NEW k \in {"finish", "error", "crash"}, NEW t \in Tasks \cup {NoTask}, NEW n \in Nat,
             k = "crash" \/ (t \in Tasks /\ t <= nextTaskId),
             sent' = sent, Post(Message(k, t, n))
      PROVE  OrderInv'
  <2> DEFINE m == Message(k, t, n)
  <2>1. m \in Events /\ m.kind = k /\ m.task = t
    BY DEF Message, Events, TypeOK, ClientTypeOK
  <2> HIDE DEF m
  <2>2. EventsAreOfTasks' /\ PortInOrder' /\ NothingLost' /\ FinishIsLast'
    BY <1>1, <1>5, <2>1, PostOrder DEF m
  <2>3. QED
    BY <1>3, <1>5, <2>2 DEF OrderInv
<1>6. CASE WorkerParse \/ WorkerAck
  BY <1>4, <1>6 DEF WorkerParse, WorkerAck
<1>7. CASE Crash
  BY <1>5, <1>7 DEF Crash
<1>8. ASSUME NEW t \in Tasks, WorkerStep(t) PROVE OrderInv'
  <2>1. t <= nextTaskId /\ active = t /\ t # NoTask
    BY <1>8, OrderTypes DEF WorkerStep, HeadRead, HeadReadFails, Take, MayTake, PullBatch, PullEnd, RunInv,
       RunsAreActive, FutureHasNoRun, Running
  <2>2. CASE PullBatch(t)
    <3>1. /\ EventsAreOfTasks' /\ ChainsInOrder' /\ PortInOrder' /\ NothingLost' /\ FinishIsLast'
          /\ runs[t] = "pull"
      BY <2>2, PullBatchOrder DEF PullBatch
    <3>2. \A u \in Tasks : u # t => sent'[u] = sent[u]
      BY <2>2 DEF PullBatch, TypeOK, WorkerTypeOK
    <3>3. outcome[t] = "pending" /\ after[t] = "none"
      BY <2>1 DEF OrderInv, ActiveIsPending
    <3>4. FutureIsBlank'
      <4>1. t \in Nat /\ nextTaskId \in Nat /\ Tasks \subseteq Nat
        BY OrderTypes
      <4>2. \A u \in Tasks : u > nextTaskId => u # t
        BY <2>1, <4>1
      <4>3. UNCHANGED <<nextTaskId, outcome, after, chain, handling, handled, started>>
        BY <1>1 DEF clientVars
      <4>4. \A u \in Tasks : u > nextTaskId => sent'[u] = sent[u]
        BY <3>2, <4>2
      <4>5. QED
        BY <4>3, <4>4 DEF OrderInv, FutureIsBlank
    <3>5. ActiveIsPending' /\ AfterIsComplete' /\ HandledAreStarted' /\ ResolvedIsOver' /\ WorkerFailureDrained'
      BY <1>1, <1>2, <3>2, <3>3
      DEF clientVars, OrderInv, ActiveIsPending, AfterIsComplete, HandledAreStarted, ResolvedIsOver,
          WorkerFailureDrained, Received, Idle
    <3>6. QED
      BY <3>1, <3>4, <3>5 DEF OrderInv
  <2>3. CASE Take(t) \/ HeadReadFails(t)
    BY <1>4, <2>3 DEF Take, HeadReadFails
  <2>4. CASE HeadRead(t) \/ PullEnd(t)
    <3>1. sent[t] \in Nat
      BY OrderTypes
    <3>2. /\ sent' = sent
          /\ \/ UNCHANGED fromWorker
             \/ Post(Message("error", t, 0))
             \/ \E k \in {"finish", "error"} : Post(Message(k, t, sent[t]))
      BY <2>4 DEF HeadRead, PullEnd
    <3>3. QED
      BY <1>4, <1>5, <2>1, <3>1, <3>2
  <2>5. QED
    BY <1>8, <2>2, <2>3, <2>4 DEF WorkerStep
<1>9. QED
  BY <1>6, <1>7, <1>8

LEMMA OrderInit == Init => OrderInv
<1> SUFFICES ASSUME Init PROVE OrderInv
  OBVIOUS
<1>1. ChainsInOrder /\ PortInOrder /\ FinishIsLast
  BY DEF Init, ChainsInOrder, PortInOrder, FinishIsLast, IsBatch, Received
<1>2. QED
  BY <1>1, ProtocolAssumption
  DEF Init, OrderInv, FutureIsBlank, ActiveIsPending, EventsAreOfTasks, NothingLost, AfterIsComplete,
      HandledAreStarted, ResolvedIsOver, WorkerFailureDrained, NoTask

LEMMA OrderStep == IndInv /\ OrderInv /\ [Next]_vars => OrderInv'
<1> SUFFICES ASSUME IndInv, OrderInv, [Next]_vars PROVE OrderInv'
  OBVIOUS
<1>1. IndInv'
  BY IndStep
<1>2. CASE UNCHANGED vars
  BY <1>2
  DEF vars, clientVars, workerVars, OrderInv, FutureIsBlank, ActiveIsPending, EventsAreOfTasks,
      ChainsInOrder, PortInOrder, NothingLost, FinishIsLast, AfterIsComplete, HandledAreStarted,
      ResolvedIsOver, WorkerFailureDrained, IsBatch, Received, Idle
<1>3. CASE Next
  BY <1>1, <1>2, <1>3, CallsOrder, DeliverOrder, WorkerOrder, ChainOrder DEF Next, Rest
<1>4. QED
  BY <1>2, <1>3

-----------------------------------------------------------------------------
(* The theorems.                                                            *)

LEMMA OrderImplies ==
    ASSUME IndInv, OrderInv
    PROVE  BatchesInOrder /\ ResolvedIsComplete /\ WorkerFailureDrained
<1>1. \A t \in Tasks : DOMAIN chain[t] = 1..Len(chain[t])
  BY OrderTypes DEF IndInv
<1>2. QED
  BY <1>1
  DEF OrderInv, ChainsInOrder, ResolvedIsOver, BatchesInOrder, ResolvedIsComplete

\* onBatch is called with 1, 2, 3, ...: nothing is skipped, repeated or overtaken
\* (handleMessage's ackChain, parse-worker-client.ts).
THEOREM BatchesAreInOrder == Spec => []BatchesInOrder
<1>1. Spec => [](IndInv /\ OrderInv)
  BY IndInit, IndStep, OrderInit, OrderStep, PTL DEF Spec
<1>2. IndInv /\ OrderInv => BatchesInOrder
  BY OrderImplies
<1>3. QED
  BY <1>1, <1>2, PTL

\* A parse that resolves has handed over every batch the worker produced for it and
\* each onBatch has resolved (the `finish` case of handleMessage).
THEOREM ResolvedParseIsComplete == Spec => []ResolvedIsComplete
<1>1. Spec => [](IndInv /\ OrderInv)
  BY IndInit, IndStep, OrderInit, OrderStep, PTL DEF Spec
<1>2. IndInv /\ OrderInv => ResolvedIsComplete
  BY OrderImplies
<1>3. QED
  BY <1>1, <1>2, PTL

\* A parse that the worker failed rejects behind every batch chained before it
\* (the `error` case of handleMessage and handleCrash).
THEOREM FailedParseIsDrained == Spec => []WorkerFailureDrained
<1>1. Spec => [](IndInv /\ OrderInv)
  BY IndInit, IndStep, OrderInit, OrderStep, PTL DEF Spec
<1>2. IndInv /\ OrderInv => WorkerFailureDrained
  BY OrderImplies
<1>3. QED
  BY <1>1, <1>2, PTL

-----------------------------------------------------------------------------
(* Counting the messages of a port.                                         *)

Places(s, P) == {i \in 1..Len(s) : s[i] \in P}

Count(s, P) == Cardinality(Places(s, P))

LEMMA CountType ==
    ASSUME NEW S, NEW s \in Seq(S), NEW P
    PROVE  /\ IsFiniteSet(Places(s, P)) /\ Count(s, P) \in Nat
           /\ Count(s, P) = 0 <=> \A i \in 1..Len(s) : s[i] \notin P
<1>1. IsFiniteSet(1..Len(s))
  BY FS_Interval
<1>2. IsFiniteSet(Places(s, P))
  BY <1>1, FS_Subset DEF Places
<1>3. Count(s, P) \in Nat /\ (Count(s, P) = 0 <=> Places(s, P) = {})
  BY <1>2, FS_CardinalityType, FS_EmptySet DEF Count
<1>4. QED
  BY <1>2, <1>3 DEF Places

LEMMA CountAppend ==
    ASSUME NEW S, NEW s \in Seq(S), NEW x \in S, NEW P
    PROVE  Count(Append(s, x), P) = Count(s, P) + (IF x \in P THEN 1 ELSE 0)
<1>1. Places(Append(s, x), P) = IF x \in P THEN Places(s, P) \cup {Len(s) + 1} ELSE Places(s, P)
  <2>1. \A i \in 1..Len(Append(s, x)) : i \in Places(Append(s, x), P) <=>
           \/ i \in Places(s, P)
           \/ i = Len(s) + 1 /\ x \in P
    BY AppendPlaces DEF Places
  <2>2. /\ Places(Append(s, x), P) \subseteq 1..Len(Append(s, x))
        /\ Places(s, P) \subseteq 1..Len(Append(s, x))
        /\ Len(s) + 1 \in 1..Len(Append(s, x))
    BY AppendPlaces DEF Places
  <2>3. QED
    BY <2>1, <2>2
<1>2. Len(s) + 1 \notin Places(s, P)
  BY DEF Places
<1>3. IsFiniteSet(Places(s, P)) /\ Count(s, P) \in Nat
  BY CountType
<1>4. CASE x \in P
  BY <1>1, <1>2, <1>3, <1>4, FS_AddElement DEF Count
<1>5. CASE x \notin P
  BY <1>1, <1>3, <1>5 DEF Count
<1>6. QED
  BY <1>4, <1>5

LEMMA CountTail ==
    ASSUME NEW S, NEW s \in Seq(S), s # << >>, NEW P
    PROVE  Count(s, P) = Count(Tail(s), P) + (IF s[1] \in P THEN 1 ELSE 0)
<1> DEFINE rest == Places(s, P) \ {1}
           shift == [i \in Places(Tail(s), P) |-> i + 1]
<1>1. Tail(s) \in Seq(S) /\ Len(s) \in Nat /\ 1 \in 1..Len(s)
  OBVIOUS
<1>2. shift \in Bijection(Places(Tail(s), P), rest)
  <2>1. \A i \in Places(Tail(s), P) : i + 1 \in rest /\ i \in Nat
    BY TailPlaces, <1>1 DEF Places
  <2>2. \A j \in rest : j - 1 \in Places(Tail(s), P) /\ shift[j - 1] = j
    BY TailPlaces, <1>1 DEF Places
  <2>3. shift \in Injection(Places(Tail(s), P), rest)
    BY <2>1 DEF Injection, IsInjective
  <2>4. shift \in Surjection(Places(Tail(s), P), rest)
    BY <2>1, <2>2 DEF Surjection
  <2>5. QED
    BY <2>3, <2>4 DEF Bijection
<1>3. Cardinality(rest) = Count(Tail(s), P)
  <2>1. IsFiniteSet(Places(Tail(s), P))
    BY <1>1, CountType
  <2>2. ExistsBijection(Places(Tail(s), P), rest)
    BY <1>2 DEF ExistsBijection
  <2>3. QED
    BY <2>1, <2>2, FS_Bijection DEF Count
<1>4. IsFiniteSet(Places(s, P)) /\ Count(s, P) \in Nat /\ Count(Tail(s), P) \in Nat
  BY <1>1, CountType
<1>5. 1 \in Places(s, P) <=> s[1] \in P
  BY <1>1 DEF Places
<1>6. Cardinality(rest) = IF s[1] \in P THEN Count(s, P) - 1 ELSE Count(s, P)
  BY <1>4, <1>5, FS_RemoveElement DEF Count
<1>7. QED
  BY <1>3, <1>4, <1>6

-----------------------------------------------------------------------------
(* The inductive invariant.                                                 *)

\* The messages that hold a permit of task t: batches of the current worker on the
\* way to the client, and acks on the way back.
BatchesOf(t) == {m \in Events : m.gen = gen /\ m.kind = "batch" /\ m.task = t}
AcksOf(t) == {m \in Requests : m.kind = "ack" /\ m.task = t}

\* Acks on the way are of batches that have been started.
AcksAreOfStarted ==
    \A i \in 1..Len(toWorker) : toWorker[i].kind = "ack" => started[toWorker[i].task] > 0

\* The gate is that of a run that lives.
GateIsAlive ==
    current # NoTask => alive /\ runs[current] \in {"take", "pull"}

\* A run that has taken no credit yet has sent nothing.
HeadHasSentNothing ==
    \A t \in Tasks : runs[t] \in {"none", "head"} => sent[t] = 0

CreditInv == AcksAreOfStarted /\ GateIsAlive /\ HeadHasSentNothing /\ CreditConserved

\* What is in flight, counted with sets of messages.
LEMMA InFlightCount ==
    ASSUME TypeOK, NEW t \in Tasks
    PROVE  InFlight(t) = Count(fromWorker, BatchesOf(t)) + Len(chain[t])
                           + (IF handling[t] # 0 THEN 1 ELSE 0) + Count(toWorker, AcksOf(t))
<1>1. \A i \in 1..Len(fromWorker) : fromWorker[i] \in Events
  BY DEF TypeOK, PortsTypeOK
<1>2. \A i \in 1..Len(toWorker) : toWorker[i] \in Requests
  BY DEF TypeOK, PortsTypeOK
<1>3. DOMAIN fromWorker = 1..Len(fromWorker) /\ DOMAIN toWorker = 1..Len(toWorker)
  BY DEF TypeOK, PortsTypeOK
<1>4. {i \in DOMAIN fromWorker : /\ fromWorker[i].gen = gen /\ fromWorker[i].kind = "batch"
                                 /\ fromWorker[i].task = t} = Places(fromWorker, BatchesOf(t))
  BY <1>1, <1>3 DEF Places, BatchesOf
<1>5. {i \in DOMAIN toWorker : toWorker[i].kind = "ack" /\ toWorker[i].task = t}
        = Places(toWorker, AcksOf(t))
  BY <1>2, <1>3 DEF Places, AcksOf
<1>6. QED
  BY <1>4, <1>5 DEF InFlight, CountOf, Count

-----------------------------------------------------------------------------
(* The gate and the acks, step by step.                                        *)

LEMMA GateStep ==
    ASSUME IndInv, IndInv', OrderInv, GateIsAlive, Next
    PROVE  GateIsAlive'
<1> USE DEF IndInv
<1>1. CASE current' = NoTask
  BY <1>1 DEF GateIsAlive
<1>2. CASE UNCHANGED <<current, alive, runs>>
  BY <1>2 DEF GateIsAlive
<1>3. ASSUME StopWorker PROVE current' = NoTask
  BY <1>3 DEF StopWorker
<1>4. CASE Parse \/ ParsePostFails \/ Cancel \/ Dispose \/ Deliver \/ Crash
  BY <1>1, <1>2, <1>3, <1>4, ReplacedStops
  DEF Parse, ParsePostFails, Cancel, Dispose, Deliver, OnStale, OnBatch, OnFinish, OnError,
      OnCrash, Crash, KeepWorker, workerVars
<1>5. CASE WorkerAck \/ Rest
  BY <1>2, <1>5 DEF WorkerAck, Rest, vars, workerVars
<1>6. CASE WorkerParse
  <2>1. Request \in Requests /\ Request = toWorker[1] /\ 1 \in 1..Len(toWorker)
    BY <1>6, SeqElements DEF WorkerParse, Request, TypeOK, PortsTypeOK
  <2>2. runs[Request.task] = "none"
    BY <1>6, <2>1 DEF WorkerParse, RunInv, RequestsAreActive
  <2>3. current # NoTask => current # Request.task
    BY <2>2 DEF GateIsAlive
  <2>4. QED
    BY <1>6, <2>3 DEF WorkerParse, GateIsAlive, TypeOK, WorkerTypeOK
<1>7. ASSUME NEW t \in Tasks, WorkerStep(t) PROVE GateIsAlive'
  <2>1. runs[t] \in Running /\ \A u \in Tasks : runs[u] \in {"take", "pull"} => u = t
    BY <1>7 DEF WorkerStep, HeadRead, HeadReadFails, Take, MayTake, PullBatch, PullEnd, Running,
       RunInv, RunsAreActive
  <2>2. current # NoTask => current = t
    BY <2>1 DEF GateIsAlive, TypeOK, WorkerTypeOK
  <2>3. CASE HeadRead(t) \/ HeadReadFails(t)
    BY <2>2, <2>3, TaskFacts DEF HeadRead, HeadReadFails, GateIsAlive, TypeOK, WorkerTypeOK
  <2>4. CASE Take(t) \/ PullBatch(t)
    BY <2>2, <2>4 DEF Take, PullBatch, GateIsAlive, TypeOK, WorkerTypeOK
  <2>5. CASE PullEnd(t)
    BY <1>1, <2>2, <2>5 DEF PullEnd
  <2>6. QED
    BY <1>7, <2>3, <2>4, <2>5 DEF WorkerStep
<1>8. ASSUME NEW t \in Tasks, ChainStep(t) PROVE GateIsAlive'
  BY <1>1, <1>2, <1>3, <1>8, ReplacedStops
  DEF ChainStep, StartBatch, HandlerDone, HandlerFails, Settle, KeepWorker, workerVars
<1>9. QED
  BY <1>4, <1>5, <1>6, <1>7, <1>8 DEF Next

LEMMA HeadStep ==
    ASSUME IndInv, IndInv', HeadHasSentNothing, Next
    PROVE  HeadHasSentNothing'
<1> USE DEF IndInv
<1>1. ASSUME UNCHANGED sent, \A t \in Tasks : runs'[t] \in {"none", "head"} => runs[t] \in {"none", "head"}
      PROVE HeadHasSentNothing'
  BY <1>1 DEF HeadHasSentNothing
<1>2. CASE UNCHANGED <<runs, sent>>
  BY <1>1, <1>2
<1>3. CASE StopWorker /\ UNCHANGED sent
  BY <1>1, <1>3, StoppedRuns DEF StopWorker, TypeOK, WorkerTypeOK
<1>4. CASE Parse \/ ParsePostFails \/ Cancel \/ Dispose \/ Deliver \/ Crash
  BY <1>2, <1>3, <1>4, ReplacedStops
  DEF Parse, ParsePostFails, Cancel, Dispose, Deliver, OnStale, OnBatch, OnFinish, OnError,
      OnCrash, Crash, KeepWorker, workerVars
<1>5. CASE WorkerAck \/ Rest
  BY <1>2, <1>5 DEF WorkerAck, Rest, vars, workerVars
<1>6. CASE WorkerParse
  <2>1. Request \in Requests /\ Request = toWorker[1] /\ 1 \in 1..Len(toWorker)
    BY <1>6, SeqElements DEF WorkerParse, Request, TypeOK, PortsTypeOK
  <2>2. runs[Request.task] = "none"
    BY <1>6, <2>1 DEF WorkerParse, RunInv, RequestsAreActive
  <2>3. QED
    BY <1>1, <1>6, <2>2 DEF WorkerParse, TypeOK, WorkerTypeOK
<1>7. ASSUME NEW t \in Tasks, WorkerStep(t) PROVE HeadHasSentNothing'
  <2>1. \A u \in Tasks : u # t => runs'[u] = runs[u] /\ sent'[u] = sent[u]
    BY <1>7 DEF WorkerStep, HeadRead, HeadReadFails, Take, PullBatch, PullEnd, TypeOK, WorkerTypeOK
  <2>2. runs'[t] \notin {"none", "head"}
    BY <1>7 DEF WorkerStep, HeadRead, HeadReadFails, Take, PullBatch, PullEnd, TypeOK, WorkerTypeOK
  <2>3. QED
    BY <2>1, <2>2 DEF HeadHasSentNothing
<1>8. ASSUME NEW t \in Tasks, ChainStep(t) PROVE HeadHasSentNothing'
  BY <1>2, <1>3, <1>8, ReplacedStops
  DEF ChainStep, StartBatch, HandlerDone, HandlerFails, Settle, KeepWorker, workerVars
<1>9. QED
  BY <1>4, <1>5, <1>6, <1>7, <1>8 DEF Next

LEMMA AcksStep ==
    ASSUME IndInv, IndInv', OrderInv, AcksAreOfStarted, Next
    PROVE  AcksAreOfStarted'
<1> USE DEF IndInv
<1>1. toWorker \in Seq(Requests) /\ \A i \in 1..Len(toWorker) : toWorker[i] \in Requests
  BY DEF TypeOK, PortsTypeOK
<1>2. \A t \in Tasks : started'[t] >= started[t]
  <2>1. ASSUME NEW t \in Tasks, StartBatch(t) PROVE \A u \in Tasks : started'[u] >= started[u]
    <3>1. chain[t] \in Seq(Nat) /\ chain[t] # << >> /\ started \in [Tasks -> Nat]
      BY <2>1 DEF StartBatch, TypeOK, ChainTypeOK
    <3>2. Head(chain[t]) = started[t] + 1
      BY <3>1, SeqElements DEF OrderInv, ChainsInOrder
    <3>3. started' = [started EXCEPT ![t] = started[t] + 1]
      BY <2>1, <3>2 DEF StartBatch
    <3>4. QED
      BY <3>1, <3>3
  <2>2. (\E t \in Tasks : StartBatch(t)) \/ UNCHANGED started
    BY DEF Next, Parse, ParsePostFails, Cancel, Dispose, Deliver, OnStale, OnBatch, OnFinish,
       OnError, OnCrash, WorkerParse, WorkerAck, Crash, WorkerStep, HeadRead, HeadReadFails, Take,
       PullBatch, PullEnd, ChainStep, HandlerDone, HandlerFails, Settle, Rest, clientVars, vars
  <2>3. \A t \in Tasks : started[t] >= started[t]
    BY OrderTypes
  <2>4. QED
    BY <2>1, <2>2, <2>3
<1>3. ASSUME \A i \in 1..Len(toWorker') :
               \/ toWorker'[i].kind = "parse"
               \/ \E j \in 1..Len(toWorker) : toWorker'[i] = toWorker[j]
      PROVE  AcksAreOfStarted'
  <2>1. \A i \in 1..Len(toWorker) :
           toWorker[i].kind = "ack" => toWorker[i].task \in Tasks /\ started'[toWorker[i].task] > 0
    <3>1. \A i \in 1..Len(toWorker) : toWorker[i].task \in Tasks
      BY <1>1 DEF Requests
    <3>2. \A t \in Tasks : started[t] \in Nat /\ started'[t] \in Nat
      BY DEF TypeOK, ChainTypeOK
    <3>3. QED
      BY <1>2, <3>1, <3>2 DEF AcksAreOfStarted
  <2>2. QED
    BY <1>3, <2>1 DEF AcksAreOfStarted
<1>4. CASE UNCHANGED toWorker \/ toWorker' = << >>
  BY <1>3, <1>4
<1>5. CASE Parse
  <2> DEFINE request == [kind |-> "parse", task |-> nextTaskId']
  <2>1. request \in Requests /\ request.kind = "parse"
    BY <1>5, TaskFacts DEF Parse, Requests, TypeOK, ClientTypeOK
  <2> HIDE DEF request
  <2>2. toWorker' = toWorker \o <<request>> \/ toWorker' = <<request>> \/ toWorker' = << >>
    BY <1>5 DEF Parse, ReplaceWorker, request
  <2>3. CASE toWorker' = toWorker \o <<request>>
    <3>1. toWorker' = Append(toWorker, request)
      BY <1>1, <2>1, <2>3, SeqElements
    <3>2. QED
      BY <1>1, <1>3, <2>1, <3>1, AppendPlaces
  <2>4. CASE toWorker' = <<request>>
    BY <1>3, <2>1, <2>4
  <2>5. QED
    BY <1>4, <2>2, <2>3, <2>4
<1>6. CASE WorkerParse \/ WorkerAck
  <2>1. toWorker # << >> /\ toWorker' = Tail(toWorker)
    BY <1>6 DEF WorkerParse, WorkerAck
  <2>2. QED
    BY <1>1, <1>3, <2>1, TailPlaces
<1>7. ASSUME NEW t \in Tasks, HandlerDone(t) PROVE AcksAreOfStarted'
  <2> DEFINE ack == [kind |-> "ack", task |-> t]
  <2>1. ack \in Requests /\ ack.task = t
    BY DEF Requests
  <2>2. started[t] > 0 /\ started' = started
    BY <1>7, OrderTypes DEF HandlerDone, OrderInv, ChainsInOrder
  <2> HIDE DEF ack
  <2>3. toWorker' = Append(toWorker, ack) \/ UNCHANGED toWorker
    BY <1>7 DEF HandlerDone, ack
  <2>4. CASE toWorker' = Append(toWorker, ack)
    <3>1. \A i \in 1..Len(toWorker') : toWorker'[i] = ack \/ (i \in 1..Len(toWorker) /\ toWorker'[i] = toWorker[i])
      BY <1>1, <2>1, <2>4, AppendPlaces
    <3>2. QED
      BY <2>1, <2>2, <3>1 DEF AcksAreOfStarted
  <2>5. QED
    BY <1>4, <2>3, <2>4
<1>8. QED
  BY <1>4, <1>5, <1>6, <1>7
  DEF Next, ParsePostFails, Cancel, Dispose, Deliver, OnStale, OnBatch, OnFinish,
       OnError, OnCrash, Crash, WorkerStep, HeadRead, HeadReadFails, Take, PullBatch, PullEnd,
       ChainStep, StartBatch, HandlerFails, Settle, Rest, vars, ReplaceWorker

-----------------------------------------------------------------------------
(* Credit, step by step.                                                      *)

\* Where the permits of the task that owns the worker are.
Pulling(t) == IF runs[t] = "pull" THEN 1 ELSE 0
OnTheWay(t) == Count(fromWorker, BatchesOf(t))
Waiting(t) == Len(chain[t])
Handling(t) == IF handling[t] # 0 THEN 1 ELSE 0
OnTheWayBack(t) == Count(toWorker, AcksOf(t))

Balance(t) == permits + Pulling(t) + OnTheWay(t) + Waiting(t) + Handling(t) + OnTheWayBack(t)

LEMMA BalanceTypes ==
    ASSUME TypeOK, NEW t \in Tasks
    PROVE  /\ permits \in Nat /\ Pulling(t) \in Nat /\ OnTheWay(t) \in Nat
           /\ Waiting(t) \in Nat /\ Handling(t) \in Nat /\ OnTheWayBack(t) \in Nat
<1>1. OnTheWay(t) \in Nat /\ OnTheWayBack(t) \in Nat
  BY CountType DEF TypeOK, PortsTypeOK, OnTheWay, OnTheWayBack
<1>2. permits \in Nat /\ Waiting(t) \in Nat
  BY DEF TypeOK, ChainTypeOK, WorkerTypeOK, Waiting
<1>3. Pulling(t) \in Nat /\ Handling(t) \in Nat
  BY DEF Pulling, Handling
<1>4. QED
  BY <1>1, <1>2, <1>3

LEMMA CreditIsBalance ==
    ASSUME TypeOK
    PROVE  CreditConserved <=> \A t \in Tasks : active = t /\ current = t => Balance(t) = Window
<1>1. ASSUME NEW t \in Tasks
      PROVE  permits + (IF runs[t] = "pull" THEN 1 ELSE 0) + InFlight(t) = Balance(t)
  <2>1. InFlight(t) = OnTheWay(t) + Waiting(t) + Handling(t) + OnTheWayBack(t)
    BY InFlightCount DEF OnTheWay, Waiting, Handling, OnTheWayBack
  <2>2. permits + Pulling(t) + InFlight(t) = Balance(t)
    BY <2>1, BalanceTypes DEF Balance
  <2>3. QED
    BY <2>2 DEF Pulling
<1>2. QED
  BY <1>1 DEF CreditConserved

LEMMA CreditIsBalanceNext ==
    TypeOK' => (CreditConserved' <=> \A t \in Tasks : active' = t /\ current' = t => Balance(t)' = Window)
<1>1. TypeOK => (CreditConserved <=> \A t \in Tasks : active = t /\ current = t => Balance(t) = Window)
  BY CreditIsBalance
<1>2. (TypeOK => (CreditConserved <=> \A t \in Tasks : active = t /\ current = t => Balance(t) = Window))'
  BY <1>1, PTL
<1>3. QED
  BY <1>2

\* Where a task keeps its gate, its balance stays while nothing of it moves.
LEMMA DeliverCredit ==
    ASSUME IndInv, IndInv', CreditConserved, Deliver,
           NEW t \in Tasks, active' = t, current' = t
    PROVE  Balance(t)' = Window
<1> USE DEF IndInv
<1>1. ~OnFinish /\ ~OnError /\ ~OnCrash
  BY TaskFacts DEF OnFinish, OnError, OnCrash
<1>2. /\ fromWorker \in Seq(Events) /\ fromWorker # << >> /\ fromWorker' = Tail(fromWorker)
      /\ Event = fromWorker[1] /\ Event \in Events
      /\ UNCHANGED <<active, gen, current, permits, runs, handling, toWorker>>
  BY <1>1, SeqElements DEF Deliver, OnStale, OnBatch, Receive, Event, clientVars, workerVars, TypeOK, PortsTypeOK
<1>3. Balance(t) = Window
  BY <1>2, CreditIsBalance
<1>4. Count(fromWorker, BatchesOf(t))
        = Count(Tail(fromWorker), BatchesOf(t)) + (IF Event \in BatchesOf(t) THEN 1 ELSE 0)
  BY <1>2, CountTail
<1>5. BatchesOf(t)' = BatchesOf(t) /\ AcksOf(t)' = AcksOf(t)
  BY <1>2 DEF BatchesOf, AcksOf
<1>6. OnTheWay(t) = OnTheWay(t)' + (IF Event \in BatchesOf(t) THEN 1 ELSE 0)
  BY <1>2, <1>4, <1>5 DEF OnTheWay, Count, Places
<1>7. OnTheWayBack(t)' = OnTheWayBack(t) /\ Pulling(t)' = Pulling(t) /\ Handling(t)' = Handling(t)
  BY <1>2, <1>5 DEF OnTheWayBack, Count, Places, Pulling, Handling
<1>8. /\ permits' = permits /\ OnTheWay(t)' \in Nat
       /\ permits \in Nat /\ Pulling(t) \in Nat /\ OnTheWay(t) \in Nat
       /\ Waiting(t) \in Nat /\ Handling(t) \in Nat /\ OnTheWayBack(t) \in Nat
  <2>1. OnTheWay(t)' \in Nat
    <3>1. fromWorker' \in Seq(Events)
      BY DEF TypeOK, PortsTypeOK
    <3>2. QED
      BY <3>1, CountType DEF OnTheWay
  <2>2. QED
    BY <1>2, <2>1, BalanceTypes
<1>9. CASE OnStale
  <2>1. Event \notin BatchesOf(t) /\ chain' = chain
    BY <1>2, <1>9 DEF OnStale, Heard, FromCurrentWorker, BatchesOf, clientVars
  <2>2. OnTheWay(t)' = OnTheWay(t) /\ Waiting(t)' = Waiting(t)
    BY <1>6, <1>8, <2>1 DEF Waiting
  <2>3. QED
    BY <1>3, <1>7, <1>8, <2>2 DEF Balance
<1>10. CASE OnBatch
  <2>1. Event \in BatchesOf(t)
    BY <1>2, <1>10 DEF OnBatch, Heard, FromCurrentWorker, BatchesOf
  <2>2. Len(chain'[t]) = Len(chain[t]) + 1
    <3>1. chain[t] \in Seq(Nat) /\ Event.seq \in Nat
      BY <1>2 DEF TypeOK, ChainTypeOK, Events
    <3>2. chain'[t] = Append(chain[t], Event.seq)
      BY <1>2, <1>10 DEF OnBatch, Chained, TypeOK, ChainTypeOK
    <3>3. QED
      BY <3>1, <3>2
  <2>3. OnTheWay(t)' = OnTheWay(t) - 1 /\ Waiting(t)' = Waiting(t) + 1
    BY <1>6, <1>8, <2>1, <2>2 DEF Waiting
  <2>4. QED
    BY <1>3, <1>7, <1>8, <2>3 DEF Balance
<1>11. QED
  BY <1>1, <1>9, <1>10 DEF Deliver

LEMMA ChainCredit ==
    ASSUME IndInv, IndInv', OrderInv, GateIsAlive, CreditConserved, NEW u \in Tasks, ChainStep(u),
           NEW t \in Tasks, active' = t, current' = t
    PROVE  Balance(t)' = Window
<1> USE DEF IndInv
<1>1. ~(HandlerFails(u) /\ active = u)
  BY TaskFacts DEF HandlerFails
<1>2. UNCHANGED <<active, gen, current, permits, runs, fromWorker>>
  BY <1>1 DEF ChainStep, StartBatch, HandlerDone, HandlerFails, Settle, KeepWorker, workerVars
<1>3. Balance(t) = Window
  BY <1>2, CreditIsBalance
<1>4. BatchesOf(t)' = BatchesOf(t) /\ AcksOf(t)' = AcksOf(t)
  BY <1>2 DEF BatchesOf, AcksOf
<1>5. permits' = permits /\ OnTheWay(t)' = OnTheWay(t) /\ Pulling(t)' = Pulling(t)
  BY <1>2, <1>4 DEF OnTheWay, Count, Places, Pulling
<1>6. ASSUME toWorker' = toWorker
      PROVE  OnTheWayBack(t)' = OnTheWayBack(t)
  BY <1>4, <1>6 DEF OnTheWayBack, Count, Places
<1>7. ASSUME chain'[t] = chain[t], handling'[t] = handling[t], toWorker' = toWorker
      PROVE  Balance(t)' = Window
  BY <1>3, <1>5, <1>6, <1>7 DEF Balance, Waiting, Handling
<1>8. CASE StartBatch(u)
  <2>1. chain[u] \in Seq(Nat) /\ chain[u] # << >> /\ started[u] \in Nat
    BY <1>8 DEF StartBatch, TypeOK, ChainTypeOK
  <2>2. Head(chain[u]) # 0 /\ Len(Tail(chain[u])) = Len(chain[u]) - 1
    BY <2>1, SeqElements DEF OrderInv, ChainsInOrder
  <2>3. /\ chain'[t] = IF t = u THEN Tail(chain[u]) ELSE chain[t]
        /\ handling'[t] = IF t = u THEN Head(chain[u]) ELSE handling[t]
        /\ handling[u] = 0 /\ toWorker' = toWorker
    BY <1>8 DEF StartBatch, TypeOK, ChainTypeOK
  <2>4. CASE t = u
    <3>1. Waiting(t)' = Waiting(t) - 1 /\ Handling(t) = 0 /\ Handling(t)' = 1
      BY <2>2, <2>3, <2>4 DEF Waiting, Handling
    <3>2. QED
      BY <1>3, <1>5, <1>6, <2>3, <3>1, BalanceTypes DEF Balance
  <2>5. CASE t # u
    BY <1>7, <2>3, <2>5
  <2>6. QED
    BY <2>4, <2>5
<1>9. CASE HandlerDone(u)
  <2> DEFINE ack == [kind |-> "ack", task |-> u]
  <2>1. ack \in Requests /\ (ack \in AcksOf(t) <=> t = u)
    BY DEF Requests, AcksOf
  <2>2. t = u => toWorker' = Append(toWorker, ack)
    BY <1>2, <1>9, TaskFacts DEF HandlerDone, Acks, GateIsAlive
  <2>3. toWorker' \in {Append(toWorker, ack), toWorker}
    BY <1>9 DEF HandlerDone
  <2> HIDE DEF ack
  <2>4. OnTheWayBack(t)' = OnTheWayBack(t) + (IF t = u THEN 1 ELSE 0)
    <3>1. toWorker \in Seq(Requests)
      BY DEF TypeOK, PortsTypeOK
    <3>2. Count(Append(toWorker, ack), AcksOf(t)) = Count(toWorker, AcksOf(t)) + (IF t = u THEN 1 ELSE 0)
      BY <2>1, <3>1, CountAppend
    <3>3. OnTheWayBack(t) \in Nat
      BY BalanceTypes
    <3>4. OnTheWayBack(t)' = Count(toWorker', AcksOf(t))
      BY <1>4 DEF OnTheWayBack, Count, Places
    <3>5. CASE toWorker' = Append(toWorker, ack)
      BY <3>2, <3>4, <3>5 DEF OnTheWayBack
    <3>6. CASE toWorker' = toWorker /\ t # u
      BY <1>6, <3>3, <3>6
    <3>7. QED
      BY <2>2, <2>3, <3>5, <3>6
  <2>5. /\ chain' = chain /\ handling[u] # 0
        /\ handling'[t] = IF t = u THEN 0 ELSE handling[t]
    BY <1>9 DEF HandlerDone, TypeOK, ChainTypeOK
  <2>6. CASE t = u
    <3>1. Handling(t) = 1 /\ Handling(t)' = 0 /\ Waiting(t)' = Waiting(t)
      BY <2>5, <2>6 DEF Waiting, Handling
    <3>2. QED
      BY <1>3, <1>5, <2>4, <2>6, <3>1, BalanceTypes DEF Balance
  <2>7. CASE t # u
    <3>1. OnTheWayBack(t)' = OnTheWayBack(t)
      BY <2>4, <2>7, BalanceTypes
    <3>2. QED
      BY <1>3, <1>5, <2>5, <2>7, <3>1 DEF Balance, Waiting, Handling
  <2>8. QED
    BY <2>6, <2>7
<1>10. CASE HandlerFails(u)
  <2>1. t # u /\ chain' = chain /\ toWorker' = toWorker /\ handling'[t] = handling[t]
    BY <1>1, <1>2, <1>10 DEF HandlerFails, TypeOK, ChainTypeOK
  <2>2. QED
    BY <1>7, <2>1
<1>11. CASE Settle(u)
  BY <1>7, <1>11 DEF Settle
<1>12. QED
  BY <1>8, <1>9, <1>10, <1>11 DEF ChainStep

\* A run that begins to take credit finds none of it in use.
LEMMA HeadHasNothingInFlight ==
    ASSUME IndInv, OrderInv, AcksAreOfStarted, HeadHasSentNothing,
           NEW t \in Tasks, runs[t] = "head"
    PROVE  OnTheWay(t) = 0 /\ Waiting(t) = 0 /\ Handling(t) = 0 /\ OnTheWayBack(t) = 0
<1> USE DEF IndInv
<1>1. sent[t] = 0 /\ started[t] = 0 /\ Len(chain[t]) = 0 /\ handling[t] = 0
  <2>1. sent[t] = 0 /\ Received(t) <= sent[t] /\ handling[t] \in {0, started[t]}
    BY DEF HeadHasSentNothing, OrderInv, ChainsInOrder
  <2>2. started[t] \in Nat /\ Len(chain[t]) \in Nat
    BY OrderTypes
  <2>3. QED
    BY <2>1, <2>2 DEF Received
<1>2. \A i \in 1..Len(fromWorker) : fromWorker[i] \notin BatchesOf(t)
  <2> SUFFICES ASSUME NEW i \in 1..Len(fromWorker), fromWorker[i] \in BatchesOf(t) PROVE FALSE
    OBVIOUS
  <2>1. Received(t) < fromWorker[i].seq /\ fromWorker[i].seq <= sent[t]
    BY DEF OrderInv, PortInOrder, IsBatch, BatchesOf
  <2>2. fromWorker[i].seq \in Nat /\ Received(t) \in Nat
    BY OrderTypes
  <2>3. QED
    BY <1>1, <2>1, <2>2
<1>3. \A i \in 1..Len(toWorker) : toWorker[i] \notin AcksOf(t)
  BY <1>1 DEF AcksAreOfStarted, AcksOf
<1>4. OnTheWay(t) = 0 /\ OnTheWayBack(t) = 0
  BY <1>2, <1>3, CountType DEF OnTheWay, OnTheWayBack, TypeOK, PortsTypeOK
<1>5. QED
  BY <1>1, <1>4 DEF Waiting, Handling

LEMMA WorkerCredit ==
    ASSUME IndInv, IndInv', OrderInv, CreditInv,
           \/ WorkerParse \/ WorkerAck
           \/ \E u \in Tasks : WorkerStep(u),
           NEW t \in Tasks, active' = t, current' = t
    PROVE  Balance(t)' = Window
<1> USE DEF IndInv
<1>1. UNCHANGED <<active, gen, chain, handling>>
  BY DEF WorkerParse, WorkerAck, WorkerStep, HeadRead, HeadReadFails, Take, PullBatch, PullEnd, clientVars
<1>2. BatchesOf(t)' = BatchesOf(t) /\ AcksOf(t)' = AcksOf(t)
  BY <1>1 DEF BatchesOf, AcksOf
<1>3. Waiting(t)' = Waiting(t) /\ Handling(t)' = Handling(t)
  BY <1>1 DEF Waiting, Handling
<1>4. fromWorker' = fromWorker => OnTheWay(t)' = OnTheWay(t)
  BY <1>2 DEF OnTheWay, Count, Places
<1>5. toWorker' = toWorker => OnTheWayBack(t)' = OnTheWayBack(t)
  BY <1>2 DEF OnTheWayBack, Count, Places
<1>6. ASSUME current = t PROVE Balance(t) = Window
  BY <1>1, <1>6, CreditIsBalance DEF CreditInv
<1>7. ASSUME toWorker # << >>, toWorker' = Tail(toWorker)
      PROVE  OnTheWayBack(t) = OnTheWayBack(t)' + (IF Request \in AcksOf(t) THEN 1 ELSE 0)
  <2>1. toWorker \in Seq(Requests) /\ Request = toWorker[1]
    BY <1>7, SeqElements DEF Request, TypeOK, PortsTypeOK
  <2>2. Count(toWorker, AcksOf(t))
           = Count(Tail(toWorker), AcksOf(t)) + (IF Request \in AcksOf(t) THEN 1 ELSE 0)
    BY <1>7, <2>1, CountTail
  <2>3. OnTheWayBack(t)' = Count(Tail(toWorker), AcksOf(t))
    BY <1>2, <1>7 DEF OnTheWayBack, Count, Places
  <2>4. QED
    BY <2>2, <2>3 DEF OnTheWayBack
<1>8. OnTheWayBack(t)' \in Nat /\ OnTheWay(t)' \in Nat
  <2>1. toWorker' \in Seq(Requests) /\ fromWorker' \in Seq(Events)
    BY DEF TypeOK, PortsTypeOK
  <2>2. QED
    BY <2>1, CountType DEF OnTheWay, OnTheWayBack
<1>9. CASE WorkerParse
  <2>1. Request \in Requests /\ Request = toWorker[1] /\ 1 \in 1..Len(toWorker)
    BY <1>9, SeqElements DEF WorkerParse, Request, TypeOK, PortsTypeOK
  <2>2. runs[Request.task] = "none" /\ current = t
    BY <1>9, <2>1 DEF WorkerParse, RunInv, RequestsAreActive
  <2>3. runs[t] \in {"take", "pull"}
    BY <2>2, TaskFacts DEF CreditInv, GateIsAlive
  <2>4. Pulling(t)' = Pulling(t) /\ permits' = permits
    BY <1>9, <2>2, <2>3 DEF WorkerParse, Pulling, TypeOK, WorkerTypeOK
  <2>5. OnTheWayBack(t)' = OnTheWayBack(t)
    BY <1>7, <1>8, <1>9 DEF WorkerParse, AcksOf
  <2>6. OnTheWay(t)' = OnTheWay(t)
    BY <1>4, <1>9 DEF WorkerParse
  <2>7. QED
    BY <1>3, <1>6, <2>2, <2>4, <2>5, <2>6 DEF Balance
<1>10. CASE WorkerAck
  <2>1. Request \in Requests
    BY <1>10, SeqElements DEF WorkerAck, Request, TypeOK, PortsTypeOK
  <2>2. Pulling(t)' = Pulling(t) /\ current = t /\ OnTheWay(t)' = OnTheWay(t)
    BY <1>4, <1>10 DEF WorkerAck, Pulling
  <2>3. OnTheWayBack(t) = OnTheWayBack(t)' + (IF Request \in AcksOf(t) THEN 1 ELSE 0)
    BY <1>7, <1>10 DEF WorkerAck
  <2>4. Request \in AcksOf(t) <=> Request.task = t
    BY <1>10, <2>1 DEF WorkerAck, AcksOf
  <2>5. permits' = permits + (IF Request \in AcksOf(t) THEN 1 ELSE 0)
    BY <1>10, <2>2, <2>4, BalanceTypes DEF WorkerAck
  <2>6. CASE Request \in AcksOf(t)
    BY <1>3, <1>6, <1>8, <2>2, <2>3, <2>5, <2>6, BalanceTypes DEF Balance
  <2>7. CASE Request \notin AcksOf(t)
    <3>1. OnTheWayBack(t)' = OnTheWayBack(t) /\ permits' = permits
      BY <1>8, <2>3, <2>5, <2>7, BalanceTypes
    <3>2. QED
      BY <1>3, <1>6, <2>2, <3>1 DEF Balance
  <2>8. QED
    BY <2>6, <2>7
<1>11. ASSUME NEW u \in Tasks, WorkerStep(u) PROVE Balance(t)' = Window
  <2>1. runs[u] \in Running /\ active = u
    BY <1>11 DEF WorkerStep, HeadRead, HeadReadFails, Take, MayTake, PullBatch, PullEnd, Running,
       RunInv, RunsAreActive
  <2>2. u = t /\ OnTheWayBack(t)' = OnTheWayBack(t)
    BY <1>1, <1>5, <1>11, <2>1
    DEF WorkerStep, HeadRead, HeadReadFails, Take, PullBatch, PullEnd
  <2>3. current = t => runs[t] \in {"take", "pull"}
    BY TaskFacts DEF CreditInv, GateIsAlive
  <2>4. CASE HeadRead(u)
    <3>1. current # t /\ runs[t] = "head" /\ permits' = Window
          /\ fromWorker' = fromWorker /\ runs'[t] = "take"
      BY <2>2, <2>3, <2>4 DEF HeadRead, TypeOK, WorkerTypeOK
    <3>2. Pulling(t)' = 0 /\ OnTheWay(t)' = 0 /\ OnTheWayBack(t)' = 0 /\ Waiting(t)' = 0
          /\ Handling(t)' = 0
      BY <1>3, <1>4, <2>2, <3>1, HeadHasNothingInFlight DEF Pulling, CreditInv
    <3>3. Window \in Nat
      BY ProtocolAssumption
    <3>4. QED
      BY <3>1, <3>2, <3>3 DEF Balance
  <2>5. CASE HeadReadFails(u)
    BY <2>2, <2>3, <2>5 DEF HeadReadFails
  <2>6. CASE Take(u)
    <3>1. /\ permits > 0 /\ permits' = permits - 1 /\ fromWorker' = fromWorker
          /\ current = t
      BY <2>6 DEF Take, MayTake
    <3>2. Pulling(t) = 0 /\ Pulling(t)' = 1
      BY <2>2, <2>6 DEF Take, MayTake, Pulling, TypeOK, WorkerTypeOK
    <3>3. QED
      BY <1>3, <1>4, <1>6, <2>2, <3>1, <3>2, BalanceTypes DEF Balance
  <2>7. CASE PullBatch(u)
    <3> DEFINE m == Message("batch", t, sent[t] + 1)
    <3>1. Pulling(t) = 1 /\ Pulling(t)' = 0 /\ permits' = permits /\ current = t
      BY <2>2, <2>7 DEF PullBatch, Pulling, TypeOK, WorkerTypeOK
    <3>2. m \in Events /\ m \in BatchesOf(t)
      <4>1. gen \in Nat /\ sent[t] + 1 \in Nat
        BY DEF TypeOK, ClientTypeOK, WorkerTypeOK
      <4>2. QED
        BY <4>1 DEF Message, Events, BatchesOf
    <3>3. fromWorker \in Seq(Events) /\ fromWorker' = Append(fromWorker, m)
      BY <2>2, <2>7 DEF PullBatch, Post, TypeOK, PortsTypeOK
    <3> HIDE DEF m
    <3>4. OnTheWay(t)' = OnTheWay(t) + 1
      BY <1>2, <3>2, <3>3, CountAppend DEF OnTheWay, Count, Places
    <3>5. QED
      BY <1>3, <1>6, <2>2, <3>1, <3>4, BalanceTypes DEF Balance
  <2>8. CASE PullEnd(u)
    <3>1. current' # t
      BY <2>2, <2>8, TaskFacts DEF PullEnd
    <3>2. QED
      BY <3>1
  <2>9. QED
    BY <1>11, <2>4, <2>5, <2>6, <2>7, <2>8 DEF WorkerStep
<1>12. QED
  BY <1>9, <1>10, <1>11

LEMMA CreditInit == Init => CreditInv
<1> SUFFICES ASSUME Init PROVE CreditInv
  OBVIOUS
<1>1. QED
  BY TaskFacts DEF Init, CreditInv, AcksAreOfStarted, GateIsAlive, HeadHasSentNothing, CreditConserved

LEMMA CreditStep == IndInv /\ OrderInv /\ CreditInv /\ [Next]_vars => CreditInv'
<1> SUFFICES ASSUME IndInv, OrderInv, CreditInv, [Next]_vars PROVE CreditInv'
  OBVIOUS
<1>1. IndInv'
  BY IndStep
<1>2. CASE UNCHANGED vars
  <2>1. AcksAreOfStarted' /\ GateIsAlive' /\ HeadHasSentNothing'
    BY <1>2 DEF vars, clientVars, workerVars, CreditInv, AcksAreOfStarted, GateIsAlive, HeadHasSentNothing
  <2>2. CreditConserved'
    BY <1>2 DEF vars, clientVars, workerVars, CreditInv, CreditConserved, InFlight, CountOf
  <2>3. QED
    BY <2>1, <2>2 DEF CreditInv
<1>3. CASE Next
  <2>1. AcksAreOfStarted' /\ GateIsAlive' /\ HeadHasSentNothing'
    BY <1>1, <1>3, AcksStep, GateStep, HeadStep DEF CreditInv
  <2>2. ASSUME NEW t \in Tasks, active' = t, current' = t PROVE Balance(t)' = Window
    <3>1. ~ParsePostFails /\ ~Cancel /\ ~Dispose /\ ~Crash
      BY <2>2, TaskFacts DEF ParsePostFails, Cancel, Dispose, Crash, StopWorker
    <3>2. ~Parse
      <4> SUFFICES ASSUME Parse PROVE FALSE
        OBVIOUS
      <4>1. t = nextTaskId + 1 /\ current = t /\ UNCHANGED runs
        BY <2>2, TaskFacts, ReplacedStops DEF Parse, StopWorker, KeepWorker
      <4>2. runs[t] = "none"
        BY <4>1 DEF IndInv, TypeOK, ClientTypeOK, RunInv, FutureHasNoRun, Tasks
      <4>3. QED
        BY <2>2, <4>1, <4>2, TaskFacts DEF CreditInv, GateIsAlive
    <3>3. CASE UNCHANGED vars
      <4>1. Balance(t) = Window
        BY <2>2, <3>3, CreditIsBalance DEF CreditInv, IndInv, vars, clientVars, workerVars
      <4>2. BatchesOf(t)' = BatchesOf(t) /\ AcksOf(t)' = AcksOf(t)
        BY <3>3 DEF BatchesOf, AcksOf, vars, clientVars
      <4>3. QED
        BY <3>3, <4>1, <4>2
        DEF Balance, OnTheWay, OnTheWayBack, Waiting, Handling, Pulling, Count, Places, vars,
            clientVars, workerVars
    <3>4. QED
      BY <1>1, <1>3, <2>2, <3>1, <3>2, <3>3, DeliverCredit, WorkerCredit, ChainCredit
      DEF Next, Rest, CreditInv
  <2>3. CreditConserved'
    <3>1. TypeOK'
      BY <1>1 DEF IndInv
    <3>2. QED
      BY <2>2, <3>1, CreditIsBalanceNext
  <2>4. QED
    BY <2>1, <2>3 DEF CreditInv
<1>4. QED
  BY <1>2, <1>3

\* Credit is conserved (CreditGate in parse.worker.ts, the acks of handleMessage): free
\* permits, the permit of the pull under way and the batches in flight add up to
\* BATCH_CREDIT_WINDOW, for any window.
THEOREM CreditIsConserved == Spec => []CreditConserved
<1>1. Spec => [](IndInv /\ OrderInv /\ CreditInv)
  BY IndInit, IndStep, OrderInit, OrderStep, CreditInit, CreditStep, PTL DEF Spec
<1>2. CreditInv => CreditConserved
  BY DEF CreditInv
<1>3. QED
  BY <1>1, <1>2, PTL

-----------------------------------------------------------------------------
(* What the client waits for.                                                  *)

\* A dead worker has said so, unless the client has given it up.
DeathIsAnnounced ==
    ~alive => \/ disposed
              \/ \E i \in 1..Len(fromWorker) :
                    fromWorker[i].kind = "crash" /\ fromWorker[i].gen = gen

AnswerInv == DeathIsAnnounced /\ WaitsOnlyOnAnAnswer

\* The messages that end the client's waiting for the active task.
Answers(m) == /\ m.gen = gen
              /\ m.kind = "crash" \/ (m.kind # "batch" /\ m.task = active)

\* The ways in which the wait for the active task is justified.
Asked == alive /\ \E i \in 1..Len(toWorker) : toWorker[i] = [kind |-> "parse", task |-> active]

Answered == \E i \in 1..Len(fromWorker) : Answers(fromWorker[i])

LEMMA WaitsAre ==
    ASSUME TypeOK
    PROVE  WaitsOnlyOnAnAnswer <=>
              (active # NoTask =>
                  Asked \/ runs[active] \in Running \/ Answered \/ runs[active] = "lost" \/ disposed)
<1>1. DOMAIN toWorker = 1..Len(toWorker) /\ DOMAIN fromWorker = 1..Len(fromWorker)
  BY DEF TypeOK, PortsTypeOK
<1>2. QED
  BY <1>1 DEF WaitsOnlyOnAnAnswer, Asked, Answered, Answers

LEMMA WaitsAreNext ==
    ASSUME TypeOK',
           active' # NoTask =>
              Asked' \/ runs'[active'] \in Running \/ Answered' \/ runs'[active'] = "lost" \/ disposed'
    PROVE  WaitsOnlyOnAnAnswer'
<1>1. DOMAIN toWorker' = 1..Len(toWorker') /\ DOMAIN fromWorker' = 1..Len(fromWorker')
  BY DEF TypeOK, PortsTypeOK
<1>2. QED
  BY <1>1 DEF WaitsOnlyOnAnAnswer, Asked, Answered, Answers

\* An answer on the way stays there while nothing the client would act on is received.
LEMMA AnswersStay ==
    ASSUME TypeOK, UNCHANGED <<active, gen>>,
           \/ UNCHANGED fromWorker
           \/ \E m \in Events : fromWorker' = Append(fromWorker, m)
           \/ Receive /\ ~Answers(Event)
    PROVE  /\ Answered => Answered'
           /\ (\E i \in 1..Len(fromWorker) : fromWorker[i].kind = "crash" /\ fromWorker[i].gen = gen)
                => \E i \in 1..Len(fromWorker') : fromWorker'[i].kind = "crash" /\ fromWorker'[i].gen = gen'
<1>1. fromWorker \in Seq(Events)
  BY DEF TypeOK, PortsTypeOK
<1>2. ASSUME NEW i \in 1..Len(fromWorker), Answers(fromWorker[i])
      PROVE  \E j \in 1..Len(fromWorker') : fromWorker'[j] = fromWorker[i]
  <2>1. CASE UNCHANGED fromWorker
    BY <2>1
  <2>2. CASE \E m \in Events : fromWorker' = Append(fromWorker, m)
    BY <1>1, <2>2, AppendPlaces
  <2>3. CASE Receive /\ ~Answers(Event)
    <3>1. fromWorker # << >> /\ fromWorker' = Tail(fromWorker) /\ Event = fromWorker[1]
      BY <1>1, <2>3, SeqElements DEF Receive, Event
    <3>2. i # 1
      BY <1>2, <2>3, <3>1
    <3>3. QED
      BY <1>1, <3>1, <3>2, TailPlaces
  <2>4. QED
    BY <2>1, <2>2, <2>3
<1>3. QED
  BY <1>2 DEF Answered, Answers

\* A message just posted is on the way.
LEMMA PostedIsOnTheWay ==
    ASSUME TypeOK, NEW k \in {"batch", "finish", "error", "crash"},
           NEW t \in Tasks \cup {NoTask}, NEW n \in Nat, Post(Message(k, t, n))
    PROVE  /\ \E m \in Events : fromWorker' = Append(fromWorker, m)
           /\ \E i \in 1..Len(fromWorker') : fromWorker'[i] = Message(k, t, n)
<1>1. Message(k, t, n) \in Events
  BY DEF Message, Events, TypeOK, ClientTypeOK
<1>2. fromWorker \in Seq(Events) /\ fromWorker' = Append(fromWorker, Message(k, t, n))
  BY DEF Post, TypeOK, PortsTypeOK
<1>3. QED
  BY <1>1, <1>2, AppendPlaces

LEMMA DeathStep ==
    ASSUME IndInv, DeathIsAnnounced, Next
    PROVE  DeathIsAnnounced'
<1> USE DEF IndInv
<1>1. ASSUME NEW inbox, ReplaceWorker(inbox) PROVE DeathIsAnnounced'
  BY <1>1 DEF ReplaceWorker, DeathIsAnnounced
<1>2. CASE UNCHANGED <<alive, disposed, gen, fromWorker>>
  BY <1>2 DEF DeathIsAnnounced
<1>3. CASE Parse \/ ParsePostFails \/ Cancel \/ Dispose
  BY <1>1, <1>2, <1>3 DEF Parse, ParsePostFails, Cancel, Dispose, KeepWorker, DeathIsAnnounced
<1>4. CASE Deliver
  <2>1. CASE OnCrash
    BY <1>1, <2>1 DEF OnCrash
  <2>2. CASE OnStale \/ OnBatch \/ OnFinish \/ OnError
    <3>1. UNCHANGED <<gen, alive, disposed>> /\ Receive
      BY <2>2 DEF OnStale, OnBatch, OnFinish, OnError, clientVars, workerVars
    <3>2. Event.kind # "crash" \/ Event.gen # gen
      BY <2>2 DEF OnStale, OnBatch, OnFinish, OnError, Heard, FromCurrentWorker
    <3>3. fromWorker \in Seq(Events) /\ fromWorker # << >> /\ fromWorker' = Tail(fromWorker)
          /\ Event = fromWorker[1]
      BY <3>1, SeqElements DEF Receive, Event, TypeOK, PortsTypeOK
    <3>4. ASSUME NEW i \in 1..Len(fromWorker), fromWorker[i].kind = "crash" /\ fromWorker[i].gen = gen
          PROVE  i - 1 \in 1..Len(fromWorker') /\ fromWorker'[i - 1] = fromWorker[i]
      BY <3>2, <3>3, <3>4, TailPlaces
    <3>5. QED
      BY <3>1, <3>4 DEF DeathIsAnnounced
  <2>3. QED
    BY <1>4, <2>1, <2>2 DEF Deliver
<1>5. CASE WorkerParse \/ WorkerAck \/ Rest
  BY <1>2, <1>5 DEF WorkerParse, WorkerAck, Rest, vars, clientVars, workerVars
<1>6. CASE Crash
  <2>1. NoTask \in Tasks \cup {NoTask} /\ 0 \in Nat
    OBVIOUS
  <2>2. \E i \in 1..Len(fromWorker') : fromWorker'[i] = Message("crash", NoTask, 0)
    BY <1>6, <2>1, PostedIsOnTheWay DEF Crash
  <2>3. QED
    BY <1>6, <2>2 DEF Crash, clientVars, Message, DeathIsAnnounced
<1>7. ASSUME NEW t \in Tasks, WorkerStep(t) PROVE DeathIsAnnounced'
  BY <1>7 DEF WorkerStep, HeadRead, HeadReadFails, Take, PullBatch, PullEnd, DeathIsAnnounced
<1>8. ASSUME NEW t \in Tasks, ChainStep(t) PROVE DeathIsAnnounced'
  BY <1>1, <1>2, <1>8
  DEF ChainStep, StartBatch, HandlerDone, HandlerFails, Settle, KeepWorker, workerVars
<1>9. QED
  BY <1>3, <1>4, <1>5, <1>6, <1>7, <1>8 DEF Next

LEMMA CallsWait ==
    ASSUME IndInv, IndInv', DeathIsAnnounced, Parse \/ ParsePostFails \/ Cancel \/ Dispose
    PROVE  WaitsOnlyOnAnAnswer'
<1> USE DEF IndInv
<1>1. CASE active' = NoTask
  BY <1>1, WaitsAreNext
<1>2. CASE Parse
  <2> DEFINE request == [kind |-> "parse", task |-> nextTaskId']
  <2>1. request \in Requests /\ request = [kind |-> "parse", task |-> active']
    BY <1>2, TaskFacts DEF Parse, Requests, TypeOK, ClientTypeOK
  <2>2. toWorker \in Seq(Requests)
    BY DEF TypeOK, PortsTypeOK
  <2> HIDE DEF request
  <2>3. CASE active # NoTask
    <3>1. ReplaceWorker(<<request>>)
      BY <1>2, <2>3 DEF Parse, request
    <3>2. disposed' \/ (alive' /\ toWorker' = <<request>>)
      BY <3>1 DEF ReplaceWorker
    <3>3. CASE alive' /\ toWorker' = <<request>>
      <4>1. 1 \in 1..Len(toWorker') /\ toWorker'[1] = request
        BY <3>3
      <4>2. QED
        BY <2>1, <3>3, <4>1, WaitsAreNext DEF Asked
    <3>4. QED
      BY <3>2, <3>3, WaitsAreNext
  <2>4. CASE active = NoTask
    <3>1. toWorker' = Append(toWorker, request) /\ UNCHANGED <<alive, gen, fromWorker>>
      BY <1>2, <2>1, <2>2, <2>4, SeqElements DEF Parse, KeepWorker, request
    <3>2. CASE alive
      <4>1. Len(toWorker) + 1 \in 1..Len(toWorker') /\ toWorker'[Len(toWorker) + 1] = request
        <5>1. /\ Len(Append(toWorker, request)) = Len(toWorker) + 1
              /\ Append(toWorker, request)[Len(toWorker) + 1] = request /\ Len(toWorker) \in Nat
          BY <2>1, <2>2, AppendPlaces
        <5>2. QED
          BY <3>1, <5>1
      <4>2. QED
        BY <2>1, <3>1, <3>2, <4>1, WaitsAreNext DEF Asked
    <3>3. CASE ~alive
      <4>1. Answered'
        BY <1>2, <3>1, <3>3 DEF DeathIsAnnounced, Parse, Answered, Answers
      <4>2. QED
        BY <4>1, WaitsAreNext
    <3>4. QED
      BY <3>2, <3>3
  <2>5. QED
    BY <2>3, <2>4
<1>3. QED
  BY <1>1, <1>2 DEF ParsePostFails, Cancel, Dispose

LEMMA DeliverWaits ==
    ASSUME IndInv, IndInv', WaitsOnlyOnAnAnswer, Deliver
    PROVE  WaitsOnlyOnAnAnswer'
<1> USE DEF IndInv
<1>1. CASE OnFinish \/ OnError \/ OnCrash
  BY <1>1, WaitsAreNext DEF OnFinish, OnError, OnCrash
<1>2. CASE OnStale \/ OnBatch
  <2>1. Receive /\ UNCHANGED <<active, gen, disposed, alive, runs, toWorker>>
    BY <1>2 DEF OnStale, OnBatch, clientVars, workerVars
  <2>2. active # NoTask => ~Answers(Event)
    BY <1>2 DEF OnStale, OnBatch, Heard, FromCurrentWorker, Answers
  <2>3. active # NoTask /\ Answered => Answered'
    BY <2>1, <2>2, AnswersStay
  <2>4. QED
    BY <2>1, <2>3, WaitsAre, WaitsAreNext DEF Asked
<1>3. QED
  BY <1>1, <1>2 DEF Deliver

LEMMA WorkerWaits ==
    ASSUME IndInv, IndInv', WaitsOnlyOnAnAnswer,
           \/ WorkerParse \/ WorkerAck \/ Crash
           \/ \E t \in Tasks : WorkerStep(t)
    PROVE  WaitsOnlyOnAnAnswer'
<1> USE DEF IndInv
<1>1. UNCHANGED <<active, gen, disposed>>
  BY DEF WorkerParse, WorkerAck, Crash, WorkerStep, HeadRead, HeadReadFails, Take, PullBatch, PullEnd, clientVars
<1>2. ASSUME UNCHANGED fromWorker \/ \E m \in Events : fromWorker' = Append(fromWorker, m), Answered
      PROVE  WaitsOnlyOnAnAnswer'
  BY <1>1, <1>2, AnswersStay, WaitsAreNext
<1>3. CASE WorkerParse
  <2>1. Request \in Requests /\ Request = toWorker[1] /\ 1 \in 1..Len(toWorker)
    BY <1>3, SeqElements DEF WorkerParse, Request, TypeOK, PortsTypeOK
  <2>2. Request.task = active /\ active \in Tasks
    BY <1>3, <2>1 DEF WorkerParse, RunInv, RequestsAreActive, Requests
  <2>3. runs'[active'] = "head"
    BY <1>1, <1>3, <2>2 DEF WorkerParse, TypeOK, WorkerTypeOK
  <2>4. QED
    BY <2>3, WaitsAreNext DEF Running
<1>4. CASE WorkerAck
  <2>1. toWorker \in Seq(Requests) /\ toWorker # << >> /\ toWorker' = Tail(toWorker)
        /\ Request = toWorker[1] /\ Request.kind = "ack" /\ UNCHANGED <<alive, runs, fromWorker>>
    BY <1>4, SeqElements DEF WorkerAck, Request, TypeOK, PortsTypeOK
  <2>2. Asked => Asked'
    <3>1. ASSUME NEW i \in 1..Len(toWorker), toWorker[i] = [kind |-> "parse", task |-> active]
          PROVE  i - 1 \in 1..Len(toWorker') /\ toWorker'[i - 1] = toWorker[i]
      <4>1. i # 1
        BY <2>1, <3>1
      <4>2. QED
        BY <2>1, <4>1, TailPlaces
    <3>2. QED
      BY <1>1, <2>1, <3>1 DEF Asked
  <2>3. QED
    BY <1>1, <1>2, <2>1, <2>2, WaitsAre, WaitsAreNext
<1>5. CASE Crash
  <2>1. NoTask \in Tasks \cup {NoTask} /\ 0 \in Nat
    OBVIOUS
  <2>2. \E i \in 1..Len(fromWorker') : fromWorker'[i] = Message("crash", NoTask, 0)
    BY <1>5, <2>1, PostedIsOnTheWay DEF Crash
  <2>3. Answered'
    BY <1>1, <2>2 DEF Answered, Answers, Message
  <2>4. QED
    BY <2>3, WaitsAreNext
<1>6. ASSUME NEW t \in Tasks, WorkerStep(t) PROVE WaitsOnlyOnAnAnswer'
  <2>1. active' = t
    BY <1>1, <1>6 DEF WorkerStep, HeadRead, HeadReadFails, Take, MayTake, PullBatch, PullEnd, RunInv,
       RunsAreActive, Running
  <2>2. CASE runs'[t] \in Running \cup {"lost"}
    BY <2>1, <2>2, WaitsAreNext
  <2>3. ASSUME NEW k \in {"finish", "error"}, NEW n \in Nat, Post(Message(k, t, n))
        PROVE  WaitsOnlyOnAnAnswer'
    <3>1. \E i \in 1..Len(fromWorker') : fromWorker'[i] = Message(k, t, n)
      BY <2>3, PostedIsOnTheWay
    <3>2. Answered'
      BY <1>1, <2>1, <3>1 DEF Answered, Answers, Message
    <3>3. QED
      BY <3>2, WaitsAreNext
  <2>4. \/ runs'[t] \in Running \cup {"lost"}
        \/ Post(Message("error", t, 0))
        \/ \E k \in {"finish", "error"} : Post(Message(k, t, sent[t]))
    BY <1>6 DEF WorkerStep, HeadRead, HeadReadFails, Take, PullBatch, PullEnd, Running, TypeOK, WorkerTypeOK
  <2>5. sent[t] \in Nat
    BY OrderTypes
  <2>6. QED
    BY <2>2, <2>3, <2>4, <2>5
<1>7. QED
  BY <1>3, <1>4, <1>5, <1>6

LEMMA ChainWaits ==
    ASSUME IndInv, IndInv', WaitsOnlyOnAnAnswer, NEW t \in Tasks, ChainStep(t)
    PROVE  WaitsOnlyOnAnAnswer'
<1> USE DEF IndInv
<1>1. CASE active' = NoTask
  BY <1>1, WaitsAreNext
<1>2. CASE UNCHANGED <<active, gen, disposed, alive, runs, fromWorker, toWorker>>
  BY <1>2 DEF WaitsOnlyOnAnAnswer
<1>3. CASE HandlerDone(t)
  <2> DEFINE ack == [kind |-> "ack", task |-> t]
  <2>1. ack \in Requests /\ toWorker \in Seq(Requests)
    BY DEF Requests, TypeOK, PortsTypeOK
  <2>2. toWorker' = Append(toWorker, ack) \/ UNCHANGED toWorker
    BY <1>3 DEF HandlerDone
  <2>3. UNCHANGED <<active, gen, disposed, alive, runs, fromWorker>>
    BY <1>3 DEF HandlerDone, workerVars
  <2> HIDE DEF ack
  <2>4. \A i \in 1..Len(toWorker) : i \in 1..Len(toWorker') /\ toWorker'[i] = toWorker[i]
    BY <2>1, <2>2, AppendPlaces
  <2>5. (Asked => Asked') /\ (Answered => Answered')
    BY <2>3, <2>4 DEF Asked, Answered, Answers
  <2>6. QED
    BY <2>3, <2>5, WaitsAre, WaitsAreNext
<1>4. QED
  BY <1>1, <1>2, <1>3
  DEF ChainStep, StartBatch, HandlerFails, Settle, KeepWorker, workerVars

LEMMA AnswerInit == Init => AnswerInv
BY DEF Init, AnswerInv, DeathIsAnnounced, WaitsOnlyOnAnAnswer

LEMMA AnswerStep == IndInv /\ AnswerInv /\ [Next]_vars => AnswerInv'
<1> SUFFICES ASSUME IndInv, AnswerInv, [Next]_vars PROVE AnswerInv'
  OBVIOUS
<1>1. IndInv'
  BY IndStep
<1>2. CASE UNCHANGED vars
  BY <1>2 DEF vars, clientVars, workerVars, AnswerInv, DeathIsAnnounced, WaitsOnlyOnAnAnswer
<1>3. CASE Next
  <2>1. DeathIsAnnounced'
    BY <1>3, DeathStep DEF AnswerInv
  <2>2. WaitsOnlyOnAnAnswer'
    BY <1>1, <1>2, <1>3, <2>1, CallsWait, DeliverWaits, WorkerWaits, ChainWaits DEF AnswerInv, Next, Rest
  <2>3. QED
    BY <2>1, <2>2 DEF AnswerInv
<1>4. QED
  BY <1>2, <1>3

\* The client never waits for a worker that has nothing more to say: what it waits for
\* is asked, running, or answered (ParseWorkerClient, whose state is the same whether the
\* worker works or has died without a word).
THEOREM AnswersCome == Spec => []WaitsOnlyOnAnAnswer
<1>1. Spec => [](IndInv /\ AnswerInv)
  BY IndInit, IndStep, AnswerInit, AnswerStep, PTL DEF Spec
<1>2. AnswerInv => WaitsOnlyOnAnAnswer
  BY DEF AnswerInv
<1>3. QED
  BY <1>1, <1>2, PTL
=============================================================================
