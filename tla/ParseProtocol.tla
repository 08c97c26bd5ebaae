---------------------------- MODULE ParseProtocol ----------------------------
(***************************************************************************)
(* The streaming protocol between ParseWorkerClient (main thread) and the  *)
(* parser worker: one task at a time, batches bounded by a credit window,  *)
(* acknowledgements serialised on the task's ackChain, cancellation by     *)
(* terminating and replacing the worker.                                   *)
(*                                                                         *)
(* A task is the number the client gives a parse; a batch is its sequence  *)
(* number.  Worker events carry the generation of the worker that posted   *)
(* them: an event posted before a termination can still be delivered after *)
(* it.  `progress` messages change no state of the protocol and are left   *)
(* out.                                                                    *)
(***************************************************************************)
EXTENDS Naturals, Sequences, FiniteSets

CONSTANTS
    MaxTasks,    \* bound: how many times parse() is called
    MaxBatches,  \* bound: how many batches a file yields
    Window,      \* BATCH_CREDIT_WINDOW
    MaxWorkers,  \* bound: a worker of a later generation does not crash
    Faults       \* which failures of the environment may happen

FaultKinds == {"crash", "post", "handler", "headRead", "factory"}

ASSUME ProtocolAssumption ==
    /\ MaxTasks \in Nat /\ MaxBatches \in Nat /\ MaxWorkers \in Nat
    /\ Window \in Nat \ {0}
    /\ Faults \subseteq FaultKinds

Tasks  == 1..MaxTasks
NoTask == 0

VARIABLES
    \* ParseWorkerClient
    active,      \* the task the client waits for, or NoTask
    nextTaskId,  \* tasks started so far
    disposed,
    gen,         \* workerGeneration
    outcome,     \* per task: how its promise settled
    chain,       \* per task: batches chained on ackChain and not started
    handling,    \* per task: the batch whose onBatch is running, or 0
    handled,     \* per task: onBatch calls that have resolved
    started,     \* per task: sequence number of the last batch started
    after,       \* per task: the settlement chained behind the batches
    \* the worker of the current generation
    alive,
    runs,        \* per task: where its runParse is
    current,     \* the task whose gate acks release, or NoTask
    permits,     \* free permits of that gate
    sent,        \* per task: batches posted
    \* the two ports
    toWorker,    \* requests not yet received
    fromWorker   \* events not yet delivered

clientVars == <<active, nextTaskId, disposed, gen, outcome, chain, handling,
                handled, started, after>>
workerVars == <<alive, runs, current, permits, sent>>
vars == <<clientVars, workerVars, toWorker, fromWorker>>

Running == {"head", "take", "pull"}

Init ==
    /\ active = NoTask /\ nextTaskId = 0 /\ disposed = FALSE /\ gen = 1
    /\ outcome = [t \in Tasks |-> "unstarted"]
    /\ chain = [t \in Tasks |-> << >>]
    /\ handling = [t \in Tasks |-> 0]
    /\ handled = [t \in Tasks |-> 0]
    /\ started = [t \in Tasks |-> 0]
    /\ after = [t \in Tasks |-> "none"]
    /\ alive = TRUE
    /\ runs = [t \in Tasks |-> "none"]
    /\ current = NoTask /\ permits = 0
    /\ sent = [t \in Tasks |-> 0]
    /\ toWorker = << >> /\ fromWorker = << >>

-----------------------------------------------------------------------------
(* The client's helpers.                                                   *)

\* A task's promise takes the first settlement and ignores the others.
Settled(out, t, how) ==
    IF t # NoTask /\ out[t] = "pending" THEN [out EXCEPT ![t] = how] ELSE out

\* A bug to be caught: a cancelled run goes on in the worker.
RunsSurvive ==
    /\ current' = NoTask
    /\ permits' = 0
    /\ UNCHANGED runs

\* terminate(): the runs of the old worker stop and its inbox is gone; what it
\* had posted stays in fromWorker.
StopWorker ==
    /\ runs' = [t \in Tasks |-> IF runs[t] \in Running THEN "killed" ELSE runs[t]]
    /\ current' = NoTask
    /\ permits' = 0

\* A bug to be caught: the old worker is terminated and no new one created.
TerminatedOnly(inbox) ==
    StopWorker /\ alive' = FALSE /\ toWorker' = << >> /\ UNCHANGED <<gen, disposed>>

\* replaceWorker(): a fresh worker of the next generation, or, when the factory
\* throws, a client that is disposed and keeps the terminated worker.
ReplaceWorker(inbox) ==
    /\ StopWorker
    /\ \/ /\ ~disposed
          /\ gen' = gen + 1 /\ alive' = TRUE
          /\ toWorker' = inbox
          /\ UNCHANGED disposed
       \/ /\ ~disposed /\ "factory" \in Faults
          /\ disposed' = TRUE /\ alive' = FALSE
          /\ toWorker' = << >>
          /\ UNCHANGED gen
       \/ /\ disposed
          /\ alive' = FALSE /\ toWorker' = << >>
          /\ UNCHANGED <<gen, disposed>>

KeepWorker == UNCHANGED <<gen, disposed, alive, runs, current, permits>>

-----------------------------------------------------------------------------
(* The client's calls.                                                     *)

\* parse() with a postMessage that succeeds: the previous task, if any, is
\* cancelled first.
Parse ==
    /\ ~disposed /\ nextTaskId < MaxTasks
    /\ nextTaskId' = nextTaskId + 1
    /\ active' = nextTaskId'
    /\ outcome' = [Settled(outcome, active, "cancelled")
                      EXCEPT ![nextTaskId'] = "pending"]
    /\ LET request == <<[kind |-> "parse", task |-> nextTaskId']>>
       IN  IF active # NoTask
           THEN ReplaceWorker(request)
           ELSE KeepWorker /\ toWorker' = toWorker \o request
    /\ UNCHANGED <<chain, handling, handled, started, after, sent, fromWorker>>

\* parse() with a postMessage that throws: the task is rejected at once and the
\* worker replaced (a second time, if a previous task was just cancelled: one
\* replacement stands for both).
ParsePostFails ==
    /\ "post" \in Faults
    /\ ~disposed /\ nextTaskId < MaxTasks
    /\ nextTaskId' = nextTaskId + 1
    /\ active' = NoTask
    /\ outcome' = [Settled(outcome, active, "cancelled")
                      EXCEPT ![nextTaskId'] = "cancelled"]
    /\ ReplaceWorker(<< >>)
    /\ UNCHANGED <<chain, handling, handled, started, after, sent,
                   fromWorker>>

Cancel ==
    /\ ~disposed /\ active # NoTask
    /\ active' = NoTask
    /\ outcome' = Settled(outcome, active, "cancelled")
    /\ ReplaceWorker(<< >>)
    /\ UNCHANGED <<nextTaskId, chain, handling, handled, started, after, sent,
                   fromWorker>>

Dispose ==
    /\ ~disposed
    /\ disposed' = TRUE /\ alive' = FALSE
    /\ active' = NoTask
    /\ outcome' = Settled(outcome, active, "cancelled")
    /\ StopWorker
    /\ toWorker' = << >>
    /\ UNCHANGED <<nextTaskId, gen, chain, handling, handled, started, after,
                   sent, fromWorker>>

-----------------------------------------------------------------------------
(* The client's event handlers.                                            *)

\* The check of createWorker's closures: only the current worker is heard.
FromCurrentWorker(m) == m.gen = gen

\* What handleMessage and handleCrash act on.
Heard(m) == FromCurrentWorker(m) /\ (m.kind = "crash" \/ m.task = active)

Event == Head(fromWorker)

Receive == fromWorker # << >> /\ fromWorker' = Tail(fromWorker)

OnStale ==
    /\ Receive /\ ~Heard(Event)
    /\ UNCHANGED <<clientVars, workerVars, toWorker>>

\* A bug to be caught: a later batch overtakes those chained before it.
Overtaking(t, seq) == [chain EXCEPT ![t] = <<seq>> \o @]

\* The batch joins the end of the task's ackChain.
Chained(t, seq) == [chain EXCEPT ![t] = Append(@, seq)]

OnBatch ==
    /\ Receive /\ Heard(Event) /\ Event.kind = "batch"
    /\ chain' = Chained(active, Event.seq)
    /\ UNCHANGED <<active, nextTaskId, disposed, gen, outcome, handling,
                   handled, started, after, workerVars, toWorker>>

\* `finish` and `error` give up the worker at once; the promise settles behind
\* the batches already chained.
OnFinish ==
    /\ Receive /\ Heard(Event) /\ Event.kind = "finish"
    /\ active' = NoTask
    /\ after' = [after EXCEPT ![active] = "resolve"]
    /\ UNCHANGED <<nextTaskId, disposed, gen, outcome, chain, handling,
                   handled, started, workerVars, toWorker>>

OnError ==
    /\ Receive /\ Heard(Event) /\ Event.kind = "error"
    /\ active' = NoTask
    /\ after' = [after EXCEPT ![active] = "reject"]
    /\ UNCHANGED <<nextTaskId, disposed, gen, outcome, chain, handling,
                   handled, started, workerVars, toWorker>>

OnCrash ==
    /\ Receive /\ Heard(Event) /\ Event.kind = "crash"
    /\ active' = NoTask
    /\ after' = IF active = NoTask THEN after
                                   ELSE [after EXCEPT ![active] = "reject"]
    /\ ReplaceWorker(<< >>)
    /\ UNCHANGED <<nextTaskId, outcome, chain, handling, handled, started,
                   sent>>

-----------------------------------------------------------------------------
(* The task's ackChain.                                                    *)

Idle(t) == handling[t] = 0 /\ chain[t] = << >>

StartBatch(t) ==
    /\ handling[t] = 0 /\ chain[t] # << >>
    /\ handling' = [handling EXCEPT ![t] = Head(chain[t])]
    /\ started' = [started EXCEPT ![t] = Head(chain[t])]
    /\ chain' = [chain EXCEPT ![t] = Tail(@)]
    /\ UNCHANGED <<active, nextTaskId, disposed, gen, outcome, handled, after,
                   workerVars, toWorker, fromWorker>>

\* A bug to be caught: the ack is dropped.
NeverAcks(t) == FALSE

Acks(t) == active = t /\ alive

\* onBatch resolves; the batch is acknowledged while the task owns the worker.
HandlerDone(t) ==
    /\ handling[t] # 0
    /\ handling' = [handling EXCEPT ![t] = 0]
    /\ handled' = [handled EXCEPT ![t] = @ + 1]
    /\ toWorker' = IF Acks(t)
                   THEN Append(toWorker, [kind |-> "ack", task |-> t])
                   ELSE toWorker
    /\ UNCHANGED <<active, nextTaskId, disposed, gen, outcome, chain, started,
                   after, workerVars, fromWorker>>

\* onBatch rejects: the task is rejected now, whatever is still chained, and the
\* worker is replaced while the task owns it.
HandlerFails(t) ==
    /\ "handler" \in Faults
    /\ handling[t] # 0
    /\ handling' = [handling EXCEPT ![t] = 0]
    /\ outcome' = Settled(outcome, t, "batchFailed")
    /\ IF active = t
       THEN active' = NoTask /\ ReplaceWorker(<< >>)
       ELSE UNCHANGED active /\ KeepWorker /\ UNCHANGED toWorker
    /\ UNCHANGED <<nextTaskId, chain, handled, started, after, sent, fromWorker>>

\* A bug to be caught: finish, error and crash settle the promise at once.
SettlesAtOnce(t) == after[t] # "none"

\* The guard of the settlement chained by finish, error and crash.
MaySettle(t) == after[t] # "none" /\ Idle(t)

Settle(t) ==
    /\ MaySettle(t)
    /\ outcome' = Settled(outcome, t, IF after[t] = "resolve" THEN "resolved"
                                                             ELSE "workerFailed")
    /\ after' = [after EXCEPT ![t] = "none"]
    /\ UNCHANGED <<active, nextTaskId, disposed, gen, chain, handling, handled,
                   started, workerVars, toWorker, fromWorker>>

-----------------------------------------------------------------------------
(* The worker.                                                             *)

Request == Head(toWorker)

Post(m) == fromWorker' = Append(fromWorker, m)
Message(kind, t, seq) == [gen |-> gen, kind |-> kind, task |-> t, seq |-> seq]

WorkerParse ==
    /\ alive /\ toWorker # << >> /\ Request.kind = "parse"
    /\ toWorker' = Tail(toWorker)
    /\ runs' = [runs EXCEPT ![Request.task] = "head"]
    /\ UNCHANGED <<clientVars, alive, current, permits, sent, fromWorker>>

\* CreditGate.release: a waiting take() is woken by the permit it adds.
WorkerAck ==
    /\ alive /\ toWorker # << >> /\ Request.kind = "ack"
    /\ toWorker' = Tail(toWorker)
    /\ permits' = IF current = Request.task THEN permits + 1 ELSE permits
    /\ UNCHANGED <<clientVars, alive, runs, current, sent, fromWorker>>

HeadRead(t) ==
    /\ alive /\ runs[t] = "head"
    /\ \/ /\ runs' = [runs EXCEPT ![t] = "take"]
          /\ current' = t /\ permits' = Window
          /\ UNCHANGED fromWorker
       \/ /\ runs' = [runs EXCEPT ![t] = "done"]   \* no pack recognises the file
          /\ Post(Message("error", t, 0))
          /\ UNCHANGED <<current, permits>>
    /\ UNCHANGED <<clientVars, alive, sent, toWorker>>

\* Reading the head of the blob rejects, outside runParse's try: nothing is
\* posted.
HeadReadFails(t) ==
    /\ "headRead" \in Faults
    /\ alive /\ runs[t] = "head"
    /\ runs' = [runs EXCEPT ![t] = "lost"]
    /\ UNCHANGED <<clientVars, alive, current, permits, sent, toWorker, fromWorker>>

\* A bug to be caught: the gate does not wait.
TakesFreely(t) == runs[t] = "take"

\* CreditGate.take resolves while permits remain.
MayTake(t) == runs[t] = "take" /\ permits > 0

Take(t) ==
    /\ alive /\ MayTake(t)
    /\ permits' = permits - 1
    /\ runs' = [runs EXCEPT ![t] = "pull"]
    /\ UNCHANGED <<clientVars, alive, current, sent, toWorker, fromWorker>>

PullBatch(t) ==
    /\ alive /\ runs[t] = "pull" /\ sent[t] < MaxBatches
    /\ runs' = [runs EXCEPT ![t] = "take"]
    /\ sent' = [sent EXCEPT ![t] = @ + 1]
    /\ Post(Message("batch", t, sent[t] + 1))
    /\ UNCHANGED <<clientVars, alive, current, permits, toWorker>>

\* nextBatch returns null, or throws; either way runParse ends and the gate goes.
PullEnd(t) ==
    /\ alive /\ runs[t] = "pull"
    /\ runs' = [runs EXCEPT ![t] = "done"]
    /\ \E kind \in {"finish", "error"} : Post(Message(kind, t, sent[t]))
    /\ current' = IF current = t THEN NoTask ELSE current
    /\ permits' = IF current = t THEN 0 ELSE permits
    /\ UNCHANGED <<clientVars, alive, sent, toWorker>>

Crash ==
    /\ "crash" \in Faults
    /\ alive /\ gen <= MaxWorkers
    /\ alive' = FALSE
    /\ StopWorker
    /\ toWorker' = << >>
    /\ Post(Message("crash", NoTask, 0))
    /\ UNCHANGED <<clientVars, sent>>

-----------------------------------------------------------------------------
WorkerStep(t) ==
    HeadRead(t) \/ HeadReadFails(t) \/ Take(t) \/ PullBatch(t) \/ PullEnd(t)

Deliver == OnStale \/ OnBatch \/ OnFinish \/ OnError \/ OnCrash

ChainStep(t) == StartBatch(t) \/ HandlerDone(t) \/ HandlerFails(t) \/ Settle(t)

\* No further call will be made: the client may rest, a pending task may not.
Done == disposed \/ (nextTaskId = MaxTasks /\ active = NoTask)

Rest ==
    /\ Done
    /\ UNCHANGED vars

Next ==
    \/ Parse \/ ParsePostFails \/ Cancel \/ Dispose
    \/ Deliver \/ WorkerParse \/ WorkerAck \/ Crash
    \/ \E t \in Tasks : WorkerStep(t) \/ ChainStep(t)
    \/ Rest

\* The two event loops run; an onBatch call settles one way or the other, and
\* so does a nextBatch call.  Nothing obliges the user to parse, cancel or
\* dispose, nor the worker to crash.
Fairness ==
    /\ WF_vars(Deliver)
    /\ WF_vars(WorkerParse \/ WorkerAck)
    /\ \A t \in Tasks : WF_vars(WorkerStep(t)) /\ WF_vars(ChainStep(t))

Spec == Init /\ [][Next]_vars /\ Fairness

-----------------------------------------------------------------------------
(* Properties.                                                             *)

Outcomes == {"unstarted", "pending", "resolved", "workerFailed", "batchFailed",
             "cancelled"}
Requests == [kind : {"parse", "ack"}, task : Tasks]
Events   == [gen : Nat, kind : {"batch", "finish", "error", "crash"},
             task : Tasks \cup {NoTask}, seq : Nat]

RunStates == Running \cup {"none", "done", "lost", "killed"}

\* The type of the state: the client's fields, its ack chains, the worker's, and
\* the two ports.
ClientTypeOK ==
    /\ active \in Tasks \cup {NoTask} /\ nextTaskId \in 0..MaxTasks
    /\ disposed \in BOOLEAN /\ gen \in Nat
    /\ outcome \in [Tasks -> Outcomes]

ChainTypeOK ==
    /\ chain \in [Tasks -> Seq(Nat)]
    /\ handling \in [Tasks -> Nat] /\ handled \in [Tasks -> Nat]
    /\ started \in [Tasks -> Nat]
    /\ after \in [Tasks -> {"none", "resolve", "reject"}]

WorkerTypeOK ==
    /\ alive \in BOOLEAN
    /\ runs \in [Tasks -> RunStates]
    /\ current \in Tasks \cup {NoTask} /\ permits \in Nat
    /\ sent \in [Tasks -> Nat]

PortsTypeOK == toWorker \in Seq(Requests) /\ fromWorker \in Seq(Events)

TypeOK == ClientTypeOK /\ ChainTypeOK /\ WorkerTypeOK /\ PortsTypeOK

\* Batches of a task that are between the worker's gate and its release.
CountOf(seq, Test(_)) == Cardinality({i \in DOMAIN seq : Test(seq[i])})

InFlight(t) ==
    LET isBatch(m) == m.gen = gen /\ m.kind = "batch" /\ m.task = t
        isAck(m)   == m.kind = "ack" /\ m.task = t
    IN  CountOf(fromWorker, isBatch) + Len(chain[t])
          + (IF handling[t] # 0 THEN 1 ELSE 0) + CountOf(toWorker, isAck)

\* Credit is conserved (BATCH_CREDIT_WINDOW): while a task owns the worker, free
\* permits, the permit of the pull under way and the batches in flight add up to
\* the window; so the main thread never holds more batches than the window, and
\* a worker waiting for credit always has a batch whose ack will wake it.
CreditConserved ==
    \A t \in Tasks :
        (active = t /\ current = t) =>
            permits + (IF runs[t] = "pull" THEN 1 ELSE 0) + InFlight(t) = Window

\* The protocol needs no busy check in the worker because the client never gives
\* a worker a second task before the first has ended (parse-protocol.ts, "the
\* worker therefore runs at most one task"): the gate the worker keeps is that of
\* its only run.
OneRunPerWorker ==
    /\ Cardinality({t \in Tasks : runs[t] \in Running}) <= 1
    /\ \A t \in Tasks : runs[t] \in {"take", "pull"} => current = t

\* onBatch is called with 1, 2, 3, ...: nothing is skipped, repeated or
\* overtaken, whatever was cancelled, crashed or replaced in between.
BatchesInOrder ==
    \A t \in Tasks :
        /\ \A i \in DOMAIN chain[t] : chain[t][i] = started[t] + i
        /\ handling[t] \in {0, started[t]}

\* A parse that resolves has handed over every batch the worker produced for it,
\* and each onBatch has resolved: an ingest may finalize on it.
ResolvedIsComplete ==
    \A t \in Tasks :
        outcome[t] = "resolved" =>
            /\ runs[t] \in {"done", "killed"}
            /\ handled[t] = sent[t] /\ Idle(t)

\* A parse the worker failed (an error message or a crash) rejects only behind
\* every batch already chained: its caller's cleanup sees no onBatch after it.
WorkerFailureDrained ==
    \A t \in Tasks : outcome[t] = "workerFailed" => Idle(t)

\* The client never waits for a worker that has nothing more to say: the task it
\* waits for is in the worker's inbox, is running, or has its last event on the
\* way.  The exceptions are a file whose head cannot be read and a client whose
\* worker could not be replaced.
WaitsOnlyOnAnAnswer ==
    active # NoTask =>
        \/ /\ alive
           /\ \E i \in DOMAIN toWorker :
                 toWorker[i] = [kind |-> "parse", task |-> active]
        \/ runs[active] \in Running
        \/ \E i \in DOMAIN fromWorker :
              /\ fromWorker[i].gen = gen
              /\ fromWorker[i].kind = "crash"
                    \/ (fromWorker[i].kind # "batch" /\ fromWorker[i].task = active)
        \/ runs[active] = "lost"
        \/ disposed

\* Every parse settles, through any cancellation, crash, failing batch or lack of
\* credit, with the same two exceptions.
EveryParseSettles ==
    \A t \in Tasks :
        outcome[t] = "pending" ~>
            (outcome[t] # "pending" \/ runs[t] = "lost" \/ (disposed /\ active = t))
=============================================================================
