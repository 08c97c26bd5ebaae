----------------------------- MODULE Intake_proofs -----------------------------
(***************************************************************************)
(* Proofs about Intake, for any tables, files, opens and batches, any window   *)
(* and any size of a chunk: whichever opens, cancels and failures overlap, and  *)
(* with batches still chained behind the one that failed, no chunk mixes two    *)
(* files whose parses have not failed.                                        *)
(*                                                                         *)
(* The argument: the one ingest under way is that of the open that owns the     *)
(* settlement (OwnerInv), which is where its call and its session say           *)
(* (CallInv); an append under way is of an onBatch that has not returned        *)
(* (AppendsInv), so of a file being parsed or of one that failed (ParseInv); a   *)
(* boundary finds nothing staged (StagingInv); so what is staged of intact      *)
(* files is of the current one, and so is every chunk made of it (ChunksInv).   *)
(***************************************************************************)
EXTENDS Intake, IngestSession_proofs

-----------------------------------------------------------------------------
(* Where an open is.                                                        *)

\* Before its ingest is open, and while it is.
Begins == {"none", "planning", "closing", "settling", "starting"}
Stages == {"loop", "beginning", "parsing", "discarding", "filing", "publish", "finalizing",
           "failing", "aborting"}

InStage(p) == settlement # None /\ pc[settlement] = p
Busy       == settlement # None /\ pc[settlement] \in Stages

Outside(g) == Planned(g) \/ FamilyClosed(g) \/ Claim(g)
InSession(g) ==
    \/ NextFile(g) \/ AppendFiles(g) \/ GivesUp(g) \/ FileBegun(g) \/ FileParsed(g)
    \/ FileDooms(g) \/ FileSkipped(g) \/ FileDiscarded(g) \/ FilesAppended(g)
    \/ Publish(g) \/ Published(g) \/ Failing(g) \/ Given(g)

UserStep == OpenBatch \/ Cancel \/ DisposeSession

\* The open that owns the settlement is the last to have begun an ingest, and one that is
\* about to begin its own finds it over.
OwnerInv ==
    /\ settlement = generation
    /\ settlement # None => pc[settlement] \in Stages \cup {"done"}
    /\ \A g \in Generations :
          /\ pc[g] \in Stages => g = settlement
          /\ pc[g] = "starting" <=> starting = g
          /\ pc[g] # "none" => g <= storeGen
          /\ pc[g] \in Begins => fileAt[g] = 0
          /\ waitsFor[g] # None => pc[waitsFor[g]] \in Stages \cup {"done"}
          /\ pc[g] = "settling" /\ Busy => waitsFor[g] = settlement
    /\ starting # None => ~Busy /\ settlement < starting

\* The call under way is the one its open waits for; only a failed file is discarded; and the
\* session is in the state its open has brought it to.
CallInv ==
    /\ call.kind = "beginFile" =>
          InStage("beginning") /\ call.file = CurrentFile(settlement) /\ call.at \in Outcomes
    /\ call.kind = "discard" => InStage("discarding") /\ (call.at # "nothing" => Failed(currentFile))
    /\ call.kind \in {"flushing", "finalize"} =>
          InStage("finalizing") /\ (call.at = "refused" <=> state # "finalized")
    /\ call.kind = "abort" => InStage("aborting") /\ state \notin {"open", "failed"}

StateInv ==
    /\ state = "open" => Busy /\ pc[settlement] \notin {"finalizing", "aborting"}
    /\ state = "failed" => InStage("failing")
    /\ state = "finalized" => InStage("finalizing") \/ InStage("done")

\* What a queued operation belongs to: an append to a call of its own row, any other to the
\* call under way.
OpOf == [beginFile |-> "flush", discard |-> "discard", flushing |-> "residual",
         finalize |-> "commit", abort |-> "drop"]

QueueInv ==
    /\ \A i \in 1..Len(queue) :
          IF queue[i].op = "append"
          THEN /\ \E a \in appends : a.row = queue[i].row /\ a.at = "queued"
               /\ queue[i].table = FilesTable <=> queue[i].row.file = None
          ELSE call.at = "queued" /\ call.kind \in DOMAIN OpOf /\ queue[i].op = OpOf[call.kind]
    /\ \A i, j \in 1..Len(queue) : i # j =>
          /\ queue[i].op = "append" \/ queue[j].op = "append"
          /\ queue[i].op = "append" /\ queue[j].op = "append" => queue[i].row # queue[j].row

\* An append is of the _files row of the open in its last step, or of an onBatch that has
\* not returned.
AppendsInv ==
    /\ \A a, b \in appends : a.row = b.row => a = b
    /\ \A a \in appends :
          IF a.row.file = None THEN InStage("filing") /\ a.row = FilesRow(settlement)
          ELSE handling[a.row.file] = a.row

\* Only the current file's parse is pending; an onBatch runs, or is chained, for that file
\* and for failed ones; and files are begun in order.
ParseInv ==
    /\ InStage("parsing") => currentFile = CurrentFile(settlement)
    /\ InStage("beginning") \/ InStage("parsing") \/ InStage("discarding") =>
          CurrentFile(settlement) \in Files
    /\ active # None => outcome[active] = "pending"
    /\ \A f \in Files :
          /\ outcome[f] = "pending" => InStage("parsing") /\ f = CurrentFile(settlement)
          /\ outcome[f] \in {"none", "resolved"} => handling[f] = NoRow /\ queued[f] = 0
          /\ ending[f] # "none" => active # f /\ outcome[f] # "none"
          /\ outcome[f] # "none" =>
                /\ settlement # None /\ f <= CurrentFile(settlement)
                /\ InStage("beginning") => f < CurrentFile(settlement)
          /\ queued[f] <= made[f]

\* A staging table holds rows only while the ingest may still append or publish them, or is
\* about to drop them.
StagingInv == dispose = "no" /\ staging # Empty =>
    \/ state \in {"open", "failed"}
    \/ state = "finalized" /\ InStage("finalizing")
       /\ ~(call.kind = "finalize" /\ call.at \in {"ok", "swapping"})
    \/ state = "aborted" /\ call.kind = "abort" /\ call.at = "queued"

\* What is staged is due to be flushed, and a boundary finds nothing staged.
DueInv ==
    /\ tier = "memory" => stagedBytes = Zero
    /\ tier = "spill" => \A t \in Tables : staging[t] # {} => t \in Due
    /\ tier = "spill" /\ call.kind = "beginFile" /\ call.at = "ok" => staging = Empty

\* The intact rows staged are of the current file, those of a chunk of one file.
ChunksInv ==
    /\ tier = "spill" => \A t \in Tables : \A r \in Intact(staging[t]) :
          r.file = (IF t = FilesTable THEN None ELSE currentFile)
    /\ \A p \in DOMAIN opfs : \A r, s \in Intact(opfs[p]) : r.file = s.file

ControlInv == OwnerInv /\ CallInv /\ StateInv /\ QueueInv /\ AppendsInv /\ ParseInv

-----------------------------------------------------------------------------
(* The open that owns the settlement.                                        *)

\* A step of an open whose ingest is under way.
LEMMA SessionSteps ==
    ASSUME TypeOK, NEW g \in Generations, InSession(g)
    PROVE  /\ pc[g] \in Stages /\ pc'[g] \in Stages \cup {"done"}
           /\ \A h \in Generations \ {g} : pc'[h] = pc[h] /\ fileAt'[h] = fileAt[h]
           /\ UNCHANGED <<settlement, starting, waitsFor, generation, storeGen, disposed>>
<1>. USE DEF TypeOK, sharedVars, coroutineVars
<1>1. CASE NextFile(g) \/ AppendFiles(g) \/ FileSkipped(g) \/ Publish(g) \/ Failing(g)
  BY <1>1 DEF NextFile, AppendFiles, FileSkipped, Publish, Failing, Goes,
              Stages, storeGenVars, CallBeginFile, CallAppend, CallDiscard, CallFinalize, CallAbort
<1>3. CASE GivesUp(g) \/ FileParsed(g) \/ FileDooms(g)
  BY <1>3 DEF GivesUp, FileParsed, FileDooms, Goes, Fails, Stages, storeGenVars, ingestVars
<1>2. CASE FileBegun(g) \/ FileDiscarded(g) \/ FilesAppended(g) \/ Published(g) \/ Given(g)
  BY <1>2 DEF FileBegun, FileDiscarded, FilesAppended, Published, Given, Goes, Fails, Dispatches,
              Stages, storeGenVars, ReturnBeginFile, ReturnDiscard, ReturnAppend, ReturnFinalize, ReturnAbort
<1>. QED BY <1>1, <1>2, <1>3 DEF InSession

\* A step of anything but an open leaves every open where it is.
LEMMA OtherSteps ==
    ASSUME \/ \E f \in Files : ParserStep(f)
           \/ DatabaseStep \/ DisposeDatabase \/ Rest \/ UNCHANGED vars
    PROVE  UNCHANGED <<pc, fileAt, waitsFor, settlement, starting, storeGen, disposed, generation>>
<1>. USE DEF vars, intakeVars, ingestVars, storeGenVars, coroutineVars, sharedVars
<1>1. ASSUME NEW f \in Files, ParserStep(f)
      PROVE  UNCHANGED <<pc, fileAt, waitsFor, settlement, starting, storeGen, disposed, generation>>
  BY <1>1 DEF ParserStep, BatchArrives, ParseEnds, BatchStarts, BatchDone, ParseSettles, CallAppend, ReturnAppend
<1>2. CASE DatabaseStep \/ DisposeDatabase
  <2>1. UNCHANGED generation
    BY <1>2 DEF DatabaseStep, DisposeDatabase, RunOperation, RunAppend, RunFlush, RunDiscard, RunResidual, RunCommit,
         RunDrop, SessionStep, DiscardForgets, FinalizeCommits, FinalizeSwaps, Dispose, DisposeFinishes, sessionVars
  <2>. QED BY <1>2, <2>1 DEF DatabaseStep, DisposeDatabase
<1>3. CASE Rest \/ UNCHANGED vars
  BY <1>3 DEF Rest
<1>. QED BY <1>1, <1>2, <1>3

LEMMA OwnerAtFirst == Init => OwnerInv
  BY DEF Init, IngestInit, OwnerInv, Busy, Stages, Begins, None, Generations

\* An open goes on towards its ingest, or ends before it.
LEMMA OwnerMoves ==
    ASSUME TypeOK, OwnerInv, NEW g \in Generations, g # settlement, g <= storeGen, fileAt[g] = 0,
           pc[g] \in {"planning", "closing", "settling"}, pc'[g] \in {"closing", "settling", "done"},
           \A h \in Generations \ {g} : pc'[h] = pc[h] /\ waitsFor'[h] = waitsFor[h],
           waitsFor'[g] \in {waitsFor[g], settlement}, pc'[g] = "settling" => waitsFor'[g] = settlement,
           UNCHANGED <<settlement, starting, fileAt, generation, storeGen>>
    PROVE  OwnerInv'
<1>0. /\ settlement \in Generations \cup {None} /\ None \notin Generations
      /\ waitsFor \in [Generations -> Generations \cup {None}]
  BY DEF TypeOK, Generations, None
<1>1. UNCHANGED Busy /\ (settlement # None => pc'[settlement] = pc[settlement])
  BY <1>0 DEF Busy
<1>2. \A h \in Generations : pc[h] \in Stages \cup {"done"} => pc'[h] \in Stages \cup {"done"}
  BY DEF Stages
<1>3. \A h \in Generations : waitsFor'[h] # None => pc'[waitsFor'[h]] \in Stages \cup {"done"}
  <2>. SUFFICES ASSUME NEW h \in Generations, waitsFor'[h] # None
                PROVE  pc'[waitsFor'[h]] \in Stages \cup {"done"}
    OBVIOUS
  <2>1. waitsFor'[h] \in Generations /\ pc[waitsFor'[h]] \in Stages \cup {"done"}
    BY <1>0 DEF OwnerInv
  <2>. QED BY <1>2, <2>1
<1>4. ASSUME NEW h \in Generations
      PROVE  /\ pc'[h] \in Stages => h = settlement
             /\ pc'[h] = "starting" <=> starting = h
             /\ pc'[h] # "none" => h <= storeGen
             /\ pc'[h] \in Begins => fileAt[h] = 0
             /\ pc'[h] = "settling" /\ Busy => waitsFor'[h] = settlement
  BY DEF OwnerInv, Stages, Begins
<1>. QED BY <1>1, <1>3, <1>4 DEF OwnerInv

LEMMA OwnerKept ==
    ASSUME TypeOK, OwnerInv, Next \/ UNCHANGED vars
    PROVE  OwnerInv'
<1>0. /\ pc \in [Generations -> Waits] /\ settlement \in Generations \cup {None}
      /\ starting \in Generations \cup {None} /\ waitsFor \in [Generations -> Generations \cup {None}]
      /\ storeGen \in Generations \cup {None} /\ None \notin Generations
      /\ Generations \subseteq Nat /\ None \in Nat
  BY DEF TypeOK, Generations, None
<1>1. CASE UserStep
  <2>1. \/ pc' = pc /\ storeGen' \in {storeGen, storeGen + 1}
        \/ pc' = [pc EXCEPT ![storeGen + 1] = "planning"] /\ storeGen' = storeGen + 1
    BY <1>1 DEF UserStep, OpenBatch, Cancel, DisposeSession, coroutineVars
  <2>2. UNCHANGED <<fileAt, waitsFor, settlement, starting, generation>>
    BY <1>1 DEF UserStep, OpenBatch, Cancel, DisposeSession, coroutineVars, sharedVars, ingestVars
  <2>3. storeGen \in Nat /\ \A g \in Generations : g \in Nat
    BY <1>0
  <2>4. \A g \in Generations : g = storeGen + 1 => pc[g] = "none"
    BY <2>3 DEF OwnerInv
  <2>. HIDE DEF Generations
  <2>5. CASE pc' = pc
    BY <2>1, <2>2, <2>3, <2>5 DEF OwnerInv, Busy
  <2>6. CASE pc' = [pc EXCEPT ![storeGen + 1] = "planning"] /\ storeGen' = storeGen + 1
    <3>1. \A g \in Generations : pc'[g] = IF g = storeGen + 1 THEN "planning" ELSE pc[g]
      BY <1>0, <2>6
    <3>2. \A g \in Generations : pc[g] # "none" => g # storeGen + 1
      BY <2>4
    <3>3. Busy' = Busy
      BY <1>0, <2>2, <3>1, <3>2 DEF Busy, Stages
    <3>. QED BY <1>0, <2>2, <2>3, <2>4, <2>6, <3>1, <3>2, <3>3 DEF OwnerInv, Stages, Begins
  <2>. QED BY <2>1, <2>5, <2>6
<1>2. ASSUME NEW g \in Generations, Outside(g)
      PROVE  OwnerInv'
  <2>1. /\ pc[g] \in {"planning", "closing", "settling"} /\ pc' = [pc EXCEPT ![g] = pc'[g]]
        /\ UNCHANGED <<settlement, fileAt, generation, storeGen>>
    BY <1>2 DEF Outside, Planned, FamilyClosed, Claim, Goes, Dispatches, storeGenVars, sharedVars, ingestVars
  <2>2. g # settlement /\ g <= storeGen /\ fileAt[g] = 0
    BY <1>0, <2>1 DEF OwnerInv, Stages, Begins
  <2>3. UNCHANGED Busy /\ \A h \in Generations \ {g} : pc'[h] = pc[h]
    BY <1>0, <2>1, <2>2 DEF Busy
  <2>4. \A h \in Generations : pc[h] \in Stages \cup {"done"} => pc'[h] = pc[h]
    BY <2>1, <2>3 DEF Stages
  <2>5. CASE UNCHANGED <<starting, waitsFor>> /\ pc'[g] \in {"closing", "done"}
    <3>1. \A h \in Generations : pc'[h] = IF h = g THEN pc'[g] ELSE pc[h]
      BY <2>3
    <3>. QED BY <1>0, <2>1, <2>2, <2>3, <2>5, <3>1, OwnerMoves
  <2>6. CASE UNCHANGED starting /\ pc'[g] = "settling" /\ waitsFor' = [waitsFor EXCEPT ![g] = settlement]
    <3>1. \A h \in Generations : waitsFor'[h] = IF h = g THEN settlement ELSE waitsFor[h]
      BY <1>0, <2>6
    <3>. QED BY <1>0, <2>1, <2>2, <2>3, <2>6, <3>1, OwnerMoves DEF OwnerInv
  <2>7. CASE /\ starting = None /\ starting' = g /\ IsCurrent(g) /\ pc[g] = "settling" /\ pc'[g] = "starting"
             /\ IngestSettled(waitsFor[g]) /\ UNCHANGED waitsFor
    <3>1. ~Busy
      BY <1>0, <2>7 DEF OwnerInv, IngestSettled, Busy, Stages
    <3>2. settlement < g
      <4>1. settlement # None => settlement <= storeGen
        BY <1>0 DEF OwnerInv, Stages
      <4>2. g = storeGen /\ g \in Nat /\ g > 0 /\ None = 0 /\ settlement \in Nat
        BY <1>0, <2>7 DEF IsCurrent, Generations, None
      <4>. QED BY <2>2, <4>1, <4>2
    <3>. QED BY <1>0, <2>1, <2>2, <2>3, <2>4, <2>7, <3>1, <3>2 DEF OwnerInv, Stages, Begins
  <2>. QED
    <3>1. CASE Planned(g) \/ Claim(g)
      BY <1>2, <2>5, <2>7, <3>1, <1>0 DEF Planned, Claim, Goes, sharedVars
    <3>2. CASE FamilyClosed(g)
      BY <1>2, <2>5, <2>6, <3>2, <1>0 DEF FamilyClosed, Goes, sharedVars
    <3>. QED BY <1>2, <3>1, <3>2 DEF Outside
<1>3. ASSUME NEW g \in Generations, Begun(g)
      PROVE  OwnerInv'
  <2>1. /\ pc[g] = "starting" /\ starting' = None /\ pc' = [pc EXCEPT ![g] = pc'[g]]
        /\ UNCHANGED <<fileAt, waitsFor, storeGen>>
        /\ \/ pc'[g] = "loop" /\ settlement' = g /\ generation' = g
           \/ pc'[g] = "done" /\ UNCHANGED <<settlement, generation>>
    BY <1>0, <1>3 DEF Begun, Goes, BeginIngest, storeGenVars, ingestVars
  <2>2. starting = g /\ ~Busy /\ g # settlement /\ g # None
    BY <1>0, <2>1 DEF OwnerInv, Stages
  <2>3. \A h \in Generations : pc[h] \notin Stages
    BY <1>0, <2>2 DEF OwnerInv, Busy
  <2>4. \A h \in Generations : pc[h] # "settling"
    <3>. SUFFICES ASSUME NEW h \in Generations, pc[h] = "settling" PROVE FALSE
      OBVIOUS
    <3>1. IngestSettled(waitsFor[h])
      <4>1. waitsFor[h] \in Generations \cup {None}
        BY <1>0
      <4>2. waitsFor[h] # None => pc[waitsFor[h]] \in Stages \cup {"done"} /\ pc[waitsFor[h]] \notin Stages
        BY <2>3, <4>1 DEF OwnerInv
      <4>. QED BY <4>2 DEF IngestSettled
    <3>2. Resumes(h)
      BY <3>1 DEF Resumes
    <3>. QED BY <1>3, <3>2 DEF Begun, Idle, Microtasks
  <2>5. \A h \in Generations : pc'[h] = IF h = g THEN pc'[g] ELSE pc[h]
    BY <1>0, <2>1
  <2>6. \A h \in Generations : pc'[h] \in Stages => h = settlement'
    BY <2>1, <2>3, <2>5 DEF Stages
  <2>7. \A h \in Generations : pc'[h] # "starting" /\ pc'[h] # "settling"
    BY <1>0, <2>1, <2>2, <2>4, <2>5 DEF OwnerInv
  <2>8. \A h \in Generations : /\ pc'[h] # "none" => h <= storeGen
                               /\ pc'[h] \in Begins => fileAt[h] = 0
    BY <1>0, <2>1, <2>2, <2>5 DEF OwnerInv, Begins
  <2>10. \A h \in Generations : waitsFor[h] # None => pc'[waitsFor[h]] \in Stages \cup {"done"}
    <3>. SUFFICES ASSUME NEW h \in Generations, waitsFor[h] # None
                  PROVE  pc'[waitsFor[h]] \in Stages \cup {"done"}
      OBVIOUS
    <3>1. waitsFor[h] \in Generations /\ pc[waitsFor[h]] \in Stages \cup {"done"}
      BY <1>0 DEF OwnerInv
    <3>. QED BY <2>1, <2>5, <3>1 DEF Stages
  <2>9. settlement' = generation' /\ (settlement' # None => pc'[settlement'] \in Stages \cup {"done"})
    BY <1>0, <2>1, <2>2, <2>5 DEF OwnerInv, Stages
  <2>. QED BY <1>0, <2>1, <2>6, <2>7, <2>8, <2>9, <2>10 DEF OwnerInv
<1>4. ASSUME NEW g \in Generations, InSession(g)
      PROVE  OwnerInv'
  <2>1. /\ pc[g] \in Stages /\ pc'[g] \in Stages \cup {"done"}
        /\ \A h \in Generations \ {g} : pc'[h] = pc[h] /\ fileAt'[h] = fileAt[h]
        /\ UNCHANGED <<settlement, starting, waitsFor, generation, storeGen, disposed>>
    BY <1>4, SessionSteps
  <2>2. g = settlement /\ Busy /\ starting = None
    BY <1>0, <2>1 DEF OwnerInv, Busy
  <2>3. \A h \in Generations : pc'[h] = IF h = g THEN pc'[g] ELSE pc[h]
    BY <2>1
  <2>4. \A h \in Generations : pc'[h] \in Begins => fileAt'[h] = 0
    <3>1. pc'[g] \notin Begins
      BY <2>1 DEF Begins, Stages
    <3>. QED BY <2>1, <3>1 DEF OwnerInv
  <2>5. \A h \in Generations : waitsFor[h] # None => pc'[waitsFor[h]] \in Stages \cup {"done"}
    <3>. SUFFICES ASSUME NEW h \in Generations, waitsFor[h] # None
                  PROVE  pc'[waitsFor[h]] \in Stages \cup {"done"}
      OBVIOUS
    <3>1. waitsFor[h] \in Generations /\ pc[waitsFor[h]] \in Stages \cup {"done"}
      BY <1>0 DEF OwnerInv
    <3>. QED BY <2>1, <2>3, <3>1
  <2>6. \A h \in Generations : /\ pc'[h] \in Stages => h = settlement
                               /\ pc'[h] # "starting" /\ starting # h
                               /\ pc'[h] # "none" => h <= storeGen
                               /\ pc'[h] = "settling" => waitsFor[h] = settlement
    BY <1>0, <2>1, <2>2, <2>3 DEF OwnerInv, Stages, Busy
  <2>7. settlement = generation /\ (settlement # None => pc'[settlement] \in Stages \cup {"done"})
    BY <2>1, <2>2 DEF OwnerInv
  <2>. QED BY <2>1, <2>2, <2>4, <2>5, <2>6, <2>7 DEF OwnerInv
<1>5. CASE UNCHANGED <<pc, fileAt, waitsFor, settlement, starting, storeGen, disposed, generation>>
  BY <1>5 DEF OwnerInv, Busy
<1>. QED BY <1>1, <1>2, <1>3, <1>4, <1>5, OtherSteps DEF Next, SystemStep, Coroutine, Outside, InSession, UserStep

-----------------------------------------------------------------------------
(* The call under way, and the state of its session.                           *)

\* Any other step leaves the open that owns the settlement where it is.
LEMMA ElsewhereSteps ==
    ASSUME TypeOK, OwnerInv,
           \/ UserStep \/ \E g \in Generations : Outside(g)
           \/ \E f \in Files : ParserStep(f)
           \/ DatabaseStep \/ DisposeDatabase \/ Rest \/ UNCHANGED vars
    PROVE  /\ UNCHANGED <<settlement, generation, Busy>>
           /\ \A p : InStage(p)' = InStage(p)
           /\ settlement # None => CurrentFile(settlement)' = CurrentFile(settlement)
           /\ settlement # None => pc'[settlement] = pc[settlement]
<1>0. /\ pc \in [Generations -> Waits] /\ settlement \in Generations \cup {None} /\ None \notin Generations
      /\ storeGen \in Nat /\ settlement \in Nat
  BY DEF TypeOK, Generations, None
<1>1. /\ UNCHANGED <<settlement, generation, fileAt>>
      /\ settlement # None => pc'[settlement] = pc[settlement]
  <2>1. CASE UserStep
    <3>1. /\ UNCHANGED <<settlement, generation, fileAt>>
          /\ pc' = pc \/ pc' = [pc EXCEPT ![storeGen + 1] = "planning"]
      BY <2>1 DEF UserStep, OpenBatch, Cancel, DisposeSession, coroutineVars, sharedVars, ingestVars
    <3>2. settlement # None => settlement # storeGen + 1
      <4>1. settlement # None => settlement <= storeGen
        BY <1>0 DEF OwnerInv, Stages
      <4>. QED BY <1>0, <4>1
    <3>. QED BY <1>0, <3>1, <3>2
  <2>2. ASSUME NEW g \in Generations, Outside(g)
        PROVE  /\ UNCHANGED <<settlement, generation, fileAt>>
               /\ settlement # None => pc'[settlement] = pc[settlement]
    <3>1. /\ pc[g] \in {"planning", "closing", "settling"} /\ pc' = [pc EXCEPT ![g] = pc'[g]]
          /\ UNCHANGED <<settlement, fileAt, generation>>
      BY <1>0, <2>2 DEF Outside, Planned, FamilyClosed, Claim, Goes, sharedVars, ingestVars
    <3>2. settlement # None => g # settlement
      BY <3>1 DEF OwnerInv, Stages
    <3>. QED BY <1>0, <3>1, <3>2
  <2>. QED BY <2>1, <2>2, OtherSteps
<1>. QED BY <1>0, <1>1 DEF InStage, Busy, CurrentFile, FileOf

\* A parse that has failed stays so.
LEMMA FailedStays ==
    ASSUME TypeOK, OwnerInv, ParseInv, Next \/ UNCHANGED vars
    PROVE  \A f : f \in Files /\ Failed(f) => Failed(f)'
<1>. SUFFICES ASSUME NEW f \in Files, Failed(f) PROVE Failed(f)'
  OBVIOUS
<1>. USE DEF Failed
<1>0. outcome \in [Files -> {"none", "pending", "resolved", "error", "quota", "abort"}]
  BY DEF TypeOK
<1>1. CASE UserStep
  BY <1>0, <1>1 DEF UserStep, OpenBatch, Cancel, DisposeSession, CancelParse
<1>2. ASSUME NEW g \in Generations, FileBegun(g)
      PROVE  Failed(f)'
  <2>1. InStage("beginning") /\ g = settlement
    BY <1>2 DEF FileBegun, OwnerInv, Stages, InStage, Generations, None
  <2>2. f # CurrentFile(g)
    <3>1. f < CurrentFile(settlement) /\ f \in Nat
      BY <2>1 DEF ParseInv, Files
    <3>. QED BY <2>1, <3>1
  <2>. QED BY <1>0, <1>2, <2>2 DEF FileBegun
<1>3. ASSUME NEW h \in Files, BatchDone(h) \/ ParseSettles(h)
      PROVE  Failed(f)'
  BY <1>0, <1>3 DEF BatchDone, ParseSettles, SettledAs
<1>4. CASE UNCHANGED outcome
  BY <1>4
<1>5. ASSUME NEW g \in Generations, Coroutine(g)
      PROVE  FileBegun(g) \/ UNCHANGED outcome
  BY <1>5 DEF Coroutine, Planned, FamilyClosed, Claim, Begun, NextFile, AppendFiles, GivesUp, FileParsed,
         FileDooms, FileSkipped, FileDiscarded, FilesAppended, Publish, Published, Failing, Given, parserVars
<1>6. ASSUME NEW h \in Files, ParserStep(h)
      PROVE  BatchDone(h) \/ ParseSettles(h) \/ UNCHANGED outcome
  BY <1>6 DEF ParserStep, BatchArrives, ParseEnds, BatchStarts
<1>7. CASE DatabaseStep \/ DisposeDatabase \/ Rest \/ UNCHANGED vars
  BY <1>4, <1>7 DEF DatabaseStep, DisposeDatabase, Rest, vars, intakeVars, parserVars
<1>. QED BY <1>1, <1>2, <1>3, <1>4, <1>5, <1>6, <1>7 DEF Next, SystemStep, UserStep

\* What the operation at the head of the queue belongs to.
LEMMA RunningIs ==
    ASSUME TypeOK, QueueInv
    PROVE  /\ Running("append") =>
                 /\ \E a \in appends : a.row = Head(queue).row /\ a.at = "queued"
                 /\ Head(queue).table = FilesTable <=> Head(queue).row.file = None
           /\ \A op \in {"flush", "discard", "residual", "commit", "drop"} : Running(op) => call.at = "queued"
           /\ Running("flush") => call.kind = "beginFile"
           /\ Running("discard") => call.kind = "discard"
           /\ Running("residual") => call.kind = "flushing"
           /\ Running("commit") => call.kind = "finalize"
           /\ Running("drop") => call.kind = "abort"
<1>1. \A op : Running(op) => 1 \in 1..Len(queue) /\ queue[1] = Head(queue) /\ Head(queue).op = op
  BY DEF TypeOK, SessionTypeOK, Running
<1>2. Running("append") =>
         /\ \E a \in appends : a.row = Head(queue).row /\ a.at = "queued"
         /\ Head(queue).table = FilesTable <=> Head(queue).row.file = None
  BY <1>1 DEF QueueInv
<1>3. ASSUME NEW op \in {"flush", "discard", "residual", "commit", "drop"}, Running(op)
      PROVE  call.at = "queued" /\ call.kind \in DOMAIN OpOf /\ OpOf[call.kind] = op
  <2>1. op # "append" /\ 1 \in 1..Len(queue) /\ queue[1].op = op
    BY <1>1, <1>3
  <2>. QED BY <2>1 DEF QueueInv
<1>. QED BY <1>2, <1>3 DEF OpOf

\* In a session that is ending itself, or is left alone, the call and the state stay.
LEMMA CallAndStateKept ==
    ASSUME TypeOK, OwnerInv, ParseInv, CallInv, StateInv, QueueInv, Next \/ UNCHANGED vars
    PROVE  CallInv' /\ StateInv'
<1>. USE CallFields
<1>0. /\ pc \in [Generations -> Waits] /\ settlement \in Generations \cup {None} /\ None \notin Generations
      /\ state \in {"open", "finalized", "aborted", "failed"} /\ SessionTypeOK
      /\ currentFile # None => currentFile \in Files
  BY DEF TypeOK, SessionTypeOK, Generations, None
<1>1. ASSUME NEW f \in Files \cup {None}, Failed(f)
      PROVE  Failed(f)'
  BY <1>1, FailedStays DEF Failed
<1>2. ASSUME NEW g \in Generations, InSession(g)
      PROVE  /\ g = settlement /\ settlement # None /\ pc' = [pc EXCEPT ![g] = pc'[g]] /\ UNCHANGED settlement
             /\ pc'[g] \in Stages \cup {"done"} /\ \A p : InStage(p)' <=> pc'[g] = p
             /\ \A p : InStage(p) <=> pc[g] = p
             /\ Busy /\ (Busy' <=> pc'[g] # "done")
  <2>1. g = settlement /\ settlement # None /\ UNCHANGED settlement /\ pc[g] \in Stages /\ pc'[g] \in Stages \cup {"done"}
    BY <1>0, <1>2, SessionSteps DEF OwnerInv
  <2>2. pc' = [pc EXCEPT ![g] = pc'[g]]
    BY <1>0, <1>2 DEF InSession, NextFile, AppendFiles, GivesUp, FileBegun, FileParsed, FileDooms, FileSkipped,
       FileDiscarded, FilesAppended, Publish, Published, Failing, Given, Goes, Fails
  <2>. QED BY <2>1, <2>2 DEF InStage, Busy, Stages
<1>3. ASSUME NEW g \in Generations, NextFile(g)
      PROVE  CallInv' /\ StateInv'
  <2>1. /\ pc[g] = "loop" /\ pc'[g] = "beginning" /\ UNCHANGED state
        /\ call'.kind = "beginFile" /\ call'.file = FileOf(g, fileAt[g] + 1) /\ call'.at \in Outcomes
        /\ fileAt' = [fileAt EXCEPT ![g] = @ + 1]
    BY <1>0, <1>3, CallTypes DEF NextFile, CallBeginFile, Goes, Outcomes
  <2>2. CurrentFile(g)' = FileOf(g, fileAt[g] + 1)
    BY <2>1 DEF CurrentFile, FileOf, TypeOK
  <2>. QED BY <1>0, <1>2, <1>3, <2>1, <2>2 DEF CallInv, StateInv, InSession, CurrentFile
<1>4. ASSUME NEW g \in Generations, AppendFiles(g) \/ GivesUp(g) \/ FileParsed(g) \/ FileDooms(g) \/ FilesAppended(g)
      PROVE  CallInv' /\ StateInv'
  <2>1. /\ pc[g] \in {"loop", "parsing", "filing"} /\ pc'[g] \in {"filing", "failing", "loop", "publish"}
        /\ UNCHANGED <<state, call>>
    BY <1>0, <1>4 DEF AppendFiles, GivesUp, FileParsed, FileDooms, FilesAppended, Goes, Fails, CallAppend, ReturnAppend,
       ingestVars, callVars
  <2>. QED BY <1>0, <1>2, <1>4, <2>1 DEF CallInv, StateInv, InSession
<1>5. ASSUME NEW g \in Generations, FileBegun(g) \/ FileDiscarded(g)
      PROVE  CallInv' /\ StateInv'
  <2>1. /\ pc[g] \in {"beginning", "discarding"} /\ pc'[g] \in {"parsing", "failing", "loop"}
        /\ UNCHANGED state /\ call' = NoCall
    BY <1>0, <1>5 DEF FileBegun, FileDiscarded, Goes, Fails, ReturnBeginFile, ReturnDiscard
  <2>. QED BY <1>0, <1>2, <1>5, <2>1 DEF CallInv, StateInv, InSession
<1>6. ASSUME NEW g \in Generations, FileSkipped(g)
      PROVE  CallInv' /\ StateInv'
  <2>1. /\ pc[g] = "parsing" /\ pc'[g] = "discarding" /\ UNCHANGED <<state, currentFile>>
        /\ call'.kind = "discard" /\ (Failed(CurrentFile(g)) \/ CurrentFile(g) = None)
        /\ call'.at # "nothing" => currentFile # None
    BY <1>0, <1>6 DEF FileSkipped, CallDiscard, Goes, fileVars, Failed, AtOnce
  <2>2. currentFile = CurrentFile(g)
    BY <1>2, <1>6, <2>1 DEF ParseInv, InSession
  <2>3. call'.kind = "discard" /\ (call'.at # "nothing" => Failed(currentFile)')
    BY <1>0, <1>1, <1>6, <2>1, <2>2 DEF FileSkipped, CallDiscard, fileVars
  <2>. QED BY <1>0, <1>2, <1>6, <2>1, <2>3 DEF CallInv, StateInv, InSession
<1>7. ASSUME NEW g \in Generations, Publish(g)
      PROVE  CallInv' /\ StateInv'
  <2>1. /\ pc[g] = "publish" /\ pc'[g] = "finalizing"
        /\ call'.kind \in {"flushing", "finalize"}
        /\ IF state = "open" THEN state' = "finalized" /\ call'.at \in {"queued", "error"}
                             ELSE UNCHANGED state /\ call'.at = "refused"
    BY <1>0, <1>7 DEF Publish, CallFinalize, Goes, AtOnce
  <2>2. state \in {"open", "aborted"}
    BY <1>0, <1>2, <1>7, <2>1 DEF StateInv, InSession
  <2>. QED BY <1>0, <1>2, <1>7, <2>1, <2>2 DEF CallInv, StateInv, InSession
<1>8. ASSUME NEW g \in Generations, Published(g)
      PROVE  CallInv' /\ StateInv'
  <2>1. /\ pc[g] = "finalizing" /\ call' = NoCall
        /\ \/ call.kind = "finalize" /\ call.at = "swapping" /\ pc'[g] = "done" /\ UNCHANGED state
           \/ pc'[g] = "failing" /\ state' = "failed"
           \/ call.kind = "finalize" /\ call.at = "refused" /\ pc'[g] = "failing" /\ UNCHANGED state
    BY <1>0, <1>8 DEF Published, ReturnFinalize, Goes, Fails
  <2>2. state \notin {"open", "failed"}
    BY <1>0, <1>2, <1>8, <2>1 DEF StateInv, InSession
  <2>. QED BY <1>0, <1>2, <1>8, <2>1, <2>2 DEF CallInv, StateInv, InSession
<1>9. ASSUME NEW g \in Generations, Failing(g) \/ Given(g)
      PROVE  CallInv' /\ StateInv'
  <2>1. CASE Failing(g)
    <3>1. /\ pc[g] = "failing" /\ pc'[g] = "aborting" /\ call'.kind = "abort"
          /\ state' = IF state \in {"open", "failed"} THEN "aborted" ELSE state
      BY <1>0, <2>1 DEF Failing, CallAbort, Abortable, Goes
    <3>. QED BY <1>0, <1>2, <1>9, <3>1 DEF CallInv, StateInv, InSession
  <2>2. CASE Given(g)
    <3>1. /\ pc[g] = "aborting" /\ pc'[g] = "done" /\ call' = NoCall /\ UNCHANGED state /\ call.kind = "abort"
      BY <1>0, <2>2 DEF Given, ReturnAbort, Goes
    <3>. QED BY <1>0, <1>2, <1>9, <3>1 DEF CallInv, StateInv, InSession
  <2>. QED BY <1>9, <2>1, <2>2
<1>10. ASSUME NEW g \in Generations, Begun(g)
       PROVE  CallInv' /\ StateInv'
  <2>1. ~Busy /\ pc' = [pc EXCEPT ![g] = pc'[g]] /\ g # settlement /\ g # None
    BY <1>0, <1>10 DEF Begun, OwnerInv, Goes, Stages
  <2>2. call.kind \notin {"beginFile", "discard", "flushing", "finalize", "abort"}
    BY <2>1 DEF CallInv, InStage, Busy, Stages
  <2>3. /\ UNCHANGED call
        /\ \/ state' = "open" /\ pc'[g] = "loop" /\ settlement' = g
           \/ UNCHANGED <<state, settlement>> /\ pc'[g] = "done"
    BY <1>0, <1>10 DEF Begun, BeginIngest, Goes, callVars, ingestVars
  <2>. QED BY <1>0, <2>1, <2>2, <2>3 DEF CallInv, StateInv, InStage, Busy, Stages
<1>11. ASSUME UNCHANGED <<settlement, Busy>>, \A p : InStage(p)' = InStage(p),
              settlement # None => CurrentFile(settlement)' = CurrentFile(settlement),
              settlement # None => pc'[settlement] = pc[settlement],
              UNCHANGED <<call, state, currentFile>>
       PROVE  CallInv' /\ StateInv'
  <2>1. CallInv'
    BY <1>0, <1>1, <1>11 DEF CallInv, InStage
  <2>2. StateInv'
    BY <1>0, <1>11 DEF StateInv, InStage, Busy
  <2>. QED BY <2>1, <2>2
<1>12. ASSUME UNCHANGED <<settlement, Busy>>, \A p : InStage(p)' = InStage(p),
              settlement # None => CurrentFile(settlement)' = CurrentFile(settlement),
              settlement # None => pc'[settlement] = pc[settlement],
              RunOperation \/ SessionStep
       PROVE  CallInv' /\ StateInv'
  <2>1. UNCHANGED currentFile
    BY <1>12 DEF RunOperation, RunAppend, RunFlush, RunDiscard, RunResidual, RunCommit, RunDrop, SessionStep,
       DiscardForgets, FinalizeCommits, FinalizeSwaps, fileVars
  <2>2. CASE RunAppend
    <3>1. UNCHANGED call /\ (UNCHANGED state \/ (state = "open" /\ state' = "aborted"))
      BY <1>0, <2>2 DEF RunAppend, AppendRefused, RotateOrAbort
    <3>. QED BY <1>0, <1>1, <1>12, <2>1, <3>1 DEF CallInv, StateInv, InStage, Busy
  <2>3. CASE RunFlush
    <3>1. /\ call.kind = "beginFile" /\ call'.kind = "beginFile" /\ call'.file = call.file
          /\ call'.at \in Outcomes /\ state' \in {state, "aborted"}
      BY <1>0, <2>3, RunningIs DEF RunFlush, RotateOrAbort, Outcomes
    <3>. QED BY <1>0, <1>12, <3>1 DEF CallInv, StateInv, InStage, Busy
  <2>4. CASE RunDiscard
    <3>1. call.kind = "discard" /\ call.at = "queued" /\ call'.kind = "discard" /\ UNCHANGED state
      BY <1>0, <2>4, RunningIs DEF RunDiscard
    <3>. QED BY <1>0, <1>1, <1>12, <2>1, <3>1 DEF CallInv, StateInv, InStage, Busy
  <2>5. CASE RunResidual
    <3>1. /\ call.kind = "flushing" /\ call.at = "queued" /\ call'.kind = "flushing"
          /\ call'.at \in {"ok", "error", "quota"} /\ UNCHANGED state
      BY <1>0, <2>5, RunningIs DEF RunResidual, RotateOrAbort
    <3>. QED BY <1>0, <1>12, <3>1 DEF CallInv, StateInv, InStage, Busy
  <2>6. CASE RunCommit
    <3>1. /\ call.kind = "finalize" /\ call.at = "queued" /\ call'.kind = "finalize"
          /\ call'.at \in {"ok", "error"} /\ UNCHANGED state
      BY <1>0, <2>6, RunningIs DEF RunCommit
    <3>. QED BY <1>0, <1>12, <3>1 DEF CallInv, StateInv, InStage, Busy
  <2>7. CASE RunDrop
    <3>1. call.kind = "abort" /\ call'.kind = "abort" /\ UNCHANGED state
      BY <1>0, <2>7, RunningIs DEF RunDrop
    <3>. QED BY <1>0, <1>12, <3>1 DEF CallInv, StateInv, InStage, Busy
  <2>8. CASE SessionStep
    <3>1. /\ UNCHANGED state
          /\ \/ call.kind = "discard" /\ call.at = "ok" /\ call'.kind = "discard"
             \/ call.kind = "flushing" /\ call.at = "ok" /\ call'.kind = "finalize" /\ call'.at \in {"queued", "error"}
             \/ call.kind = "finalize" /\ call.at = "ok" /\ call'.kind = "finalize" /\ call'.at = "swapping"
      <4>1. call \in SessionCalls
        BY <1>0 DEF SessionTypeOK
      <4>2. CASE DiscardForgets
        BY <4>1, <4>2 DEF DiscardForgets, SessionCalls
      <4>3. CASE FinalizeCommits
        BY <4>1, <4>3 DEF FinalizeCommits, AtOnce
      <4>4. CASE FinalizeSwaps
        BY <4>1, <4>4 DEF FinalizeSwaps, SessionCalls
      <4>. QED BY <2>8, <4>2, <4>3, <4>4 DEF SessionStep
    <3>. QED BY <1>0, <1>1, <1>12, <2>1, <3>1 DEF CallInv, StateInv, InStage, Busy
  <2>. QED BY <1>12, <2>2, <2>3, <2>4, <2>5, <2>6, <2>7, <2>8 DEF RunOperation
<1>13. ASSUME UserStep \/ (\E g \in Generations : Outside(g)) \/ (\E f \in Files : ParserStep(f))
              \/ DisposeDatabase \/ Rest \/ UNCHANGED vars
       PROVE  UNCHANGED <<call, state, currentFile>>
  <2>1. CASE UserStep \/ (\E g \in Generations : Outside(g)) \/ Rest \/ UNCHANGED vars
    BY <2>1 DEF UserStep, OpenBatch, Cancel, DisposeSession, Outside, Planned, FamilyClosed, Claim, Rest, vars,
       ingestVars, callVars, fileVars
  <2>2. ASSUME NEW f \in Files, ParserStep(f)
        PROVE  UNCHANGED <<call, state, currentFile>>
    BY <2>2 DEF ParserStep, BatchArrives, ParseEnds, BatchStarts, BatchDone, ParseSettles, CallAppend, ReturnAppend,
       ingestVars, callVars, fileVars
  <2>3. CASE DisposeDatabase
    BY <2>3 DEF DisposeDatabase, Dispose, DisposeFinishes, sessionVars, callVars, fileVars
  <2>. QED BY <1>13, <2>1, <2>2, <2>3
<1>. QED
  <2>1. CASE \E g \in Generations : InSession(g)
    BY <1>3, <1>4, <1>5, <1>6, <1>7, <1>8, <1>9, <2>1 DEF InSession
  <2>2. CASE \E g \in Generations : Begun(g)
    BY <1>10, <2>2
  <2>3. CASE DatabaseStep
    BY <1>12, <2>3, ElsewhereSteps DEF DatabaseStep
  <2>4. CASE UserStep \/ (\E g \in Generations : Outside(g)) \/ (\E f \in Files : ParserStep(f))
             \/ DisposeDatabase \/ Rest \/ UNCHANGED vars
    BY <1>11, <1>13, <2>4, ElsewhereSteps
  <2>. QED BY <2>1, <2>2, <2>3, <2>4 DEF Next, SystemStep, Coroutine, Outside, InSession, UserStep


-----------------------------------------------------------------------------
(* The queue and the appends under way.                                       *)

\* What a queued operation waits in front of.
LEMMA QueueShortens ==
    ASSUME queue \in Seq(Operations), queue # << >>, queue' = Tail(queue)
    PROVE  /\ queue' \in Seq(Operations) /\ Head(queue) = queue[1] /\ 1 \in 1..Len(queue)
           /\ \A i \in 1..Len(queue') : queue'[i] = queue[i + 1] /\ i + 1 \in 1..Len(queue) /\ i + 1 # 1
OBVIOUS

LEMMA QueueGrows ==
    ASSUME queue \in Seq(Operations), NEW o \in Operations, queue' = Append(queue, o)
    PROVE  /\ Len(queue') = Len(queue) + 1 /\ queue'[Len(queue) + 1] = o
           /\ \A i \in 1..Len(queue) : queue'[i] = queue[i]
OBVIOUS

\* A call that is not queued has no operation in the queue, so any other may follow it.
LEMMA OnlyAppends ==
    ASSUME TypeOK, QueueInv, call.at # "queued"
    PROVE  \A i \in 1..Len(queue) : queue[i].op = "append"
BY DEF QueueInv

LEMMA CallNotQueued ==
    ASSUME TypeOK, QueueInv, call.at # "queued", UNCHANGED <<queue, appends>>
    PROVE  QueueInv'
BY OnlyAppends DEF QueueInv

LEMMA CallQueued ==
    ASSUME TypeOK, QueueInv, call.at # "queued", NEW kind \in DOMAIN OpOf, NEW f, NEW file \in Files \cup {None},
           call' = Called(kind, AtOnce, f), Enqueue(Operation(OpOf[kind], file)), UNCHANGED appends
    PROVE  QueueInv'
<1>1. CASE dispose = "no"
  <2>1. queue \in Seq(Operations) /\ Operation(OpOf[kind], file) \in Operations
        /\ Operation(OpOf[kind], file).op = OpOf[kind] /\ OpOf[kind] # "append"
    <3>1. OpOf[kind] \in {"flush", "discard", "residual", "commit", "drop"}
      BY DEF OpOf
    <3>. HIDE DEF OpOf
    <3>. QED BY <3>1, OperationType DEF TypeOK, SessionTypeOK, Operation
  <2>2. /\ Len(queue') = Len(queue) + 1 /\ queue'[Len(queue) + 1].op = OpOf[kind] /\ Len(queue) \in Nat
        /\ \A i \in 1..Len(queue) : queue'[i] = queue[i]
    BY <1>1, <2>1, QueueGrows DEF Enqueue
  <2>3. call'.at = "queued" /\ call'.kind = kind
    BY <1>1, CallFields DEF AtOnce
  <2>4. \A i \in 1..Len(queue') : i = Len(queue) + 1 \/ (i \in 1..Len(queue) /\ queue'[i] = queue[i] /\ queue[i].op = "append")
    BY <2>2, OnlyAppends
  <2>. QED BY <2>1, <2>2, <2>3, <2>4 DEF QueueInv
<1>2. CASE dispose # "no"
  BY <1>2, CallNotQueued DEF Enqueue
<1>. QED BY <1>1, <1>2

\* An append is queued, and returns when its operation has run.
LEMMA AppendQueued ==
    ASSUME TypeOK, QueueInv, NEW t \in Tables, NEW r \in Rows, CallAppend(t, r),
           t = FilesTable <=> r.file = None, \A a \in appends : a.row # r
    PROVE  QueueInv'
<1>1. CASE state = "open" /\ dispose = "no"
  <2>1. /\ Insertion(t, r) \in Operations /\ queue \in Seq(Operations)
        /\ Insertion(t, r).op = "append" /\ Insertion(t, r).row = r /\ Insertion(t, r).table = t
    BY OperationType DEF TypeOK, SessionTypeOK, Insertion
  <2>2. /\ Len(queue') = Len(queue) + 1 /\ queue'[Len(queue) + 1] = Insertion(t, r) /\ Len(queue) \in Nat
        /\ \A i \in 1..Len(queue) : queue'[i] = queue[i]
    BY <1>1, <2>1, QueueGrows DEF CallAppend, Enqueue
  <2>3. /\ UNCHANGED call /\ appends \subseteq appends'
        /\ \E a \in appends' : a.row = r /\ a.at = "queued"
    <3>1. UNCHANGED call /\ appends' = appends \cup {[table |-> t, row |-> r, at |-> "queued"]}
      BY <1>1 DEF CallAppend, AtOnce
    <3>2. [table |-> t, row |-> r, at |-> "queued"].row = r /\ [table |-> t, row |-> r, at |-> "queued"].at = "queued"
      OBVIOUS
    <3>. QED BY <3>1, <3>2
  <2>4. \A i \in 1..Len(queue') : i = Len(queue) + 1 \/ (i \in 1..Len(queue) /\ queue'[i] = queue[i])
    BY <2>2
  <2>5. \A i \in 1..Len(queue) : queue[i].op = "append" => queue[i].row # r
    BY DEF QueueInv
  <2>6. ASSUME NEW i \in 1..Len(queue')
        PROVE  IF queue'[i].op = "append"
               THEN /\ \E a \in appends' : a.row = queue'[i].row /\ a.at = "queued"
                    /\ queue'[i].table = FilesTable <=> queue'[i].row.file = None
               ELSE call'.at = "queued" /\ call'.kind \in DOMAIN OpOf /\ queue'[i].op = OpOf[call'.kind]
    BY <2>1, <2>2, <2>3, <2>4 DEF QueueInv
  <2>7. ASSUME NEW i \in 1..Len(queue'), NEW j \in 1..Len(queue'), i # j
        PROVE  /\ queue'[i].op = "append" \/ queue'[j].op = "append"
               /\ queue'[i].op = "append" /\ queue'[j].op = "append" => queue'[i].row # queue'[j].row
    BY <2>1, <2>2, <2>4, <2>5, <2>7 DEF QueueInv
  <2>. QED BY <2>6, <2>7 DEF QueueInv
<1>2. CASE state # "open" \/ dispose # "no"
  <2>1. UNCHANGED <<queue, call>> /\ appends \subseteq appends'
    BY <1>2 DEF CallAppend, Enqueue
  <2>. QED BY <2>1 DEF QueueInv
<1>. QED BY <1>1, <1>2

LEMMA AppendReturned ==
    ASSUME TypeOK, QueueInv, NEW a \in appends, ReturnAppend(a)
    PROVE  QueueInv'
BY DEF QueueInv, ReturnAppend, Outstanding

\* An operation leaves the queue and answers what it belongs to.
LEMMA OperationRun ==
    ASSUME TypeOK, QueueInv, RunOperation
    PROVE  QueueInv'
<1>0. queue \in Seq(Operations) /\ appends \subseteq AppendCalls
  BY DEF TypeOK, SessionTypeOK
<1>1. CASE RunAppend
  <2>1. queue # << >> /\ queue' = Tail(queue) /\ Head(queue).op = "append" /\ UNCHANGED call
        /\ \E how : Answered(how)
    BY <1>1 DEF RunAppend, Running
  <2>2. /\ Head(queue) = queue[1] /\ 1 \in 1..Len(queue)
        /\ \A i \in 1..Len(queue') : queue'[i] = queue[i + 1] /\ i + 1 \in 1..Len(queue) /\ i + 1 # 1
    BY <1>0, <2>1, QueueShortens
  <2>3. \A a \in appends : a.row # Head(queue).row => a \in appends'
    BY <2>1 DEF Answered
  <2>4. ASSUME NEW i \in 1..Len(queue')
        PROVE  IF queue'[i].op = "append"
               THEN /\ \E a \in appends' : a.row = queue'[i].row /\ a.at = "queued"
                    /\ queue'[i].table = FilesTable <=> queue'[i].row.file = None
               ELSE call'.at = "queued" /\ call'.kind \in DOMAIN OpOf /\ queue'[i].op = OpOf[call'.kind]
    <3>1. queue[i + 1].op = "append" => queue[i + 1].row # Head(queue).row
      BY <2>1, <2>2 DEF QueueInv
    <3>. QED BY <2>1, <2>2, <2>3, <3>1 DEF QueueInv
  <2>5. ASSUME NEW i \in 1..Len(queue'), NEW j \in 1..Len(queue'), i # j
        PROVE  /\ queue'[i].op = "append" \/ queue'[j].op = "append"
               /\ queue'[i].op = "append" /\ queue'[j].op = "append" => queue'[i].row # queue'[j].row
    <3>1. i + 1 # j + 1
      BY <2>5
    <3>2. /\ queue'[i] = queue[i + 1] /\ i + 1 \in 1..Len(queue)
          /\ queue'[j] = queue[j + 1] /\ j + 1 \in 1..Len(queue)
      BY <2>2
    <3>3. \A k, l \in 1..Len(queue) : k # l =>
              /\ queue[k].op = "append" \/ queue[l].op = "append"
              /\ queue[k].op = "append" /\ queue[l].op = "append" => queue[k].row # queue[l].row
      BY DEF QueueInv
    <3>. QED BY <3>1, <3>2, <3>3
  <2>. QED BY <2>4, <2>5 DEF QueueInv
<1>2. CASE RunFlush \/ RunDiscard \/ RunResidual \/ RunCommit \/ RunDrop
  <2>1. queue # << >> /\ queue' = Tail(queue) /\ Head(queue).op # "append" /\ UNCHANGED appends
    BY <1>2 DEF RunFlush, RunDiscard, RunResidual, RunCommit, RunDrop, Running
  <2>2. /\ Head(queue) = queue[1] /\ 1 \in 1..Len(queue)
        /\ \A i \in 1..Len(queue') : queue'[i] = queue[i + 1] /\ i + 1 \in 1..Len(queue) /\ i + 1 # 1
    BY <1>0, <2>1, QueueShortens
  <2>3. \A i \in 1..Len(queue') : queue'[i].op = "append"
    BY <2>1, <2>2 DEF QueueInv
  <2>4. ASSUME NEW i \in 1..Len(queue'), NEW j \in 1..Len(queue'), i # j
        PROVE  queue'[i].row # queue'[j].row
    <3>1. i + 1 # j + 1
      BY <2>4
    <3>. QED BY <2>2, <2>3, <3>1 DEF QueueInv
  <2>. QED BY <2>1, <2>2, <2>3, <2>4 DEF QueueInv
<1>. QED BY <1>1, <1>2 DEF RunOperation

\* A batch is a row: there are no more of a file than MaxBatches.
LEMMA BatchRow ==
    ASSUME TypeOK, ParseInv, NEW f \in Files, BatchStarts(f)
    PROVE  /\ queued' = [queued EXCEPT ![f] = @ - 1] /\ queued[f] > 0
           /\ [file |-> f, n |-> made[f] - queued'[f]] \in Rows
<1>1. /\ made \in [Files -> 0..MaxBatches] /\ queued \in [Files -> 0..Window]
      /\ MaxBatches \in Nat /\ MaxRows \in Nat /\ MaxBatches <= MaxRows /\ Window \in Nat
  BY IntakeAssumption, IngestAssumption DEF TypeOK
<1>2. queued' = [queued EXCEPT ![f] = @ - 1] /\ queued[f] > 0
  BY DEF BatchStarts, MayStart
<1>3. made[f] \in Nat /\ queued[f] \in Nat /\ made[f] <= MaxBatches /\ queued[f] <= made[f] /\ queued'[f] = queued[f] - 1
  BY <1>1, <1>2 DEF ParseInv
<1>4. made[f] - queued'[f] \in 0..(MaxRows + 1)
  BY <1>1, <1>2, <1>3
<1>. QED BY <1>2, <1>4 DEF Rows

\* A coroutine's call has no other under way.
LEMMA QueueKept ==
    ASSUME TypeOK, OwnerInv, QueueInv, AppendsInv, ParseInv, Next \/ UNCHANGED vars
    PROVE  QueueInv'
<1>. USE CallFields
<1>0. /\ SessionTypeOK /\ None \notin Generations /\ None \notin Files /\ currentFile \in Files \cup {None}
  BY DEF TypeOK, SessionTypeOK, Generations, Files, None
<1>1. ASSUME NEW g \in Generations, NextFile(g)
      PROVE  QueueInv'
  <2>1. PICK f \in Files : CallBeginFile(f)
    BY <1>1 DEF NextFile, MoreFiles, FilesOf
  <2>2. CASE state = "open" /\ tier = "spill"
    <3>1. /\ Enqueue(Operation(OpOf["beginFile"], f)) /\ call' = Called("beginFile", AtOnce, f)
          /\ "beginFile" \in DOMAIN OpOf /\ call.at # "queued" /\ UNCHANGED appends
      BY <2>1, <2>2 DEF CallBeginFile, OpOf
    <3>. QED BY <3>1, CallQueued
  <2>3. CASE ~(state = "open" /\ tier = "spill")
    BY <2>1, <2>3, CallNotQueued DEF CallBeginFile
  <2>. QED BY <2>2, <2>3
<1>2. ASSUME NEW g \in Generations, FileSkipped(g)
      PROVE  QueueInv'
  <2>1. CallDiscard /\ call.at # "queued" /\ UNCHANGED appends
    BY <1>2 DEF FileSkipped, CallDiscard
  <2>2. CASE state = "open" /\ currentFile # None
    <3>1. /\ Enqueue(Operation(OpOf["discard"], currentFile)) /\ call' = Called("discard", AtOnce, currentFile)
          /\ "discard" \in DOMAIN OpOf
      BY <2>1, <2>2 DEF CallDiscard, OpOf
    <3>. QED BY <1>0, <2>1, <3>1, CallQueued
  <2>3. CASE ~(state = "open" /\ currentFile # None)
    BY <2>1, <2>3, CallNotQueued DEF CallDiscard
  <2>. QED BY <2>2, <2>3
<1>3. ASSUME NEW g \in Generations, Publish(g)
      PROVE  QueueInv'
  <2>1. CallFinalize /\ call.at # "queued" /\ UNCHANGED appends
    BY <1>3 DEF Publish, CallFinalize
  <2>2. CASE state = "open"
    <3>1. \E kind \in DOMAIN OpOf :
             Enqueue(Operation(OpOf[kind], None)) /\ call' = Called(kind, AtOnce, None)
      BY <2>1, <2>2 DEF CallFinalize, OpOf
    <3>. QED BY <1>0, <2>1, <3>1, CallQueued
  <2>3. CASE state # "open"
    BY <2>1, <2>3, CallNotQueued DEF CallFinalize
  <2>. QED BY <2>2, <2>3
<1>4. ASSUME NEW g \in Generations, Failing(g)
      PROVE  QueueInv'
  <2>1. CallAbort /\ call.at # "queued" /\ UNCHANGED appends
    BY <1>4 DEF Failing, CallAbort
  <2>2. CASE Abortable
    <3>1. /\ Enqueue(Operation(OpOf["abort"], None)) /\ call' = Called("abort", AtOnce, None)
          /\ "abort" \in DOMAIN OpOf
      BY <2>1, <2>2 DEF CallAbort, OpOf
    <3>. QED BY <1>0, <2>1, <3>1, CallQueued
  <2>3. CASE ~Abortable
    BY <2>1, <2>3, CallNotQueued DEF CallAbort
  <2>. QED BY <2>2, <2>3
<1>5. ASSUME NEW g \in Generations, FileBegun(g) \/ FileDiscarded(g) \/ Published(g) \/ Given(g)
      PROVE  QueueInv'
  <2>1. call.at # "queued" /\ UNCHANGED <<queue, appends>>
    BY <1>5 DEF FileBegun, FileDiscarded, Published, Given, ReturnBeginFile, ReturnDiscard, ReturnFinalize, ReturnAbort
  <2>. QED BY <2>1, CallNotQueued
<1>6. ASSUME NEW g \in Generations, AppendFiles(g)
      PROVE  QueueInv'
  <2>1. /\ CallAppend(FilesTable, FilesRow(g)) /\ FilesRow(g) \in Rows /\ FilesRow(g).file = None
        /\ FilesTable \in Tables
    <3>1. g <= MaxRows /\ g \in Nat
      BY IntakeAssumption, IngestAssumption DEF Generations
    <3>. QED BY <1>6, <3>1, IngestAssumption DEF AppendFiles, FilesRow, Rows
  <2>2. ~InStage("filing")
    BY <1>0, <1>6 DEF AppendFiles, OwnerInv, InStage, Stages
  <2>3. \A a \in appends : a.row # FilesRow(g)
    BY <2>1, <2>2 DEF AppendsInv
  <2>. QED BY <2>1, <2>3, AppendQueued
<1>7. ASSUME NEW f \in Files, BatchStarts(f)
      PROVE  QueueInv'
  <2>1. CASE IsCurrent(OwnerOf(f))
    <3>1. PICK r : handling' = [handling EXCEPT ![f] = r] /\ r = [file |-> f, n |-> made[f] - queued'[f]]
                   /\ \E t \in Tables \ {FilesTable} : CallAppend(t, r)
      BY <1>7, <2>1 DEF BatchStarts
    <3>2. PICK t \in Tables \ {FilesTable} : CallAppend(t, r)
      BY <3>1
    <3>3. handling[f] = NoRow /\ NoRow.file = None /\ r.file = f /\ f # None
      BY <1>0, <1>7, <3>1 DEF BatchStarts, MayStart, NoRow
    <3>4. \A a \in appends : a.row # r
      BY <3>3 DEF AppendsInv
    <3>5. r \in Rows
      BY <1>7, <3>1, BatchRow
    <3>. QED BY <3>2, <3>3, <3>4, <3>5, AppendQueued
  <2>2. CASE ~IsCurrent(OwnerOf(f))
    BY <1>7, <2>2 DEF BatchStarts, ingestVars, callVars, QueueInv
  <2>. QED BY <2>1, <2>2
<1>8. ASSUME \E a \in appends : ReturnAppend(a)
      PROVE  QueueInv'
  BY <1>8, AppendReturned
<1>9. CASE SessionStep
  <2>1. CASE FinalizeCommits
    <3>1. /\ Enqueue(Operation(OpOf["finalize"], None)) /\ call' = Called("finalize", AtOnce, None)
          /\ "finalize" \in DOMAIN OpOf /\ UNCHANGED appends /\ call.at # "queued"
      BY <2>1 DEF FinalizeCommits, OpOf
    <3>. QED BY <1>0, <3>1, CallQueued
  <2>2. CASE DiscardForgets \/ FinalizeSwaps
    BY <2>2, CallNotQueued DEF DiscardForgets, FinalizeSwaps
  <2>. QED BY <1>9, <2>1, <2>2 DEF SessionStep
<1>10. CASE UNCHANGED callVars
  BY <1>10 DEF QueueInv, callVars
<1>11. ASSUME UserStep \/ DisposeDatabase \/ Rest \/ UNCHANGED vars
              \/ \E g \in Generations : Outside(g) \/ Begun(g) \/ GivesUp(g) \/ FileParsed(g) \/ FileDooms(g)
       PROVE  UNCHANGED callVars
  <2>1. CASE UserStep \/ Rest \/ UNCHANGED vars
    BY <2>1 DEF UserStep, OpenBatch, Cancel, DisposeSession, Rest, vars, ingestVars
  <2>2. CASE DisposeDatabase
    BY <2>2 DEF DisposeDatabase, Dispose, DisposeFinishes
  <2>3. ASSUME NEW g \in Generations, Outside(g) \/ Begun(g) \/ GivesUp(g) \/ FileParsed(g) \/ FileDooms(g)
        PROVE  UNCHANGED callVars
    BY <2>3 DEF Outside, Planned, FamilyClosed, Claim, Begun, BeginIngest, GivesUp, FileParsed, FileDooms, ingestVars
  <2>. QED BY <1>11, <2>1, <2>2, <2>3
<1>12. ASSUME NEW f \in Files, BatchArrives(f) \/ ParseEnds(f) \/ ParseSettles(f)
       PROVE  UNCHANGED callVars
  BY <1>12 DEF BatchArrives, ParseEnds, ParseSettles, ingestVars
<1>13. ASSUME (\E g \in Generations : FilesAppended(g)) \/ (\E f \in Files : BatchDone(f))
       PROVE  \E a \in appends : ReturnAppend(a)
  BY <1>13 DEF FilesAppended, BatchDone
<1>14. CASE RunOperation
  BY <1>14, OperationRun
<1>a. ASSUME NEW g \in Generations, Coroutine(g)
      PROVE  QueueInv'
  BY <1>a, <1>1, <1>2, <1>3, <1>4, <1>5, <1>6, <1>8, <1>10, <1>11, <1>13 DEF Coroutine, Outside
<1>b. ASSUME NEW f \in Files, ParserStep(f)
      PROVE  QueueInv'
  BY <1>b, <1>7, <1>8, <1>10, <1>12, <1>13 DEF ParserStep
<1>. QED BY <1>a, <1>b, <1>9, <1>10, <1>11, <1>14 DEF Next, SystemStep, DatabaseStep, UserStep

\* An append is under way as long as the onBatch, or the open, that made it.
LEMMA AppendsKept ==
    ASSUME TypeOK, OwnerInv, AppendsInv, ParseInv, Next \/ UNCHANGED vars
    PROVE  AppendsInv'
<1>0. /\ None \notin Generations /\ None \notin Files /\ handling \in [Files -> Rows] /\ appends \subseteq AppendCalls
      /\ pc \in [Generations -> Waits] /\ settlement \in Generations \cup {None}
      /\ NoRow.file = None /\ \A r \in Rows : r.file \in Files \cup {None}
  BY DEF TypeOK, SessionTypeOK, Generations, Files, None, NoRow, Rows
<1>1. ASSUME NEW g \in Generations, InSession(g)
      PROVE  /\ g = settlement /\ settlement # None /\ pc' = [pc EXCEPT ![g] = pc'[g]] /\ UNCHANGED settlement
             /\ \A p : InStage(p)' <=> pc'[g] = p
             /\ \A p : InStage(p) <=> pc[g] = p
  <2>1. g = settlement /\ settlement # None /\ UNCHANGED settlement
    BY <1>0, <1>1, SessionSteps DEF OwnerInv
  <2>2. pc' = [pc EXCEPT ![g] = pc'[g]]
    BY <1>0, <1>1 DEF InSession, NextFile, AppendFiles, GivesUp, FileBegun, FileParsed, FileDooms, FileSkipped,
       FileDiscarded, FilesAppended, Publish, Published, Failing, Given, Goes, Fails
  <2>. QED BY <2>1, <2>2 DEF InStage
<1>2. ASSUME NEW g \in Generations, AppendFiles(g)
      PROVE  AppendsInv'
  <2>1. /\ pc[g] = "loop" /\ pc'[g] = "filing" /\ UNCHANGED handling
        /\ \E x : appends' = appends \cup {x} /\ x.row = FilesRow(g)
    <3>1. \E at : appends' = appends \cup {[table |-> FilesTable, row |-> FilesRow(g), at |-> at]}
      BY <1>2 DEF AppendFiles, CallAppend
    <3>2. \A at : [table |-> FilesTable, row |-> FilesRow(g), at |-> at].row = FilesRow(g)
      OBVIOUS
    <3>. QED BY <1>0, <1>2, <3>1, <3>2 DEF AppendFiles, Goes, parserVars
  <2>2. g = settlement /\ UNCHANGED settlement /\ ~InStage("filing") /\ InStage("filing")'
    BY <1>1, <1>2, <2>1 DEF InSession
  <2>3. FilesRow(g).file = None
    BY DEF FilesRow
  <2>4. \A a \in appends : a.row.file # None /\ handling[a.row.file] = a.row
    BY <2>2 DEF AppendsInv
  <2>. QED BY <2>1, <2>2, <2>3, <2>4 DEF AppendsInv, FilesRow
<1>3. ASSUME NEW g \in Generations, FilesAppended(g)
      PROVE  AppendsInv'
  <2>1. PICK a \in appends : a.row = FilesRow(g) /\ appends' = appends \ {a}
    BY <1>3 DEF FilesAppended, ReturnAppend
  <2>2. g = settlement /\ UNCHANGED <<settlement, handling>>
    BY <1>1, <1>3 DEF InSession, FilesAppended, parserVars
  <2>3. \A b \in appends' : b.row.file # None /\ handling[b.row.file] = b.row
    BY <2>1, <2>2 DEF AppendsInv
  <2>. QED BY <2>1, <2>2, <2>3 DEF AppendsInv
<1>4. ASSUME NEW g \in Generations,
             \/ NextFile(g) \/ GivesUp(g) \/ FileBegun(g) \/ FileParsed(g) \/ FileDooms(g) \/ FileSkipped(g)
             \/ FileDiscarded(g) \/ Publish(g) \/ Published(g) \/ Failing(g) \/ Given(g)
      PROVE  AppendsInv'
  <2>1. pc[g] # "filing" /\ UNCHANGED <<appends, handling>>
    <3>1. CASE NextFile(g) \/ FileSkipped(g) \/ Publish(g) \/ Failing(g)
      BY <3>1 DEF NextFile, FileSkipped, Publish, Failing, CallBeginFile, CallDiscard, CallFinalize, CallAbort, parserVars
    <3>2. CASE GivesUp(g) \/ FileParsed(g) \/ FileDooms(g)
      BY <3>2 DEF GivesUp, FileParsed, FileDooms, parserVars, ingestVars, callVars
    <3>3. CASE FileBegun(g) \/ FileDiscarded(g) \/ Published(g) \/ Given(g)
      BY <3>3 DEF FileBegun, FileDiscarded, Published, Given, ReturnBeginFile, ReturnDiscard, ReturnFinalize, ReturnAbort,
         parserVars
    <3>. QED BY <1>4, <3>1, <3>2, <3>3
  <2>2. ~InStage("filing")
    BY <1>1, <1>4, <2>1 DEF InSession
  <2>. QED BY <2>1, <2>2 DEF AppendsInv
<1>5. ASSUME NEW g \in Generations, Begun(g)
      PROVE  AppendsInv'
  <2>1. ~InStage("filing") /\ UNCHANGED <<appends, handling>>
    BY <1>0, <1>5 DEF Begun, BeginIngest, OwnerInv, InStage, Busy, Stages, parserVars, callVars, ingestVars
  <2>. QED BY <2>1 DEF AppendsInv
<1>6. ASSUME UNCHANGED settlement, InStage("filing")' = InStage("filing"), UNCHANGED <<appends, handling>>
      PROVE  AppendsInv'
  BY <1>6 DEF AppendsInv, FilesRow, InStage
<1>7. ASSUME NEW f \in Files, BatchStarts(f), UNCHANGED settlement, InStage("filing")' = InStage("filing")
      PROVE  AppendsInv'
  <2>1. CASE IsCurrent(OwnerOf(f))
    <3>1. PICK r : handling' = [handling EXCEPT ![f] = r] /\ r = [file |-> f, n |-> made[f] - queued'[f]]
                   /\ \E t \in Tables \ {FilesTable} : CallAppend(t, r)
      BY <1>7, <2>1 DEF BatchStarts
    <3>2. r.file = f /\ f # None /\ \A a \in appends : a.row.file # f
      BY <1>0, <1>7, <3>1 DEF BatchStarts, MayStart, AppendsInv
    <3>3. \E x : appends' = appends \cup {x} /\ x.row = r
      <4>1. \E t, at : appends' = appends \cup {[table |-> t, row |-> r, at |-> at]}
        BY <3>1 DEF CallAppend
      <4>2. \A t, at : [table |-> t, row |-> r, at |-> at].row = r
        OBVIOUS
      <4>. QED BY <4>1, <4>2
    <3>4. handling'[f] = r /\ \A h \in Files \ {f} : handling'[h] = handling[h]
      BY <1>0, <3>1
    <3>5. \A a \in appends : a.row.file # None => a.row.file \in Files \ {f}
      BY <1>0, <3>2 DEF AppendCalls
    <3>6. \A a \in appends : a.row # r
      BY <3>2
    <3>7. \A a, b \in appends' : a.row = b.row => a = b
      BY <3>3, <3>6 DEF AppendsInv
    <3>8. \A a \in appends' : IF a.row.file = None THEN InStage("filing")' /\ a.row = FilesRow(settlement)'
                              ELSE handling'[a.row.file] = a.row
      BY <1>7, <3>2, <3>3, <3>4, <3>5 DEF AppendsInv, FilesRow
    <3>. QED BY <3>7, <3>8 DEF AppendsInv
  <2>2. CASE ~IsCurrent(OwnerOf(f))
    BY <1>6, <1>7, <2>2 DEF BatchStarts, ingestVars, callVars
  <2>. QED BY <2>1, <2>2
<1>8. ASSUME NEW f \in Files, BatchDone(f), UNCHANGED settlement, InStage("filing")' = InStage("filing")
      PROVE  AppendsInv'
  <2>1. PICK a \in appends : a.row = handling[f] /\ appends' = appends \ {a}
    BY <1>8 DEF BatchDone, ReturnAppend
  <2>2. handling'[f] = NoRow /\ \A h \in Files \ {f} : handling'[h] = handling[h]
    BY <1>0, <1>8 DEF BatchDone
  <2>3. \A b \in appends' : b.row.file # None => b.row.file \in Files /\ b.row.file # f
    <3>1. \A b \in appends' : b.row.file = f => b = a
      BY <1>0, <2>1 DEF AppendsInv
    <3>. QED BY <1>0, <2>1, <3>1 DEF AppendCalls
  <2>. QED BY <1>8, <2>1, <2>2, <2>3 DEF AppendsInv, FilesRow
<1>9. ASSUME NEW f \in Files, BatchArrives(f) \/ ParseEnds(f) \/ ParseSettles(f)
      PROVE  UNCHANGED <<appends, handling>>
  BY <1>9 DEF BatchArrives, ParseEnds, ParseSettles, ingestVars, callVars
<1>10. ASSUME UserStep \/ DisposeDatabase \/ Rest \/ UNCHANGED vars \/ \E g \in Generations : Outside(g)
       PROVE  UNCHANGED <<appends, handling>>
  <2>1. CASE UserStep \/ Rest \/ UNCHANGED vars
    BY <2>1 DEF UserStep, OpenBatch, Cancel, DisposeSession, CancelParse, Rest, vars, ingestVars, callVars, intakeVars, parserVars
  <2>2. CASE DisposeDatabase
    BY <2>2 DEF DisposeDatabase, Dispose, DisposeFinishes, intakeVars, parserVars, callVars
  <2>3. ASSUME NEW g \in Generations, Outside(g)
        PROVE  UNCHANGED <<appends, handling>>
    BY <2>3 DEF Outside, Planned, FamilyClosed, Claim, ingestVars, callVars, parserVars
  <2>. QED BY <1>10, <2>1, <2>2, <2>3
<1>11. ASSUME DatabaseStep, UNCHANGED settlement, InStage("filing")' = InStage("filing")
       PROVE  AppendsInv'
  <2>1. UNCHANGED handling
    BY <1>11 DEF DatabaseStep, intakeVars, parserVars
  <2>2. CASE RunAppend
    <3>1. \E how : Answered(how)
      BY <2>2 DEF RunAppend
    <3>2. \A b \in appends' : \E a \in appends : b.row = a.row /\ (b = a \/ b.row = Head(queue).row)
      BY <1>0, <3>1 DEF Answered, AppendCalls
    <3>3. \A b, c \in appends' : b.row = c.row => b = c
      BY <1>0, <3>1 DEF Answered, AppendsInv, AppendCalls
    <3>. QED BY <1>11, <2>1, <3>2, <3>3 DEF AppendsInv, FilesRow
  <2>3. CASE RunFlush \/ RunDiscard \/ RunResidual \/ RunCommit \/ RunDrop \/ SessionStep
    <3>1. UNCHANGED appends
      BY <2>3 DEF RunFlush, RunDiscard, RunResidual, RunCommit, RunDrop, SessionStep, DiscardForgets, FinalizeCommits,
         FinalizeSwaps
    <3>. QED BY <1>6, <1>11, <2>1, <3>1
  <2>. QED BY <1>11, <2>2, <2>3 DEF DatabaseStep, RunOperation
<1>a. ASSUME NEW g \in Generations, InSession(g)
      PROVE  AppendsInv'
  BY <1>a, <1>2, <1>3, <1>4 DEF InSession
<1>b. ASSUME \/ UserStep \/ \E g \in Generations : Outside(g)
             \/ \E f \in Files : ParserStep(f)
             \/ DatabaseStep \/ DisposeDatabase \/ Rest \/ UNCHANGED vars
      PROVE  AppendsInv'
  <2>1. UNCHANGED settlement /\ InStage("filing")' = InStage("filing")
    BY <1>b, ElsewhereSteps
  <2>2. ASSUME NEW f \in Files, ParserStep(f)
        PROVE  AppendsInv'
    BY <1>6, <1>7, <1>8, <1>9, <2>1, <2>2 DEF ParserStep
  <2>. QED BY <1>b, <1>6, <1>10, <1>11, <2>1, <2>2
<1>. QED BY <1>a, <1>b, <1>5 DEF Next, SystemStep, Coroutine, Outside, InSession, UserStep


-----------------------------------------------------------------------------
(* The parses.                                                              *)

\* The files of a later open come after those of an earlier one.
LEMMA LaterFiles ==
    ASSUME TypeOK, NEW s \in Generations, NEW g \in Generations, s < g
    PROVE  CurrentFile(s) \in Nat /\ CurrentFile(s) <= FileOf(g, 0) /\ FileOf(g, 0) \in Nat
<1>1. /\ s \in Nat /\ g \in Nat /\ s > 0 /\ FilesPerOpen \in Nat /\ fileAt[s] \in 0..FilesPerOpen
  BY IntakeAssumption, IngestAssumption DEF TypeOK, Generations
<1>2. \A a, b, k \in Nat : a <= b => a * k <= b * k
  OBVIOUS
<1>3. s * FilesPerOpen <= (g - 1) * FilesPerOpen
  BY <1>1, <1>2
<1>4. (s - 1) * FilesPerOpen + FilesPerOpen = s * FilesPerOpen
  BY <1>1
<1>5. \A a, b \in Nat : a * b \in Nat
  OBVIOUS
<1>6. (s - 1) * FilesPerOpen \in Nat /\ (g - 1) * FilesPerOpen \in Nat
  BY <1>1, <1>5
<1>. QED BY <1>1, <1>3, <1>4, <1>6 DEF CurrentFile, FileOf

LEMMA ParseKept ==
    ASSUME TypeOK, OwnerInv, CallInv, ParseInv, Next \/ UNCHANGED vars
    PROVE  ParseInv'
<1>0. /\ None \notin Generations /\ None \notin Files /\ Files \subseteq Nat /\ handling \in [Files -> Rows]
      /\ pc \in [Generations -> Waits] /\ settlement \in Generations \cup {None}
      /\ fileAt \in [Generations -> 0..FilesPerOpen] /\ active \in Files \cup {None}
      /\ made \in [Files -> 0..MaxBatches] /\ queued \in [Files -> 0..Window]
      /\ MaxBatches \in Nat /\ Window \in Nat
      /\ ending \in [Files -> {"none", "resolve", "reject"}]
      /\ outcome \in [Files -> {"none", "pending", "resolved", "error", "quota", "abort"}]
  BY IntakeAssumption DEF TypeOK, Generations, Files, None
<1>1. ASSUME NEW g \in Generations, InSession(g)
      PROVE  /\ g = settlement /\ settlement # None /\ pc' = [pc EXCEPT ![g] = pc'[g]] /\ UNCHANGED settlement
             /\ \A p : InStage(p)' <=> pc'[g] = p
             /\ \A p : InStage(p) <=> pc[g] = p
  <2>1. g = settlement /\ settlement # None /\ UNCHANGED settlement
    BY <1>0, <1>1, SessionSteps DEF OwnerInv
  <2>2. pc' = [pc EXCEPT ![g] = pc'[g]]
    BY <1>0, <1>1 DEF InSession, NextFile, AppendFiles, GivesUp, FileBegun, FileParsed, FileDooms, FileSkipped,
       FileDiscarded, FilesAppended, Publish, Published, Failing, Given, Goes, Fails
  <2>. QED BY <2>1, <2>2 DEF InStage
<1>2. \A g \in Generations : CurrentFile(g) \in Nat
  <2>1. \A a, b \in Nat : a * b \in Nat
    OBVIOUS
  <2>. SUFFICES ASSUME NEW g \in Generations PROVE CurrentFile(g) \in Nat
    OBVIOUS
  <2>2. g - 1 \in Nat /\ FilesPerOpen \in Nat /\ fileAt[g] \in Nat
    BY <1>0, IntakeAssumption DEF Generations
  <2>. QED BY <2>1, <2>2 DEF CurrentFile, FileOf
<1>3. ASSUME NEW g \in Generations, NextFile(g)
      PROVE  ParseInv'
  <2>1. /\ pc[g] = "loop" /\ pc'[g] = "beginning" /\ UNCHANGED parserVars
        /\ fileAt' = [fileAt EXCEPT ![g] = @ + 1] /\ MoreFiles(g)
    BY <1>0, <1>3 DEF NextFile, Goes
  <2>2. CurrentFile(g)' = FileOf(g, fileAt[g] + 1) /\ FileOf(g, fileAt[g] + 1) = CurrentFile(g) + 1
    <3>1. (g - 1) * FilesPerOpen \in Nat /\ fileAt[g] \in Nat
      <4>1. \A a, b \in Nat : a * b \in Nat
        OBVIOUS
      <4>. QED BY <1>0, <4>1, IntakeAssumption DEF Generations
    <3>. QED BY <1>0, <2>1, <3>1 DEF CurrentFile, FileOf
  <2>3. CurrentFile(g)' \in Files
    BY <2>1, <2>2 DEF MoreFiles, FilesOf
  <2>4. g = settlement /\ CurrentFile(settlement)' = CurrentFile(g)'
    BY <1>1, <1>3 DEF InSession, CurrentFile, FileOf
  <2>. HIDE DEF CurrentFile
  <2>. QED BY <1>0, <1>1, <1>2, <1>3, <2>1, <2>2, <2>3, <2>4 DEF ParseInv, InSession, parserVars
<1>4. ASSUME NEW g \in Generations, InSession(g), ~NextFile(g)
      PROVE  CurrentFile(settlement)' = CurrentFile(g)
  <2>1. UNCHANGED fileAt
    BY <1>4 DEF InSession, AppendFiles, GivesUp, FileBegun, FileParsed, FileDooms, FileSkipped, FileDiscarded,
       FilesAppended, Publish, Published, Failing, Given
  <2>. QED BY <1>1, <1>4, <2>1 DEF CurrentFile, FileOf
<1>5. ASSUME NEW g \in Generations, FileBegun(g)
      PROVE  ParseInv'
  <2>1. /\ pc[g] = "beginning" /\ g = settlement /\ UNCHANGED <<settlement, made, queued, handling, ending>>
        /\ CurrentFile(settlement)' = CurrentFile(g) /\ CurrentFile(g) \in Files
        /\ call.kind = "beginFile"
    BY <1>1, <1>4, <1>5 DEF InSession, FileBegun, ParseInv, ReturnBeginFile, NextFile
  <2>2. \A f \in Files : outcome[f] # "pending" /\ (outcome[f] # "none" => f < CurrentFile(g))
    BY <1>1, <1>5, <2>1 DEF ParseInv, InSession
  <2>3. active = None /\ outcome[CurrentFile(g)] = "none" /\ ending[CurrentFile(g)] = "none"
    BY <1>0, <1>2, <2>1, <2>2 DEF ParseInv
  <2>. HIDE DEF CurrentFile
  <2>4. CASE call.at = "ok"
    <3>1. pc'[g] = "parsing" /\ currentFile' = CurrentFile(g)
      BY <1>0, <1>5, <2>1, <2>4 DEF FileBegun, Goes, ReturnBeginFile, CallInv
    <3>2. /\ active' \in {None, CurrentFile(g)} /\ outcome'[CurrentFile(g)] \in {"pending", "error"}
          /\ active' # None => outcome'[CurrentFile(g)] = "pending"
          /\ \A f \in Files : f # CurrentFile(g) => outcome'[f] = outcome[f]
      BY <1>0, <1>5, <2>1, <2>3, <2>4 DEF FileBegun
    <3>. QED BY <1>0, <1>1, <1>2, <1>5, <2>1, <2>2, <2>3, <3>1, <3>2 DEF ParseInv, InSession
  <2>5. CASE call.at # "ok"
    <3>1. pc'[g] = "failing" /\ UNCHANGED parserVars
      BY <1>0, <1>5, <2>5 DEF FileBegun, Goes, Fails, parserVars
    <3>. QED BY <1>0, <1>1, <1>5, <2>1, <2>2, <3>1 DEF ParseInv, InSession, parserVars
  <2>. QED BY <2>4, <2>5
<1>6. ASSUME NEW g \in Generations,
             \/ AppendFiles(g) \/ GivesUp(g) \/ FileParsed(g) \/ FileDooms(g) \/ FileSkipped(g) \/ FileDiscarded(g)
             \/ FilesAppended(g) \/ Publish(g) \/ Published(g) \/ Failing(g) \/ Given(g)
      PROVE  ParseInv'
  <2>1. InSession(g) /\ pc'[g] \notin {"beginning", "parsing"} /\ UNCHANGED parserVars /\ ~NextFile(g)
        /\ (pc'[g] = "discarding" => pc[g] = "parsing") /\ (pc[g] = "parsing" => outcome[CurrentFile(g)] # "pending")
    <3>1. CASE AppendFiles(g) \/ GivesUp(g) \/ FileParsed(g) \/ FileDooms(g) \/ FileSkipped(g)
      BY <1>0, <3>1 DEF InSession, NextFile, AppendFiles, GivesUp, FileParsed, FileDooms, FileSkipped, Goes, Fails
    <3>2. CASE FileDiscarded(g) \/ FilesAppended(g) \/ Publish(g) \/ Published(g) \/ Failing(g) \/ Given(g)
      BY <1>0, <3>2 DEF InSession, NextFile, FileDiscarded, FilesAppended, Publish, Published, Failing, Given, Goes, Fails
    <3>. QED BY <1>6, <3>1, <3>2
  <2>2. \A f \in Files : outcome[f] # "pending"
    BY <1>1, <2>1 DEF ParseInv
  <2>. HIDE DEF CurrentFile
  <2>3. g = settlement /\ UNCHANGED settlement /\ CurrentFile(settlement)' = CurrentFile(g)
    BY <1>1, <1>4, <2>1
  <2>. QED BY <1>0, <1>1, <2>1, <2>2, <2>3 DEF ParseInv, parserVars
<1>7. ASSUME NEW g \in Generations, Begun(g)
      PROVE  ParseInv'
  <2>1. /\ pc[g] = "starting" /\ starting = g /\ fileAt[g] = 0 /\ ~Busy /\ settlement < g /\ UNCHANGED <<fileAt, parserVars>>
        /\ pc' = [pc EXCEPT ![g] = pc'[g]]
        /\ \/ settlement' = g /\ pc'[g] = "loop"
           \/ UNCHANGED settlement /\ pc'[g] = "done"
    BY <1>0, <1>7 DEF Begun, OwnerInv, Goes, Begins
  <2>2. \A f \in Files : outcome[f] # "pending"
    BY <2>1 DEF ParseInv, InStage, Busy, Stages
  <2>3. /\ ~InStage("parsing")' /\ ~InStage("beginning")' /\ ~InStage("discarding")'
        /\ settlement # None => settlement' # None /\ CurrentFile(settlement) <= CurrentFile(settlement)'
    <3>1. settlement # None => CurrentFile(settlement) <= FileOf(g, 0) /\ CurrentFile(settlement) \in Nat
      BY <1>0, <2>1, LaterFiles
    <3>2. CurrentFile(g)' = FileOf(g, 0) /\ (UNCHANGED settlement => CurrentFile(settlement)' = CurrentFile(settlement))
      BY <2>1 DEF CurrentFile, FileOf
    <3>3. settlement' = g => CurrentFile(settlement)' = CurrentFile(g)'
      BY DEF CurrentFile
    <3>4. ~InStage("parsing")' /\ ~InStage("beginning")' /\ ~InStage("discarding")'
      BY <1>0, <2>1 DEF InStage, Busy, Stages
    <3>. HIDE DEF CurrentFile
    <3>. QED BY <1>0, <2>1, <3>1, <3>2, <3>3, <3>4
  <2>4. \A f \in Files : outcome[f] # "none" => settlement' # None /\ f <= CurrentFile(settlement)'
    <3>1. /\ settlement # None => CurrentFile(settlement) \in Nat
          /\ settlement' # None => CurrentFile(settlement)' \in Nat
      <4>1. settlement' # None => settlement' \in Generations /\ CurrentFile(settlement)' = CurrentFile(settlement')
        BY <1>0, <2>1 DEF CurrentFile, FileOf
      <4>. HIDE DEF CurrentFile
      <4>. QED BY <1>0, <1>2, <4>1
    <3>. HIDE DEF CurrentFile
    <3>. QED BY <1>0, <2>3, <3>1 DEF ParseInv
  <2>. HIDE DEF CurrentFile
  <2>. QED BY <1>0, <2>1, <2>2, <2>3, <2>4 DEF ParseInv, parserVars
<1>. DEFINE Still == /\ UNCHANGED <<settlement, currentFile>> /\ \A p : InStage(p)' = InStage(p)
                     /\ settlement # None => CurrentFile(settlement)' = CurrentFile(settlement)
<1>8. ASSUME Still
       PROVE  /\ InStage("parsing")' => currentFile' = CurrentFile(settlement)'
              /\ InStage("beginning")' \/ InStage("parsing")' \/ InStage("discarding")' =>
                    CurrentFile(settlement)' \in Files'
              /\ \A f \in Files :
                    /\ outcome[f] = "pending" => InStage("parsing")' /\ f = CurrentFile(settlement)'
                    /\ outcome[f] # "none" =>
                          /\ settlement' # None /\ f <= CurrentFile(settlement)'
                          /\ InStage("beginning")' => f < CurrentFile(settlement)'
  BY <1>8 DEF ParseInv, InStage, Files
<1>9. ASSUME Still, UNCHANGED <<active, outcome>> \/ CancelParse, UNCHANGED <<made, queued, handling, ending>>
      PROVE  ParseInv'
  <2>1. \A f \in Files : /\ outcome'[f] # outcome[f] => outcome[f] = "pending" /\ outcome'[f] = "abort"
                         /\ active' = f => active = f
    BY <1>0, <1>9 DEF CancelParse, ParseInv
  <2>2. active' # None => outcome'[active'] = "pending"
    BY <1>0, <1>9 DEF CancelParse, ParseInv
  <2>3. ASSUME NEW f \in Files
        PROVE  /\ outcome'[f] \in {"none", "resolved"} => handling'[f] = NoRow /\ queued'[f] = 0
               /\ ending'[f] # "none" => active' # f /\ outcome'[f] # "none"
               /\ queued'[f] <= made'[f]
    BY <1>0, <1>9, <2>1 DEF ParseInv
  <2>. QED BY <1>0, <1>8, <1>9, <2>1, <2>2, <2>3 DEF ParseInv
<1>10. ASSUME NEW f \in Files, ParserStep(f), Still
      PROVE  ParseInv'
  <2>1. CASE BatchArrives(f) \/ ParseEnds(f)
    BY <1>0, <1>10, <2>1 DEF BatchArrives, ParseEnds, ParseInv
  <2>2. CASE BatchStarts(f)
    <3>1. /\ queued' = [queued EXCEPT ![f] = @ - 1] /\ queued[f] > 0 /\ UNCHANGED <<active, made, ending, outcome>>
          /\ \A h \in Files \ {f} : handling'[h] = handling[h]
      BY <1>0, <2>2 DEF BatchStarts, MayStart
    <3>. QED BY <1>0, <1>10, <3>1 DEF ParseInv
  <2>3. CASE BatchDone(f)
    <3>1. PICK a \in appends : /\ a.row = handling[f] /\ ReturnAppend(a)
                               /\ IF a.at = "ok" THEN UNCHANGED <<outcome, active>>
                                  ELSE /\ outcome' = SettledAs(f, a.at)
                                       /\ active' = IF active = f THEN None ELSE active
      BY <2>3 DEF BatchDone
    <3>2. a.at \in {"ok", "error", "quota"}
      BY <3>1 DEF ReturnAppend, Outstanding, TypeOK, SessionTypeOK, AppendCalls, Outcomes
    <3>3. /\ handling' = [handling EXCEPT ![f] = NoRow] /\ UNCHANGED <<made, queued, ending>>
          /\ \A h \in Files \ {f} : outcome'[h] = outcome[h]
          /\ outcome'[f] # outcome[f] => outcome[f] = "pending" /\ outcome'[f] \in {"error", "quota"} /\ active' # f
          /\ active' \in {active, None}
      BY <1>0, <2>3, <3>1, <3>2 DEF BatchDone, SettledAs
    <3>4. ASSUME NEW h \in Files
          PROVE  /\ outcome'[h] \in {"none", "resolved"} => handling'[h] = NoRow /\ queued'[h] = 0
                 /\ ending'[h] # "none" => active' # h /\ outcome'[h] # "none"
                 /\ queued'[h] <= made'[h]
      BY <1>0, <3>3 DEF ParseInv
    <3>5. /\ active' # None => outcome'[active'] = "pending"
          /\ \A h \in Files : outcome'[h] # outcome[h] => outcome[h] = "pending" /\ outcome'[h] # "pending"
      BY <1>0, <3>3 DEF ParseInv
    <3>. QED BY <1>0, <1>8, <1>10, <3>4, <3>5 DEF ParseInv
  <2>4. CASE ParseSettles(f)
    <3>1. /\ ending[f] # "none" /\ queued[f] = 0 /\ handling[f] = NoRow /\ ending' = [ending EXCEPT ![f] = "none"]
          /\ UNCHANGED <<active, made, queued, handling>>
          /\ \A h \in Files \ {f} : outcome'[h] = outcome[h]
          /\ outcome'[f] # outcome[f] => outcome[f] = "pending" /\ outcome'[f] \in {"resolved", "error"}
      BY <1>0, <2>4 DEF ParseSettles, MaySettle, SettledAs
    <3>2. active # f
      BY <3>1 DEF ParseInv
    <3>. QED BY <1>0, <1>10, <3>1, <3>2 DEF ParseInv
  <2>. QED BY <1>10, <2>1, <2>2, <2>3, <2>4 DEF ParserStep
<1>11. ASSUME \/ UserStep \/ \E g \in Generations : Outside(g)
              \/ \E f \in Files : ParserStep(f)
              \/ DatabaseStep \/ DisposeDatabase \/ Rest \/ UNCHANGED vars
       PROVE  ParseInv'
  <2>1. UNCHANGED currentFile
    <3>1. CASE UserStep \/ (\E g \in Generations : Outside(g)) \/ Rest \/ UNCHANGED vars
      BY <3>1 DEF UserStep, OpenBatch, Cancel, DisposeSession, Outside, Planned, FamilyClosed, Claim, Rest, vars,
         ingestVars, fileVars
    <3>2. ASSUME NEW f \in Files, ParserStep(f)
          PROVE  UNCHANGED currentFile
      BY <3>2 DEF ParserStep, BatchArrives, ParseEnds, BatchStarts, BatchDone, ParseSettles, CallAppend, ReturnAppend,
         ingestVars, fileVars
    <3>3. CASE DisposeDatabase
      BY <3>3 DEF DisposeDatabase, Dispose, DisposeFinishes, sessionVars, fileVars
    <3>4. CASE DatabaseStep
      BY <3>4 DEF DatabaseStep, RunOperation, RunAppend, RunFlush, RunDiscard, RunResidual, RunCommit, RunDrop,
         SessionStep, DiscardForgets, FinalizeCommits, FinalizeSwaps, fileVars
    <3>. QED BY <1>11, <3>1, <3>2, <3>3, <3>4
  <2>2. Still
    BY <1>11, <2>1, ElsewhereSteps
  <2>3. ASSUME UserStep \/ (\E g \in Generations : Outside(g)) \/ DatabaseStep \/ DisposeDatabase \/ Rest \/ UNCHANGED vars
        PROVE  (UNCHANGED <<active, outcome>> \/ CancelParse) /\ UNCHANGED <<made, queued, handling, ending>>
    <3>1. CASE UserStep
      BY <3>1 DEF UserStep, OpenBatch, Cancel, DisposeSession, CancelParse
    <3>2. CASE (\E g \in Generations : Outside(g)) \/ DatabaseStep \/ DisposeDatabase \/ Rest \/ UNCHANGED vars
      BY <3>2 DEF Outside, Planned, FamilyClosed, Claim, DatabaseStep, DisposeDatabase, Rest, vars, intakeVars, parserVars
    <3>. QED BY <2>3, <3>1, <3>2
  <2>. HIDE DEF Still
  <2>. QED BY <1>9, <1>10, <1>11, <2>2, <2>3
<1>. QED BY <1>3, <1>5, <1>6, <1>7, <1>11 DEF Next, SystemStep, Coroutine, Outside, InSession, UserStep


-----------------------------------------------------------------------------
(* The types.                                                               *)

StoreTypes ==
    /\ storeGen \in Generations \cup {None} /\ disposed \in BOOLEAN
    /\ phase \in {"idle", "opening", "parsing", "ready", "failed"}
    /\ shown \in Generations \cup {None}

OpenTypes ==
    /\ pc \in [Generations -> Waits]
    /\ fileAt \in [Generations -> 0..FilesPerOpen]
    /\ good \in [Generations -> SUBSET Files] /\ skipped \in [Generations -> SUBSET Files]
    /\ failure \in [Generations -> Causes]
    /\ waitsFor \in [Generations -> Generations \cup {None}]
    /\ settlement \in Generations \cup {None} /\ starting \in Generations \cup {None}

ParserTypes ==
    /\ active \in Files \cup {None}
    /\ made \in [Files -> 0..MaxBatches] /\ queued \in [Files -> 0..Window]
    /\ handling \in [Files -> Rows]
    /\ ending \in [Files -> {"none", "resolve", "reject"}]
    /\ outcome \in [Files -> {"none", "pending", "resolved", "error", "quota", "abort"}]

\* An operation that is queued is that of an ingest.
LEMMA RunsOfAnIngest ==
    ASSUME TypeOK, ControlInv, RunOperation
    PROVE  generation # None
<1>1. queue # << >>
  BY DEF RunOperation, RunAppend, RunFlush, RunDiscard, RunResidual, RunCommit, RunDrop, Running
<1>2. 1 \in 1..Len(queue)
  BY <1>1 DEF TypeOK, SessionTypeOK
<1>3. CASE queue[1].op = "append"
  <2>1. PICK a \in appends : a.row = queue[1].row
    BY <1>2, <1>3 DEF ControlInv, QueueInv
  <2>2. CASE a.row.file = None
    BY <2>1, <2>2 DEF ControlInv, AppendsInv, InStage, OwnerInv
  <2>3. CASE a.row.file # None
    <3>1. a.row.file \in Files /\ handling[a.row.file] = a.row /\ a.row # NoRow
      <4>1. a.row \in Rows
        BY DEF TypeOK, SessionTypeOK, AppendCalls
      <4>2. a.row.file \in Files /\ a.row # NoRow
        BY <2>3, <4>1 DEF Rows, NoRow
      <4>. QED BY <2>3, <4>2 DEF ControlInv, AppendsInv
    <3>. QED BY <3>1 DEF ControlInv, ParseInv, OwnerInv
  <2>. QED BY <2>2, <2>3
<1>4. CASE queue[1].op # "append"
  <2>1. call.kind \in {"beginFile", "discard", "flushing", "finalize", "abort"}
    BY <1>2, <1>4 DEF ControlInv, QueueInv, OpOf
  <2>. QED BY <2>1 DEF ControlInv, CallInv, OwnerInv, InStage
<1>. QED BY <1>3, <1>4

LEMMA SessionTypeKept ==
    ASSUME TypeOK, ControlInv, Next \/ UNCHANGED vars
    PROVE  SessionTypeOK'
<1>0. SessionTypeOK
  BY DEF TypeOK
<1>1. ASSUME UNCHANGED ingestVars
      PROVE  SessionTypeOK'
  BY <1>0, <1>1 DEF SessionTypeOK, ingestVars, databaseVars, catalogVars, storeVars, tableVars, fileVars, callVars
<1>2. ASSUME UserStep \/ Rest \/ UNCHANGED vars \/ \E g \in Generations : Outside(g) \/ GivesUp(g) \/ FileParsed(g) \/ FileDooms(g)
      PROVE  UNCHANGED ingestVars
  BY <1>2 DEF UserStep, OpenBatch, Cancel, DisposeSession, Rest, vars, Outside, Planned, FamilyClosed, Claim, GivesUp,
     FileParsed, FileDooms
<1>3. ASSUME NEW g \in Generations, Begun(g)
      PROVE  SessionTypeOK'
  BY <1>0, <1>1, <1>3, BeginKeepsTypes, IntakeAssumption DEF Begun
<1>4. ASSUME NEW g \in Generations, NextFile(g) \/ AppendFiles(g) \/ FileSkipped(g) \/ Publish(g) \/ Failing(g)
      PROVE  SessionTypeOK'
  <2>1. /\ NextFile(g) => \E f \in Files : CallBeginFile(f)
        /\ AppendFiles(g) => CallAppend(FilesTable, FilesRow(g))
        /\ FileSkipped(g) \/ Publish(g) \/ Failing(g) => CallDiscard \/ CallFinalize \/ CallAbort
    BY DEF NextFile, AppendFiles, FileSkipped, Publish, Failing, MoreFiles, FilesOf
  <2>2. FilesRow(g) \in Rows /\ FilesTable \in Tables
    BY IntakeAssumption, IngestAssumption DEF Generations, FilesRow, Rows
  <2>. QED BY <1>0, <1>4, <2>1, <2>2, CallsKeepTypes
<1>5. ASSUME NEW g \in Generations, FileBegun(g) \/ FileDiscarded(g) \/ FilesAppended(g) \/ Published(g) \/ Given(g)
      PROVE  SessionTypeOK'
  BY <1>0, <1>5, ReturnsKeepTypes DEF FileBegun, FileDiscarded, FilesAppended, Published, Given
<1>6. ASSUME NEW f \in Files, ParserStep(f)
      PROVE  SessionTypeOK'
  <2>1. CASE BatchStarts(f)
    <3>1. UNCHANGED ingestVars \/ \E t \in Tables : CallAppend(t, [file |-> f, n |-> made[f] - queued'[f]])
      BY <2>1 DEF BatchStarts
    <3>. QED BY <1>0, <1>1, <2>1, <3>1, BatchRow, CallsKeepTypes DEF ControlInv
  <2>2. CASE BatchDone(f)
    BY <1>0, <2>2, ReturnsKeepTypes DEF BatchDone
  <2>3. CASE BatchArrives(f) \/ ParseEnds(f) \/ ParseSettles(f)
    BY <1>1, <2>3 DEF BatchArrives, ParseEnds, ParseSettles
  <2>. QED BY <1>6, <2>1, <2>2, <2>3 DEF ParserStep
<1>7. CASE DatabaseStep \/ DisposeDatabase
  BY <1>0, <1>7, RunsOfAnIngest, OperationsKeepTypes, StepsKeepTypes DEF DatabaseStep, DisposeDatabase
<1>. QED BY <1>1, <1>2, <1>3, <1>4, <1>5, <1>6, <1>7 DEF Next, SystemStep, Coroutine, Outside, UserStep

\* A parser step leaves the open, an open's step but FileBegun the parser.
LEMMA ParserTypesKept ==
    ASSUME TypeOK, ControlInv, Next \/ UNCHANGED vars
    PROVE  ParserTypes'
<1>. USE DEF ParserTypes
<1>0. /\ active \in Files \cup {None} /\ handling \in [Files -> Rows]
      /\ made \in [Files -> 0..MaxBatches] /\ queued \in [Files -> 0..Window]
      /\ MaxBatches \in Nat /\ Window \in Nat /\ NoRow \in Rows
      /\ ending \in [Files -> {"none", "resolve", "reject"}]
      /\ outcome \in [Files -> {"none", "pending", "resolved", "error", "quota", "abort"}]
  BY IntakeAssumption, IngestAssumption DEF TypeOK, NoRow, Rows
<1>1. CASE UserStep
  BY <1>0, <1>1 DEF UserStep, OpenBatch, Cancel, DisposeSession, CancelParse
<1>2. ASSUME NEW g \in Generations, FileBegun(g)
      PROVE  ParserTypes'
  <2>1. CurrentFile(g) \in Files
    BY <1>2 DEF FileBegun, ControlInv, ParseInv, OwnerInv, InStage, Stages, Generations, None
  <2>. HIDE DEF CurrentFile
  <2>. QED BY <1>0, <1>2, <2>1 DEF FileBegun
<1>3. ASSUME NEW g \in Generations, Coroutine(g), ~FileBegun(g)
      PROVE  UNCHANGED parserVars
  BY <1>3 DEF Coroutine, Planned, FamilyClosed, Claim, Begun, NextFile, AppendFiles, GivesUp, FileParsed,
         FileDooms, FileSkipped, FileDiscarded, FilesAppended, Publish, Published, Failing, Given
<1>4. ASSUME NEW f \in Files, ParserStep(f)
      PROVE  ParserTypes'
  <2>1. CASE BatchArrives(f)
    <3>1. made[f] < MaxBatches /\ queued[f] < Window
      BY <1>0, <2>1 DEF BatchArrives, HasCredit
    <3>. QED BY <1>0, <2>1, <3>1 DEF BatchArrives
  <2>2. CASE ParseEnds(f)
    BY <1>0, <2>2 DEF ParseEnds
  <2>3. CASE BatchStarts(f)
    <3>1. /\ queued' = [queued EXCEPT ![f] = @ - 1] /\ queued[f] > 0
          /\ [file |-> f, n |-> made[f] - queued'[f]] \in Rows
      BY <2>3, BatchRow DEF ControlInv
    <3>. QED BY <1>0, <2>3, <3>1 DEF BatchStarts
  <2>4. CASE BatchDone(f)
    <3>1. \E at \in {"ok", "error", "quota"} :
             IF at = "ok" THEN UNCHANGED <<outcome, active>>
             ELSE outcome' = SettledAs(f, at) /\ active' = IF active = f THEN None ELSE active
      BY <2>4 DEF BatchDone, ReturnAppend, Outstanding, TypeOK, SessionTypeOK, AppendCalls, Outcomes
    <3>. QED BY <1>0, <2>4, <3>1 DEF BatchDone, SettledAs
  <2>5. CASE ParseSettles(f)
    BY <1>0, <2>5 DEF ParseSettles, SettledAs
  <2>. QED BY <1>4, <2>1, <2>2, <2>3, <2>4, <2>5 DEF ParserStep
<1>5. CASE UNCHANGED parserVars
  BY <1>0, <1>5 DEF parserVars
<1>6. CASE DatabaseStep \/ DisposeDatabase \/ Rest \/ UNCHANGED vars
  BY <1>5, <1>6 DEF DatabaseStep, DisposeDatabase, Rest, vars, intakeVars
<1>. QED BY <1>1, <1>2, <1>3, <1>4, <1>5, <1>6 DEF Next, SystemStep, UserStep

LEMMA OpenTypesKept ==
    ASSUME TypeOK, ControlInv, Next \/ UNCHANGED vars
    PROVE  StoreTypes' /\ OpenTypes'
<1>. USE DEF StoreTypes, OpenTypes
<1>0. StoreTypes /\ OpenTypes /\ None \notin Generations
  BY DEF TypeOK, Generations, None
<1>1. ASSUME UNCHANGED <<storeGenVars, coroutineVars, sharedVars>>
      PROVE  StoreTypes' /\ OpenTypes'
  BY <1>0, <1>1 DEF storeGenVars, coroutineVars, sharedVars
<1>2. CASE UserStep
  <2>1. storeGen' \in Generations \cup {None}
    BY <1>0, <1>2, IngestAssumption DEF UserStep, OpenBatch, Cancel, DisposeSession, Generations, None
  <2>. HIDE DEF Generations
  <2>. QED BY <1>0, <1>2, <2>1 DEF UserStep, OpenBatch, Cancel, DisposeSession, coroutineVars, sharedVars, Waits
<1>3. \A g \in Generations, p \in {"idle", "opening", "ready", "failed"} : Dispatches(g, p) => StoreTypes'
  BY <1>0 DEF Dispatches
<1>4. \A g \in Generations, p \in Waits : Goes(g, p) => pc' \in [Generations -> Waits]
  BY <1>0 DEF Goes
<1>5. \A g \in Generations, why \in Causes : Fails(g, why) => pc' \in [Generations -> Waits] /\ failure' \in [Generations -> Causes]
  BY <1>0 DEF Fails, Goes, Waits
<1>6. ASSUME NEW g \in Generations, Outside(g) \/ Begun(g)
      PROVE  StoreTypes' /\ OpenTypes'
  <2>1. pc' \in [Generations -> Waits]
    BY <1>4, <1>6 DEF Outside, Planned, FamilyClosed, Claim, Begun, Waits
  <2>2. StoreTypes'
    BY <1>0, <1>3, <1>6 DEF Outside, Planned, FamilyClosed, Claim, Begun, storeGenVars
  <2>3. UNCHANGED <<fileAt, good, skipped, failure>>
    BY <1>6 DEF Outside, Planned, FamilyClosed, Claim, Begun
  <2>4. /\ waitsFor' \in [Generations -> Generations \cup {None}]
        /\ settlement' \in Generations \cup {None} /\ starting' \in Generations \cup {None}
    BY <1>0, <1>6 DEF Outside, Planned, FamilyClosed, Claim, Begun, sharedVars
  <2>. QED BY <1>0, <2>1, <2>2, <2>3, <2>4
<1>7. ASSUME NEW g \in Generations, InSession(g)
      PROVE  /\ g = settlement /\ UNCHANGED <<waitsFor, settlement, starting>>
             /\ \A p : InStage(p) <=> pc[g] = p
  BY <1>0, <1>7, SessionSteps DEF ControlInv, OwnerInv, InStage
<1>8. ASSUME NEW g \in Generations, NextFile(g)
      PROVE  StoreTypes' /\ OpenTypes'
  <2>1. fileAt[g] + 1 \in 0..FilesPerOpen
    <3>1. /\ FilesPerOpen \in Nat /\ (g - 1) * FilesPerOpen \in Nat /\ fileAt[g] \in Nat
      <4>1. \A a, b \in Nat : a * b \in Nat
        OBVIOUS
      <4>. QED BY <1>0, <4>1, IntakeAssumption DEF Generations
    <3>2. PICK i \in 1..FilesPerOpen : FileOf(g, fileAt[g] + 1) = FileOf(g, i)
      BY <1>8 DEF NextFile, MoreFiles, FilesOf
    <3>. QED BY <3>1, <3>2 DEF FileOf
  <2>2. UNCHANGED <<storeGenVars, good, skipped, failure, waitsFor, sharedVars>>
        /\ fileAt' = [fileAt EXCEPT ![g] = fileAt[g] + 1] /\ Goes(g, "beginning")
    BY <1>8 DEF NextFile
  <2>3. pc' \in [Generations -> Waits]
    BY <1>4, <2>2 DEF Waits
  <2>4. fileAt' \in [Generations -> 0..FilesPerOpen]
    BY <1>0, <2>1, <2>2
  <2>. QED BY <1>0, <2>2, <2>3, <2>4 DEF storeGenVars, sharedVars
<1>9. ASSUME NEW g \in Generations,
             AppendFiles(g) \/ GivesUp(g) \/ FileDooms(g) \/ FileSkipped(g) \/ FilesAppended(g) \/ FileBegun(g)
             \/ Publish(g) \/ Failing(g)
      PROVE  StoreTypes' /\ OpenTypes'
  <2>1. pc' \in [Generations -> Waits] /\ failure' \in [Generations -> Causes]
    <3>1. CASE AppendFiles(g) \/ GivesUp(g) \/ FileDooms(g) \/ FileSkipped(g) \/ Publish(g) \/ Failing(g)
      BY <1>0, <1>4, <1>5, <3>1 DEF AppendFiles, GivesUp, FileDooms, FileSkipped, Publish, Failing, Waits, Causes
    <3>2. CASE FilesAppended(g)
      <4>1. \E a \in appends : /\ a.at \in {"ok", "error", "quota"}
                               /\ IF a.at = "ok" THEN Goes(g, "publish") /\ UNCHANGED failure ELSE Fails(g, a.at)
        BY <3>2 DEF FilesAppended, ReturnAppend, Outstanding, TypeOK, SessionTypeOK, AppendCalls, Outcomes
      <4>. QED BY <1>0, <1>4, <1>5, <4>1 DEF Waits, Causes
    <3>3. CASE FileBegun(g)
      <4>1. call.at \in {"ok", "error", "quota"}
        BY <3>3 DEF FileBegun, ReturnBeginFile, ControlInv, CallInv, Outcomes
      <4>. QED BY <1>0, <1>4, <1>5, <3>3, <4>1 DEF FileBegun, Waits, Causes
    <3>. QED BY <1>9, <3>1, <3>2, <3>3
  <2>2. UNCHANGED <<storeGenVars, fileAt, good, skipped, waitsFor, sharedVars>>
    BY <1>9 DEF AppendFiles, GivesUp, FileDooms, FileSkipped, FilesAppended, FileBegun, Publish, Failing
  <2>. QED BY <1>0, <2>1, <2>2 DEF storeGenVars, sharedVars
<1>10. ASSUME NEW g \in Generations, FileParsed(g) \/ FileDiscarded(g)
       PROVE  StoreTypes' /\ OpenTypes'
  <2>1. CurrentFile(g) \in Files
    BY <1>7, <1>10 DEF InSession, FileParsed, FileDiscarded, ControlInv, ParseInv
  <2>2. pc' \in [Generations -> Waits] /\ failure' \in [Generations -> Causes]
    BY <1>0, <1>4, <1>5, <1>10 DEF FileParsed, FileDiscarded, Waits, Causes
  <2>3. good' \in [Generations -> SUBSET Files] /\ skipped' \in [Generations -> SUBSET Files]
    BY <1>0, <1>10, <2>1 DEF FileParsed, FileDiscarded
  <2>4. UNCHANGED <<storeGenVars, fileAt, waitsFor, sharedVars>>
    BY <1>10 DEF FileParsed, FileDiscarded
  <2>. QED BY <1>0, <2>2, <2>3, <2>4 DEF storeGenVars, sharedVars
<1>11. ASSUME NEW g \in Generations, Published(g) \/ Given(g)
       PROVE  StoreTypes' /\ OpenTypes'
  <2>1. pc' \in [Generations -> Waits] /\ failure' \in [Generations -> Causes]
    BY <1>0, <1>4, <1>5, <1>11 DEF Published, Given, Waits, Causes
  <2>2. StoreTypes'
    BY <1>0, <1>3, <1>11 DEF Published, Given, storeGenVars
  <2>3. UNCHANGED <<fileAt, good, skipped, waitsFor, sharedVars>>
    BY <1>11 DEF Published, Given
  <2>. QED BY <1>0, <2>1, <2>2, <2>3 DEF sharedVars
<1>12. ASSUME NEW f \in Files, ParserStep(f)
       PROVE  StoreTypes' /\ OpenTypes'
  BY <1>0, <1>12 DEF ParserStep, BatchArrives, ParseEnds, BatchStarts, BatchDone, ParseSettles, storeGenVars,
     coroutineVars, sharedVars
<1>13. CASE DatabaseStep \/ DisposeDatabase \/ Rest \/ UNCHANGED vars
  BY <1>1, <1>13 DEF DatabaseStep, DisposeDatabase, Rest, vars, intakeVars
<1>. QED BY <1>2, <1>6, <1>8, <1>9, <1>10, <1>11, <1>12, <1>13 DEF Next, SystemStep, Coroutine, Outside, UserStep

LEMMA TypeKept ==
    ASSUME TypeOK, ControlInv, Next \/ UNCHANGED vars
    PROVE  TypeOK'
BY SessionTypeKept, ParserTypesKept, OpenTypesKept DEF TypeOK, StoreTypes, OpenTypes, ParserTypes


-----------------------------------------------------------------------------
(* The staging tables.                                                       *)

\* What a rotation leaves staged, and the chunks it writes.
LEMMA Rotated ==
    ASSUME NEW due, NEW staged, NEW bytes, NEW aborts, NEW how, RotateOrAbort(due, staged, bytes, aborts, how)
    PROVE  /\ staging' = [t \in Tables |-> staging'[t]]
           /\ \A t \in Tables : /\ staging'[t] \subseteq staged[t] /\ stagedBytes'[t] \in {0, bytes[t]}
                                /\ staging'[t] # {} => stagedBytes'[t] = bytes[t]
                                /\ t \notin due => stagedBytes'[t] = bytes[t]
                                /\ how = "ok" /\ t \in due => staging'[t] = {}
           /\ \A p \in DOMAIN opfs' : \/ p \in DOMAIN opfs /\ opfs'[p] = opfs[p]
                                      \/ \E t \in due : opfs'[p] = staged[t]
           /\ state' = state \/ (state' = "aborted" /\ staging' = Empty)
<1>1. PICK done \in SUBSET due, copied \in SUBSET due :
         /\ done = due <=> how = "ok"
         /\ Rotate(done, copied, staged, bytes)
         /\ IF how = "quota" /\ aborts
            THEN state' = "aborted" /\ DropStaging
            ELSE UNCHANGED state /\ staging' = Emptied(done, staged)
  BY Zenon DEF RotateOrAbort
<1>2. /\ staging' = [t \in Tables |-> staging'[t]]
      /\ \A t \in Tables : /\ staging'[t] \subseteq staged[t]
                           /\ t \in done => staging'[t] = {}
      /\ state' = state \/ (state' = "aborted" /\ staging' = Empty)
      /\ staging' = Empty \/ \A t \in Tables \ done : staging'[t] = staged[t]
  BY <1>1 DEF Emptied, DropStaging, Empty
<1>3. \A t \in Tables : stagedBytes'[t] = IF t \in done THEN 0 ELSE bytes[t]
  BY <1>1 DEF Rotate
<1>4. \A p \in DOMAIN opfs' : \/ p \in DOMAIN opfs /\ opfs'[p] = opfs[p]
                              \/ \E t \in due : opfs'[p] = staged[t]
  <2>1. \A t : NextPath(t)[2] = t
    BY DEF NextPath
  <2>. QED BY <1>1, <2>1 DEF Rotate
<1>5. ASSUME NEW t \in Tables
      PROVE  /\ stagedBytes'[t] \in {0, bytes[t]}
             /\ staging'[t] # {} => stagedBytes'[t] = bytes[t]
             /\ t \notin due => stagedBytes'[t] = bytes[t]
             /\ how = "ok" /\ t \in due => staging'[t] = {}
  BY <1>1, <1>2, <1>3
<1>. QED BY <1>2, <1>4, <1>5

\* A row that is intact was so.
LEMMA IntactWas ==
    ASSUME TypeOK, OwnerInv, ParseInv, Next \/ UNCHANGED vars
    PROVE  \A r \in Rows : ~Failed(r.file)' => ~Failed(r.file)
<1>. SUFFICES ASSUME NEW r \in Rows, Failed(r.file) PROVE Failed(r.file)'
  OBVIOUS
<1>1. r.file \in Files
  BY DEF Rows, Failed
<1>. QED BY <1>1, FailedStays

\* Outside of an ingest nothing is staged.
LEMMA NothingStaged ==
    ASSUME TypeOK, ControlInv, StagingInv, dispose = "no", ~Busy
    PROVE  staging = Empty
BY DEF ControlInv, CallInv, StateInv, StagingInv, InStage, Busy, Stages

LEMMA StagingKept ==
    ASSUME TypeOK, ControlInv, StagingInv, Next \/ UNCHANGED vars
    PROVE  StagingInv'
<1>. USE CallFields
<1>0. /\ pc \in [Generations -> Waits] /\ settlement \in Generations \cup {None} /\ None \notin Generations
      /\ staging \in [Tables -> SUBSET Rows] /\ stagedBytes \in [Tables -> Nat] /\ SessionTypeOK
      /\ CallInv /\ StateInv /\ QueueInv /\ OwnerInv
      /\ Due \in SUBSET Tables
  BY DEF TypeOK, SessionTypeOK, ControlInv, Generations, None, Due
<1>1. ASSUME NEW g \in Generations, InSession(g)
      PROVE  /\ g = settlement /\ settlement # None /\ pc' = [pc EXCEPT ![g] = pc'[g]] /\ UNCHANGED settlement
             /\ \A p : InStage(p)' <=> pc'[g] = p
             /\ \A p : InStage(p) <=> pc[g] = p
  <2>1. g = settlement /\ settlement # None /\ UNCHANGED settlement
    BY <1>0, <1>1, SessionSteps DEF OwnerInv
  <2>2. pc' = [pc EXCEPT ![g] = pc'[g]]
    BY <1>0, <1>1 DEF InSession, NextFile, AppendFiles, GivesUp, FileBegun, FileParsed, FileDooms, FileSkipped,
       FileDiscarded, FilesAppended, Publish, Published, Failing, Given, Goes, Fails
  <2>. QED BY <2>1, <2>2 DEF InStage
<1>2. ASSUME NEW g \in Generations,
             \/ NextFile(g) \/ AppendFiles(g) \/ GivesUp(g) \/ FileBegun(g) \/ FileParsed(g) \/ FileDooms(g)
             \/ FileSkipped(g) \/ FileDiscarded(g) \/ FilesAppended(g)
      PROVE  StagingInv'
  <2>1. /\ pc[g] \in {"loop", "beginning", "parsing", "discarding", "filing"} /\ UNCHANGED <<state, staging, dispose>>
    <3>1. CASE NextFile(g) \/ AppendFiles(g) \/ FileSkipped(g)
      BY <3>1 DEF NextFile, AppendFiles, FileSkipped, CallBeginFile, CallAppend, CallDiscard, databaseVars, storeVars
    <3>2. CASE GivesUp(g) \/ FileParsed(g) \/ FileDooms(g)
      BY <3>2 DEF GivesUp, FileParsed, FileDooms, ingestVars, databaseVars, storeVars
    <3>3. CASE FileBegun(g) \/ FileDiscarded(g) \/ FilesAppended(g)
      BY <3>3 DEF FileBegun, FileDiscarded, FilesAppended, ReturnBeginFile, ReturnDiscard, ReturnAppend, databaseVars
    <3>. QED BY <1>2, <3>1, <3>2, <3>3
  <2>2. dispose = "no" /\ staging # Empty => state \in {"open", "failed"}
    BY <1>0, <1>1, <1>2, <2>1 DEF InSession, StagingInv, CallInv
  <2>. QED BY <2>1, <2>2 DEF StagingInv
<1>3. ASSUME NEW g \in Generations, Publish(g)
      PROVE  StagingInv'
  <2>1. pc[g] = "publish" /\ pc'[g] = "finalizing" /\ call = NoCall /\ UNCHANGED <<staging, dispose>>
        /\ IF state = "open" THEN state' = "finalized" /\ call'.at \in {"queued", "error"} ELSE UNCHANGED state
    BY <1>0, <1>3 DEF Publish, CallFinalize, Goes, AtOnce, databaseVars, storeVars
  <2>2. dispose = "no" /\ staging # Empty => state \in {"open", "failed"}
    BY <1>1, <1>3, <2>1 DEF InSession, StagingInv
  <2>. QED BY <1>1, <1>3, <2>1, <2>2 DEF StagingInv, InSession
<1>4. ASSUME NEW g \in Generations, Published(g)
      PROVE  StagingInv'
  <2>1. /\ pc[g] = "finalizing" /\ UNCHANGED <<staging, dispose>>
        /\ \/ call.kind = "finalize" /\ call.at = "swapping" /\ UNCHANGED state
           \/ state' = "failed"
           \/ call.kind = "finalize" /\ call.at = "refused" /\ UNCHANGED state
    BY <1>4 DEF Published, ReturnFinalize
  <2>2. CASE state' = "failed"
    BY <2>2 DEF StagingInv
  <2>3. CASE call.kind = "finalize" /\ call.at \in {"swapping", "refused"} /\ UNCHANGED state
    BY <1>0, <1>1, <1>4, <2>1, <2>3 DEF StagingInv, CallInv, InSession
  <2>. QED BY <2>1, <2>2, <2>3
<1>5. ASSUME NEW g \in Generations, Failing(g)
      PROVE  StagingInv'
  <2>1. /\ pc[g] = "failing" /\ call = NoCall /\ UNCHANGED <<staging, dispose>>
        /\ IF state \in {"open", "failed"} THEN /\ state' = "aborted" /\ call'.kind = "abort"
                                                /\ dispose = "no" => call'.at = "queued"
           ELSE UNCHANGED state
    BY <1>5 DEF Failing, CallAbort, Abortable, AtOnce, databaseVars, storeVars
  <2>2. dispose = "no" /\ staging # Empty => state \in {"open", "failed"}
    BY <1>1, <1>5, <2>1 DEF InSession, StagingInv
  <2>. QED BY <2>1, <2>2 DEF StagingInv
<1>6. ASSUME NEW g \in Generations, Given(g)
      PROVE  StagingInv'
  <2>1. pc[g] = "aborting" /\ call.kind = "abort" /\ call.at # "queued" /\ UNCHANGED <<staging, dispose>>
    BY <1>6 DEF Given, ReturnAbort
  <2>2. dispose # "no" \/ staging = Empty
    BY <1>0, <1>1, <1>6, <2>1 DEF InSession, StagingInv, CallInv
  <2>. QED BY <2>1, <2>2 DEF StagingInv
<1>7. ASSUME NEW g \in Generations, Begun(g)
      PROVE  StagingInv'
  <2>1. /\ ~Busy /\ UNCHANGED <<staging, dispose>>
    BY <1>0, <1>7 DEF Begun, OwnerInv, BeginIngest, storeVars, ingestVars, databaseVars
  <2>. QED BY <2>1, NothingStaged DEF StagingInv
<1>8. ASSUME UNCHANGED <<staging, dispose, state, call, settlement>>, settlement # None => pc'[settlement] = pc[settlement]
      PROVE  StagingInv'
  BY <1>0, <1>8 DEF StagingInv, InStage
<1>9. ASSUME RunOperation \/ SessionStep, UNCHANGED settlement, settlement # None => pc'[settlement] = pc[settlement]
      PROVE  StagingInv'
  <2>1. UNCHANGED dispose
    BY <1>9 DEF RunOperation, RunAppend, RunFlush, RunDiscard, RunResidual, RunCommit, RunDrop, SessionStep,
       DiscardForgets, FinalizeCommits, FinalizeSwaps, databaseVars
  <2>2. CASE RunAppend
    <3>1. \/ UNCHANGED <<state, staging, call>>
          \/ UNCHANGED state /\ state = "open"
          \/ staging' = Empty
      <4>1. ASSUME ~UNCHANGED <<state, staging, call>>, UNCHANGED state => state # "open"
            PROVE  staging' = Empty
        <5>1. state = "open" /\ UNCHANGED call
          BY <2>2, <4>1 DEF RunAppend, AppendRefused, storeVars
        <5>2. ~UNCHANGED state
          BY <4>1, <5>1
        <5>. QED BY <2>2, <5>1, <5>2 DEF RunAppend, RotateOrAbort, DropStaging
      <4>. QED BY <4>1
    <3>2. UNCHANGED call
      BY <2>2 DEF RunAppend
    <3>. QED BY <1>0, <1>8, <1>9, <2>1, <3>1, <3>2 DEF StagingInv
  <2>3. CASE RunFlush
    <3>1. \/ UNCHANGED <<state, staging>>
          \/ UNCHANGED state /\ (staging = Empty => staging' = Empty)
          \/ staging' = Empty
      <4>1. CASE UNCHANGED <<state, staging>>
        BY <4>1
      <4>2. CASE ~UNCHANGED <<state, staging>>
        <5>1. PICK how \in {"ok", "error", "quota"} : RotateOrAbort(Due, staging, stagedBytes, TRUE, how)
          BY <2>3, <4>2 DEF RunFlush, storeVars
        <5>2. /\ staging' = [t \in Tables |-> staging'[t]] /\ \A t \in Tables : staging'[t] \subseteq staging[t]
              /\ state' = state \/ (state' = "aborted" /\ staging' = Empty)
          BY <5>1, Rotated
        <5>. QED BY <5>2 DEF Empty
      <4>. QED BY <4>1, <4>2
    <3>2. call.kind = "beginFile"
      BY <1>0, <2>3, RunningIs DEF RunFlush
    <3>3. dispose = "no" /\ staging # Empty => state \in {"open", "failed"}
      BY <1>0, <3>2 DEF StagingInv, CallInv, InStage
    <3>. QED BY <2>1, <3>1, <3>3 DEF StagingInv
  <2>4. CASE RunDiscard
    <3>1. UNCHANGED state /\ (staging = Empty => staging' = Empty)
      <4>1. CASE UNCHANGED staging
        BY <2>4, <4>1 DEF RunDiscard
      <4>2. CASE ~UNCHANGED staging
        <5>1. \E S \in SUBSET created : staging' = [t \in Tables |->
                   IF t \notin S THEN staging[t]
                   ELSE IF tier = "spill" THEN {}
                   ELSE {r \in staging[t] : r.file # Head(queue).file}]
          BY <2>4, <4>2 DEF RunDiscard
        <5>. QED BY <2>4, <5>1 DEF RunDiscard, Empty
      <4>. QED BY <4>1, <4>2
    <3>2. call.kind = "discard"
      BY <1>0, <2>4, RunningIs DEF RunDiscard
    <3>3. dispose = "no" /\ staging # Empty => state \in {"open", "failed"}
      BY <1>0, <3>2 DEF StagingInv, CallInv, InStage
    <3>. QED BY <2>1, <3>1, <3>3 DEF StagingInv
  <2>5. CASE RunResidual
    <3>1. UNCHANGED state /\ (staging = Empty => staging' = Empty)
      <4>1. CASE UNCHANGED <<state, staging>>
        BY <4>1
      <4>2. CASE ~UNCHANGED <<state, staging>>
        <5>1. PICK how \in {"ok", "error", "quota"} : RotateOrAbort(Due, staging, stagedBytes, FALSE, how)
          BY <2>5, <4>2 DEF RunResidual, storeVars
        <5>2. /\ staging' = [t \in Tables |-> staging'[t]] /\ \A t \in Tables : staging'[t] \subseteq staging[t]
          BY <5>1, Rotated
        <5>3. UNCHANGED state
          BY <5>1 DEF RotateOrAbort
        <5>. QED BY <5>2, <5>3 DEF Empty
      <4>. QED BY <4>1, <4>2
    <3>2. call.kind = "flushing" /\ call'.kind = "flushing"
      BY <1>0, <2>5, RunningIs DEF RunResidual
    <3>. QED BY <1>0, <1>9, <2>1, <3>1, <3>2 DEF StagingInv, CallInv, InStage
  <2>6. CASE RunCommit
    <3>1. call.kind = "finalize" /\ UNCHANGED state /\ (staging' = Empty \/ (UNCHANGED staging /\ call'.at = "error"))
      BY <1>0, <2>6, RunningIs DEF RunCommit, DropStaging
    <3>. QED BY <1>0, <1>9, <2>1, <3>1 DEF StagingInv, CallInv, InStage
  <2>7. CASE RunDrop
    <3>1. dispose # "no" \/ staging' = Empty
      BY <2>7 DEF RunDrop, DropStaging, Refused
    <3>. QED BY <2>1, <3>1 DEF StagingInv
  <2>8. CASE SessionStep
    <3>1. UNCHANGED <<state, staging>>
      BY <2>8 DEF SessionStep, DiscardForgets, FinalizeCommits, FinalizeSwaps, storeVars
    <3>2. CASE DiscardForgets
      <4>1. call.kind = "discard"
        BY <3>2 DEF DiscardForgets
      <4>. QED BY <1>0, <2>1, <3>1, <4>1 DEF StagingInv, CallInv, InStage
    <3>3. CASE FinalizeCommits
      <4>1. call.kind = "flushing" /\ call'.at \in {"queued", "error"}
        BY <3>3 DEF FinalizeCommits, AtOnce
      <4>. QED BY <1>0, <1>9, <2>1, <3>1, <4>1 DEF StagingInv, CallInv, InStage
    <3>4. CASE FinalizeSwaps
      <4>1. call.kind = "finalize" /\ call.at = "ok"
        BY <3>4 DEF FinalizeSwaps
      <4>. QED BY <1>0, <2>1, <3>1, <4>1 DEF StagingInv, CallInv, InStage
    <3>. QED BY <2>8, <3>2, <3>3, <3>4 DEF SessionStep
  <2>. QED BY <1>9, <2>2, <2>3, <2>4, <2>5, <2>6, <2>7, <2>8 DEF RunOperation
<1>10. CASE DisposeDatabase
  <2>1. dispose' # "no"
    BY <1>10 DEF DisposeDatabase, Dispose, DisposeFinishes
  <2>. QED BY <2>1 DEF StagingInv
<1>11. ASSUME UserStep \/ (\E g \in Generations : Outside(g)) \/ (\E f \in Files : ParserStep(f)) \/ Rest \/ UNCHANGED vars
       PROVE  UNCHANGED <<staging, dispose, state, call>>
  <2>1. CASE UserStep \/ (\E g \in Generations : Outside(g)) \/ Rest \/ UNCHANGED vars
    BY <2>1 DEF UserStep, OpenBatch, Cancel, DisposeSession, Outside, Planned, FamilyClosed, Claim, Rest, vars,
       ingestVars, callVars, storeVars, databaseVars
  <2>2. ASSUME NEW f \in Files, ParserStep(f)
        PROVE  UNCHANGED <<staging, dispose, state, call>>
    BY <2>2 DEF ParserStep, BatchArrives, ParseEnds, BatchStarts, BatchDone, ParseSettles, CallAppend, ReturnAppend,
       ingestVars, callVars, storeVars, databaseVars
  <2>. QED BY <1>11, <2>1, <2>2
<1>a. CASE \E g \in Generations : InSession(g)
  BY <1>a, <1>2, <1>3, <1>4, <1>5, <1>6 DEF InSession
<1>b. CASE DatabaseStep
  BY <1>0, <1>9, <1>b, ElsewhereSteps DEF DatabaseStep
<1>c. CASE UserStep \/ (\E g \in Generations : Outside(g)) \/ (\E f \in Files : ParserStep(f)) \/ Rest \/ UNCHANGED vars
  BY <1>0, <1>8, <1>11, <1>c, ElsewhereSteps
<1>. QED BY <1>a, <1>b, <1>c, <1>7, <1>10 DEF Next, SystemStep, Coroutine, Outside, InSession, UserStep

\* Only the queue's operations, and a new ingest, touch what is staged.
LEMMA StagedElsewhere ==
    ASSUME TypeOK, Next \/ UNCHANGED vars,
           ~(Idle /\ RunOperation), \A g \in Generations : ~Begun(g)
    PROVE  /\ UNCHANGED <<tier, created, stagedBytes, staging>>
           /\ tier = "spill" /\ call'.kind = "beginFile" /\ call'.at = "ok" => UNCHANGED call
<1>. USE CallFields
<1>1. CASE UserStep \/ Rest \/ UNCHANGED vars
  BY <1>1 DEF UserStep, OpenBatch, Cancel, DisposeSession, Rest, vars, ingestVars, storeVars, tableVars, callVars
<1>2. ASSUME NEW g \in Generations, Outside(g) \/ GivesUp(g) \/ FileParsed(g) \/ FileDooms(g)
      PROVE  UNCHANGED <<tier, created, stagedBytes, staging, call>>
  BY <1>2 DEF Outside, Planned, FamilyClosed, Claim, GivesUp, FileParsed, FileDooms, ingestVars, storeVars, tableVars, callVars
<1>3. ASSUME NEW g \in Generations, NextFile(g) \/ AppendFiles(g) \/ FileSkipped(g) \/ Publish(g) \/ Failing(g)
      PROVE  /\ UNCHANGED <<tier, created, stagedBytes, staging>>
             /\ tier = "spill" /\ call'.kind = "beginFile" /\ call'.at = "ok" => UNCHANGED call
  <2>1. CASE NextFile(g)
    BY <2>1 DEF NextFile, CallBeginFile, AtOnce, storeVars, tableVars
  <2>2. CASE AppendFiles(g) \/ FileSkipped(g) \/ Publish(g) \/ Failing(g)
    BY <2>2 DEF AppendFiles, FileSkipped, Publish, Failing, CallAppend, CallDiscard, CallFinalize, CallAbort,
       storeVars, tableVars
  <2>. QED BY <1>3, <2>1, <2>2
<1>4. ASSUME NEW g \in Generations, FileBegun(g) \/ FileDiscarded(g) \/ FilesAppended(g) \/ Published(g) \/ Given(g)
      PROVE  UNCHANGED <<tier, created, stagedBytes, staging>> /\ (call' = NoCall \/ UNCHANGED call)
  BY <1>4 DEF FileBegun, FileDiscarded, FilesAppended, Published, Given, ReturnBeginFile, ReturnDiscard, ReturnAppend,
     ReturnFinalize, ReturnAbort, tableVars
<1>5. ASSUME NEW f \in Files, ParserStep(f)
      PROVE  UNCHANGED <<tier, created, stagedBytes, staging, call>>
  BY <1>5 DEF ParserStep, BatchArrives, ParseEnds, BatchStarts, BatchDone, ParseSettles, CallAppend, ReturnAppend,
     ingestVars, storeVars, tableVars, callVars
<1>6. CASE SessionStep
  <2>1. UNCHANGED <<tier, created, stagedBytes, staging>>
    BY <1>6 DEF SessionStep, DiscardForgets, FinalizeCommits, FinalizeSwaps, storeVars, tableVars
  <2>2. call'.kind # "beginFile"
    <3>1. call \in SessionCalls
      BY DEF TypeOK, SessionTypeOK
    <3>2. CASE DiscardForgets
      BY <3>1, <3>2 DEF DiscardForgets, SessionCalls
    <3>3. CASE FinalizeCommits
      BY <3>3 DEF FinalizeCommits
    <3>4. CASE FinalizeSwaps
      BY <3>1, <3>4 DEF FinalizeSwaps, SessionCalls
    <3>. QED BY <1>6, <3>2, <3>3, <3>4 DEF SessionStep
  <2>. QED BY <2>1, <2>2
<1>7. CASE DisposeDatabase
  BY <1>7 DEF DisposeDatabase, Dispose, DisposeFinishes, sessionVars, storeVars, tableVars, callVars
<1>a. ASSUME NEW g \in Generations, Coroutine(g)
      PROVE  /\ UNCHANGED <<tier, created, stagedBytes, staging>>
             /\ tier = "spill" /\ call'.kind = "beginFile" /\ call'.at = "ok" => UNCHANGED call
  <2>1. ~Begun(g)
    OBVIOUS
  <2>2. Outside(g) \/ NextFile(g) \/ AppendFiles(g) \/ GivesUp(g) \/ FileBegun(g) \/ FileParsed(g) \/ FileDooms(g)
        \/ FileSkipped(g) \/ FileDiscarded(g) \/ FilesAppended(g) \/ Publish(g) \/ Published(g) \/ Failing(g) \/ Given(g)
    BY <1>a, <2>1 DEF Coroutine, Outside
  <2>. QED BY <1>2, <1>3, <1>4, <2>2
<1>. QED BY <1>a, <1>1, <1>5, <1>6, <1>7 DEF Next, SystemStep, DatabaseStep, UserStep

LEMMA DueKept ==
    ASSUME TypeOK, ControlInv, StagingInv, DueInv, Next \/ UNCHANGED vars
    PROVE  DueInv'
<1>0. /\ staging \in [Tables -> SUBSET Rows] /\ stagedBytes \in [Tables -> Nat] /\ created \subseteq Tables
      /\ SessionTypeOK /\ QueueInv /\ tier \in {"memory", "spill"} /\ Due \in SUBSET Tables /\ FilesTable \in Tables
      /\ None \notin Generations
  <2>1. SessionTypeOK /\ QueueInv
    BY DEF TypeOK, ControlInv
  <2>. QED BY <2>1, IngestAssumption DEF SessionTypeOK, Tiers, Due, Generations, None
<1>1. ASSUME ~(Idle /\ RunOperation), \A g \in Generations : ~Begun(g)
      PROVE  DueInv'
  <2>1. /\ UNCHANGED <<tier, created, stagedBytes, staging>>
        /\ tier = "spill" /\ call'.kind = "beginFile" /\ call'.at = "ok" => UNCHANGED call
    BY <1>1, StagedElsewhere
  <2>. QED BY <2>1 DEF DueInv, Due
<1>2. ASSUME NEW g \in Generations, Begun(g)
      PROVE  DueInv'
  <2>1. CASE dispose # "no"
    <3>1. UNCHANGED ingestVars
      BY <1>2, <2>1 DEF Begun, BeginIngest
    <3>. QED BY <3>1 DEF DueInv, Due, ingestVars, storeVars, tableVars, callVars
  <2>2. CASE dispose = "no"
    <3>1. created' = {} /\ stagedBytes' = Zero /\ UNCHANGED <<staging, call>>
      BY <1>2, <2>2 DEF Begun, BeginIngest, storeVars, callVars
    <3>2. ~Busy
      BY <1>0, <1>2 DEF Begun, ControlInv, OwnerInv
    <3>3. staging = Empty
      BY <2>2, <3>2, NothingStaged
    <3>. QED BY <3>1, <3>3 DEF DueInv, Due, Empty
  <2>. QED BY <2>1, <2>2
<1>3. ASSUME Idle, RunOperation
      PROVE  DueInv'
  <2>1. ~(call.kind = "beginFile" /\ call.at = "ok") /\ UNCHANGED tier
    BY <1>3 DEF Idle, Microtasks, RunOperation, RunAppend, RunFlush, RunDiscard, RunResidual, RunCommit, RunDrop
  <2>. DEFINE Staged == /\ tier = "memory" => stagedBytes' = Zero
                        /\ tier = "spill" => \A t \in Tables : staging'[t] # {} => t \in created' /\ stagedBytes'[t] > 0
  <2>2. ASSUME UNCHANGED <<created, stagedBytes>>, staging' \in {staging, Empty}
        PROVE  Staged
    BY <2>2 DEF DueInv, Due, Empty
  <2>3. ASSUME NEW due \in SUBSET Tables, NEW staged \in [Tables -> SUBSET Rows], NEW bytes \in [Tables -> Nat],
               NEW aborts \in BOOLEAN, NEW how \in {"ok", "error", "quota"},
               RotateOrAbort(due, staged, bytes, aborts, how),
               tier = "memory" => bytes = Zero,
               tier = "spill" => \A t \in Tables : staged[t] # {} => t \in created' /\ bytes[t] > 0
        PROVE  Staged
    <3>2. \A t \in Tables : /\ staging'[t] \subseteq staged[t] /\ stagedBytes'[t] \in {0, bytes[t]}
                            /\ staging'[t] # {} => stagedBytes'[t] = bytes[t]
      <4>1. RotateOrAbort(due, staged, bytes, aborts, how)
        BY <2>3
      <4>. QED BY <4>1, Rotated
    <3>3. \E S : stagedBytes' = [t \in Tables |-> IF t \in S THEN 0 ELSE bytes[t]]
      BY <2>3 DEF RotateOrAbort, Rotate
    <3>4. tier = "memory" => stagedBytes' = Zero
      BY <2>3, <3>3 DEF Zero
    <3>. QED BY <2>3, <3>2, <3>4
  <2>4. CASE RunAppend
    <3>1. UNCHANGED call
      BY <2>4 DEF RunAppend
    <3>2. CASE UNCHANGED <<created, stagedBytes, staging>>
      BY <2>1, <2>2, <3>1, <3>2 DEF DueInv, Due
    <3>3. CASE ~UNCHANGED <<created, stagedBytes, staging>>
      <4>0. Head(queue) \in Operations
        BY <1>0, <2>4, QueueType DEF SessionTypeOK, RunAppend
      <4>1. PICK t \in Tables, row \in Rows : t = Head(queue).table /\ row = Head(queue).row
        BY <4>0 DEF Operations
      <4>. DEFINE staged == [staging EXCEPT ![t] = @ \cup {row}]
                  bytes  == [stagedBytes EXCEPT ![t] = @ + 1]
      <4>2. /\ created' = created \cup {t}
            /\ IF tier = "memory" \/ bytes[t] < RotateAt
               THEN /\ staging' = staged
                    /\ stagedBytes' = IF tier = "memory" THEN stagedBytes ELSE bytes
               ELSE \E how \in {"ok", "error", "quota"} : RotateOrAbort({t}, staged, bytes, TRUE, how)
        BY <2>4, <3>3, <4>1 DEF RunAppend, storeVars, tableVars
      <4>3. /\ staged \in [Tables -> SUBSET Rows] /\ bytes \in [Tables -> Nat]
            /\ tier = "spill" => \A u \in Tables : staged[u] # {} => u \in created' /\ bytes[u] > 0
        BY <1>0, <4>1, <4>2 DEF DueInv, Due
      <4>. HIDE DEF staged, bytes
      <4>4. Staged
        <5>1. CASE tier = "memory"
          BY <4>2, <5>1 DEF DueInv
        <5>2. CASE tier = "spill" /\ bytes[t] < RotateAt
          BY <4>2, <4>3, <5>2
        <5>3. CASE tier = "spill" /\ ~(bytes[t] < RotateAt)
          <6>. HIDE DEF Staged
          <6>1. PICK how \in {"ok", "error", "quota"} : RotateOrAbort({t}, staged, bytes, TRUE, how)
            BY <4>2, <5>3
          <6>2. {t} \in SUBSET Tables /\ TRUE \in BOOLEAN
            BY <4>1
          <6>. QED BY <2>3, <4>3, <5>3, <6>1, <6>2
        <5>. QED BY <1>0, <5>1, <5>2, <5>3
      <4>. QED BY <2>1, <3>1, <4>4 DEF DueInv, Due
    <3>. QED BY <3>2, <3>3
  <2>5. CASE RunFlush
    <3>1. CASE UNCHANGED <<created, stagedBytes, staging>> /\ Returns("error")
      <4>1. call'.at = "error"
        BY <1>0, <3>1, CallFields
      <4>. QED BY <2>1, <2>2, <3>1, <4>1 DEF DueInv, Due
    <3>2. CASE ~(UNCHANGED <<created, stagedBytes, staging>> /\ Returns("error"))
      <4>1. PICK how \in {"ok", "error", "quota"} : Returns(how) /\ RotateOrAbort(Due, staging, stagedBytes, TRUE, how)
        BY <2>5, <3>2 DEF RunFlush, storeVars
      <4>2. UNCHANGED created /\ how \in Outcomes /\ call'.at = how
        BY <1>0, <2>5, <4>1, CallFields DEF RunFlush, Outcomes
      <4>3. Staged
        <5>1. tier = "spill" => \A t \in Tables : staging[t] # {} => t \in created' /\ stagedBytes[t] > 0
          BY <4>2 DEF DueInv, Due
        <5>2. tier = "memory" => stagedBytes = Zero
          BY DEF DueInv
        <5>. HIDE DEF Staged
        <5>. QED BY <1>0, <2>3, <4>1, <5>1, <5>2
      <4>4. how = "ok" /\ tier = "spill" => staging' = Empty
        <5>1. /\ staging' = [t \in Tables |-> staging'[t]]
              /\ \A t \in Tables : /\ staging'[t] \subseteq staging[t]
                                   /\ how = "ok" /\ t \in Due => staging'[t] = {}
          <6>1. PICK aborts : RotateOrAbort(Due, staging, stagedBytes, aborts, how)
            BY <4>1
          <6>. QED BY <6>1, Rotated
        <5>2. tier = "spill" => \A t \in Tables : t \in Due \/ staging[t] = {}
          BY DEF DueInv
        <5>. QED BY <5>1, <5>2 DEF Empty
      <4>. QED BY <2>1, <4>2, <4>3, <4>4 DEF DueInv, Due
    <3>. QED BY <3>1, <3>2
  <2>6. CASE RunDiscard
    <3>1. call'.kind = "discard"
      BY <1>0, <2>6, RunningIs, CallFields DEF RunDiscard
    <3>2. Staged
      <4>1. CASE UNCHANGED <<stagedBytes, staging>>
        <5>1. UNCHANGED created
          BY <2>6 DEF RunDiscard
        <5>. HIDE DEF Staged
        <5>. QED BY <2>2, <4>1, <5>1
      <4>2. CASE ~UNCHANGED <<stagedBytes, staging>>
        <5>1. PICK S \in SUBSET created :
                 /\ staging' = [t \in Tables |-> IF t \notin S THEN staging[t]
                                                 ELSE IF tier = "spill" THEN {}
                                                 ELSE {r \in staging[t] : r.file # Head(queue).file}]
                 /\ stagedBytes' = [t \in Tables |-> IF t \in S /\ tier = "spill" THEN 0 ELSE stagedBytes[t]]
          BY <2>6, <4>2 DEF RunDiscard
        <5>2. UNCHANGED created
          BY <2>6 DEF RunDiscard
        <5>. QED BY <1>0, <5>1, <5>2 DEF DueInv, Due, Zero
      <4>. QED BY <4>1, <4>2
    <3>. QED BY <2>1, <3>1, <3>2 DEF DueInv, Due
  <2>7. CASE RunResidual
    <3>1. call'.kind = "flushing" /\ UNCHANGED created
      BY <1>0, <2>7, RunningIs, CallFields DEF RunResidual
    <3>2. Staged
      <4>1. CASE UNCHANGED <<stagedBytes, staging>>
        <5>. HIDE DEF Staged
        <5>. QED BY <2>2, <3>1, <4>1
      <4>2. CASE ~UNCHANGED <<stagedBytes, staging>>
        <5>1. PICK how \in {"ok", "error", "quota"} : RotateOrAbort(Due, staging, stagedBytes, FALSE, how)
          BY <2>7, <4>2 DEF RunResidual, storeVars
        <5>2. tier = "spill" => \A t \in Tables : staging[t] # {} => t \in created' /\ stagedBytes[t] > 0
          BY <3>1 DEF DueInv, Due
        <5>3. tier = "memory" => stagedBytes = Zero
          BY DEF DueInv
        <5>. HIDE DEF Staged
        <5>. QED BY <1>0, <2>3, <5>1, <5>2, <5>3
      <4>. QED BY <4>1, <4>2
    <3>. QED BY <2>1, <3>1, <3>2 DEF DueInv, Due
  <2>8. CASE RunCommit \/ RunDrop
    <3>1. call'.kind \in {"finalize", "abort"}
      BY <1>0, <2>8, RunningIs, CallFields DEF RunCommit, RunDrop
    <3>2. UNCHANGED <<created, stagedBytes>> /\ staging' \in {staging, Empty}
      BY <2>8 DEF RunCommit, RunDrop, DropStaging, tableVars
    <3>3. Staged
      <4>. HIDE DEF Staged
      <4>. QED BY <2>2, <3>2
    <3>. QED BY <2>1, <3>1, <3>3 DEF DueInv, Due
  <2>. QED BY <1>3, <2>4, <2>5, <2>6, <2>7, <2>8 DEF RunOperation
<1>. QED BY <1>1, <1>2, <1>3


-----------------------------------------------------------------------------
(* The chunks.                                                              *)

\* Apart from the queue's operations, and a new ingest, no step writes a chunk; and the
\* current file changes where one is begun or discarded.
LEMMA FilesElsewhere ==
    ASSUME TypeOK, Next \/ UNCHANGED vars, ~(Idle /\ RunOperation), \A g \in Generations : ~Begun(g)
    PROVE  /\ \A p \in DOMAIN opfs' : p \in DOMAIN opfs /\ opfs'[p] = opfs[p]
           /\ \/ UNCHANGED currentFile
              \/ call.kind = "beginFile" /\ call.at = "ok"
              \/ call.kind = "discard" /\ call.at = "deleting"
<1>. DEFINE Kept  == UNCHANGED currentFile \/ (call.kind = "beginFile" /\ call.at = "ok")
                     \/ (call.kind = "discard" /\ call.at = "deleting")
<1>1. ASSUME UserStep \/ Rest \/ UNCHANGED vars
      PROVE  Shrinks /\ Kept
  BY <1>1 DEF UserStep, OpenBatch, Cancel, DisposeSession, Rest, vars, ingestVars, storeVars, fileVars, Shrinks
<1>2. ASSUME NEW g \in Generations, Outside(g) \/ GivesUp(g) \/ FileParsed(g) \/ FileDooms(g)
      PROVE  Shrinks /\ Kept
  BY <1>2 DEF Outside, Planned, FamilyClosed, Claim, GivesUp, FileParsed, FileDooms, ingestVars, storeVars, fileVars, Shrinks
<1>3. ASSUME NEW g \in Generations, NextFile(g) \/ AppendFiles(g) \/ FileSkipped(g) \/ Publish(g) \/ Failing(g)
      PROVE  Shrinks /\ Kept
  BY <1>3 DEF NextFile, AppendFiles, FileSkipped, Publish, Failing, CallBeginFile, CallAppend, CallDiscard, CallFinalize,
     CallAbort, storeVars, fileVars, Shrinks
<1>4. ASSUME NEW g \in Generations, FileBegun(g) \/ FileDiscarded(g) \/ FilesAppended(g) \/ Published(g) \/ Given(g)
      PROVE  Shrinks /\ Kept
  <2>1. CASE FileBegun(g)
    BY <2>1 DEF FileBegun, ReturnBeginFile, ReclaimOnQuota, fileVars, Shrinks
  <2>2. CASE FileDiscarded(g)
    BY <2>2 DEF FileDiscarded, ReturnDiscard, fileVars, Shrinks
  <2>3. CASE FilesAppended(g) \/ Published(g) \/ Given(g)
    BY <2>3 DEF FilesAppended, Published, Given, ReturnAppend, ReturnFinalize, ReturnAbort, ReclaimOnQuota, fileVars, Shrinks
  <2>. QED BY <1>4, <2>1, <2>2, <2>3
<1>5. ASSUME NEW f \in Files, ParserStep(f)
      PROVE  Shrinks /\ Kept
  BY <1>5 DEF ParserStep, BatchArrives, ParseEnds, BatchStarts, BatchDone, ParseSettles, CallAppend, ReturnAppend,
     ReclaimOnQuota, ingestVars, storeVars, fileVars, Shrinks
<1>6. ASSUME SessionStep
      PROVE  Shrinks /\ Kept
  BY <1>6 DEF SessionStep, DiscardForgets, FinalizeCommits, FinalizeSwaps, storeVars, fileVars, Shrinks
<1>7. ASSUME DisposeDatabase
      PROVE  Shrinks /\ Kept
  BY <1>7 DEF DisposeDatabase, Dispose, DisposeFinishes, sessionVars, storeVars, fileVars, Shrinks
<1>a. ASSUME NEW g \in Generations, Coroutine(g)
      PROVE  Shrinks /\ Kept
  <2>1. ~Begun(g)
    OBVIOUS
  <2>2. Outside(g) \/ NextFile(g) \/ AppendFiles(g) \/ GivesUp(g) \/ FileBegun(g) \/ FileParsed(g) \/ FileDooms(g)
        \/ FileSkipped(g) \/ FileDiscarded(g) \/ FilesAppended(g) \/ Publish(g) \/ Published(g) \/ Failing(g) \/ Given(g)
    BY <1>a, <2>1 DEF Coroutine, Outside
  <2>. HIDE DEF Kept
  <2>. QED BY <1>2, <1>3, <1>4, <2>2
<1>8. Shrinks /\ Kept
  <2>1. \/ UserStep \/ Rest \/ UNCHANGED vars
        \/ \E g \in Generations : Coroutine(g)
        \/ \E f \in Files : ParserStep(f)
        \/ SessionStep \/ DisposeDatabase
    BY DEF Next, SystemStep, DatabaseStep, UserStep
  <2>. HIDE DEF Kept
  <2>. QED BY <1>1, <1>a, <1>5, <1>6, <1>7, <2>1
<1>9. \A p \in DOMAIN opfs' : p \in DOMAIN opfs /\ opfs'[p] = opfs[p]
  <2>1. CASE opfs' = opfs
    BY <2>1
  <2>2. ASSUME NEW S, opfs' = Deleted(S)
        PROVE  \A p \in DOMAIN opfs' : p \in DOMAIN opfs /\ opfs'[p] = opfs[p]
    BY <2>2, DeletedFiles
  <2>. HIDE DEF Kept
  <2>. QED BY <1>8, <2>1, <2>2 DEF Shrinks
<1>. QED BY <1>8, <1>9

\* The file of an append under way that is intact is the current one.
LEMMA AppendsAreOfTheCurrentFile ==
    ASSUME TypeOK, ControlInv, NEW a \in appends, a.row.file # None, ~Failed(a.row.file)
    PROVE  a.row.file = currentFile
<1>1. a.row \in Rows /\ a.row.file \in Files
  BY DEF TypeOK, SessionTypeOK, AppendCalls, Rows
<1>2. handling[a.row.file] = a.row /\ a.row # NoRow
  BY DEF ControlInv, AppendsInv, NoRow
<1>3. outcome[a.row.file] = "pending"
  BY <1>1, <1>2 DEF ControlInv, ParseInv, Failed, TypeOK
<1>. QED BY <1>1, <1>3 DEF ControlInv, ParseInv

LEMMA ChunksKept ==
    ASSUME TypeOK, ControlInv, StagingInv, DueInv, ChunksInv, Next \/ UNCHANGED vars
    PROVE  ChunksInv'
<1>. DEFINE Place(t) == IF t = FilesTable THEN None ELSE currentFile
<1>0. /\ SessionTypeOK /\ tier \in {"memory", "spill"} /\ Due \in SUBSET Tables
      /\ staging \in [Tables -> SUBSET Rows] /\ \A p \in DOMAIN opfs : opfs[p] \subseteq Rows
      /\ None \notin Generations /\ QueueInv
  <2>1. SessionTypeOK /\ QueueInv
    BY DEF TypeOK, ControlInv
  <2>. QED BY <2>1 DEF SessionTypeOK, Tiers, Due, Generations, None
<1>1. \A r \in Rows : ~Failed(r.file)' => ~Failed(r.file)
  BY IntactWas DEF ControlInv
<1>2. /\ tier = "spill" => \A t \in Tables : \A r \in staging[t] : ~Failed(r.file) => r.file = Place(t)
      /\ \A p \in DOMAIN opfs : \A r, s \in opfs[p] : ~Failed(r.file) /\ ~Failed(s.file) => r.file = s.file
  BY DEF ChunksInv, Intact
<1>3. ASSUME tier' = "spill" => \A t \in Tables : \A r \in staging'[t] : ~Failed(r.file)' => r.file = Place(t)',
             \A p \in DOMAIN opfs' : \A r, s \in opfs'[p] : ~Failed(r.file)' /\ ~Failed(s.file)' => r.file = s.file
      PROVE  ChunksInv'
  BY <1>3 DEF ChunksInv, Intact
<1>4. ASSUME \A p \in DOMAIN opfs' : p \in DOMAIN opfs /\ opfs'[p] = opfs[p]
      PROVE  \A p \in DOMAIN opfs' : \A r, s \in opfs'[p] : ~Failed(r.file)' /\ ~Failed(s.file)' => r.file = s.file
  <2>. SUFFICES ASSUME NEW p \in DOMAIN opfs', NEW r \in opfs'[p], NEW s \in opfs'[p],
                       ~Failed(r.file)', ~Failed(s.file)'
                PROVE  r.file = s.file
    OBVIOUS
  <2>1. p \in DOMAIN opfs /\ r \in opfs[p] /\ s \in opfs[p] /\ r \in Rows /\ s \in Rows
    BY <1>0, <1>4
  <2>2. ~Failed(r.file) /\ ~Failed(s.file)
    BY <1>1, <2>1
  <2>. QED BY <1>2, <2>1, <2>2
<1>5. ASSUME ~(Idle /\ RunOperation), \A g \in Generations : ~Begun(g)
      PROVE  ChunksInv'
  <2>1. UNCHANGED <<tier, staging>>
    BY <1>5, StagedElsewhere
  <2>2. /\ \A p \in DOMAIN opfs' : p \in DOMAIN opfs /\ opfs'[p] = opfs[p]
        /\ UNCHANGED currentFile \/ (call.kind = "beginFile" /\ call.at = "ok")
           \/ (call.kind = "discard" /\ call.at = "deleting")
    BY <1>5, FilesElsewhere
  <2>3. ASSUME tier' = "spill", NEW t \in Tables, NEW r \in staging'[t], ~Failed(r.file)'
        PROVE  r.file = Place(t)'
    <3>1. r \in Rows /\ r \in staging[t] /\ tier = "spill"
      BY <1>0, <2>1, <2>3
    <3>2. ~Failed(r.file) /\ r.file = Place(t)
      <4>1. ~Failed(r.file)
        BY <1>1, <2>3, <3>1
      <4>. QED BY <1>2, <3>1, <4>1
    <3>3. CASE UNCHANGED currentFile
      BY <3>2, <3>3
    <3>4. CASE call.kind = "beginFile" /\ call.at = "ok"
      BY <3>1, <3>4 DEF DueInv, Empty
    <3>5. CASE call.kind = "discard" /\ call.at = "deleting"
      BY <3>2, <3>5 DEF ControlInv, CallInv
    <3>. QED BY <2>2, <3>3, <3>4, <3>5
  <2>. HIDE DEF Place
  <2>. QED BY <1>3, <1>4, <2>2, <2>3
<1>6. ASSUME NEW g \in Generations, Begun(g)
      PROVE  ChunksInv'
  <2>1. UNCHANGED opfs
    BY <1>6 DEF Begun, BeginIngest, storeVars, ingestVars
  <2>2. CASE dispose # "no"
    <3>1. UNCHANGED <<tier, staging, currentFile>> /\ UNCHANGED outcome
      BY <1>6, <2>2 DEF Begun, BeginIngest, ingestVars, storeVars, fileVars, parserVars
    <3>. QED BY <2>1, <3>1 DEF ChunksInv, Intact, Failed
  <2>3. CASE dispose = "no"
    <3>1. ~Busy
      BY <1>0, <1>6 DEF Begun, ControlInv, OwnerInv
    <3>2. staging' = Empty
      <4>1. UNCHANGED staging
        BY <1>6, <2>3 DEF Begun, BeginIngest, storeVars
      <4>. QED BY <2>3, <3>1, <4>1, NothingStaged
    <3>3. \A t \in Tables : staging'[t] = {}
      BY <3>2 DEF Empty
    <3>. HIDE DEF Place
    <3>. QED BY <1>3, <1>4, <2>1, <3>3
  <2>. QED BY <2>2, <2>3
<1>7. ASSUME Idle, RunOperation
      PROVE  ChunksInv'
  <2>1. UNCHANGED <<tier, currentFile>>
    BY <1>7 DEF RunOperation, RunAppend, RunFlush, RunDiscard, RunResidual, RunCommit, RunDrop, fileVars
  <2>2. ASSUME NEW staged, \A t \in Tables : staging'[t] \subseteq staged[t], \A t \in Tables : staged[t] \subseteq Rows,
               tier = "spill" => \A t \in Tables : \A r \in staged[t] : ~Failed(r.file) => r.file = Place(t)
        PROVE  tier' = "spill" => \A t \in Tables : \A r \in staging'[t] : ~Failed(r.file)' => r.file = Place(t)'
    <3>. SUFFICES ASSUME tier' = "spill", NEW t \in Tables, NEW r \in staging'[t], ~Failed(r.file)'
                  PROVE  r.file = Place(t)'
      OBVIOUS
    <3>1. r \in staged[t] /\ r \in Rows
      BY <2>2
    <3>2. ~Failed(r.file)
      BY <1>1, <3>1
    <3>3. r.file = Place(t)
      BY <2>1, <2>2, <3>1, <3>2
    <3>. QED BY <2>1, <3>3
  <2>3. ASSUME UNCHANGED opfs, \A t \in Tables : staging'[t] \subseteq staging[t]
        PROVE  ChunksInv'
    <3>1. \A t \in Tables : staging[t] \subseteq Rows
      BY <1>0
    <3>2. tier' = "spill" => \A t \in Tables : \A r \in staging'[t] : ~Failed(r.file)' => r.file = Place(t)'
      <4>. HIDE DEF Place
      <4>. QED BY <1>2, <2>2, <2>3, <3>1
    <3>. HIDE DEF Place
    <3>. QED BY <1>3, <1>4, <2>3, <3>2
  <2>4. ASSUME NEW due \in SUBSET Tables, NEW staged, NEW bytes, NEW aborts, NEW how,
               RotateOrAbort(due, staged, bytes, aborts, how), \A t \in Tables : staged[t] \subseteq Rows,
               tier = "spill" => \A t \in Tables : \A r \in staged[t] : ~Failed(r.file) => r.file = Place(t),
               due = {} \/ tier = "spill"
        PROVE  ChunksInv'
    <3>1. RotateOrAbort(due, staged, bytes, aborts, how)
      BY <2>4
    <3>2. /\ \A t \in Tables : staging'[t] \subseteq staged[t]
          /\ \A p \in DOMAIN opfs' : \/ p \in DOMAIN opfs /\ opfs'[p] = opfs[p]
                                     \/ \E t \in due : opfs'[p] = staged[t]
      BY <3>1, Rotated
    <3>3. tier' = "spill" => \A t \in Tables : \A r \in staging'[t] : ~Failed(r.file)' => r.file = Place(t)'
      <4>. HIDE DEF Place
      <4>. QED BY <2>2, <2>4, <3>2
    <3>4. ASSUME NEW p \in DOMAIN opfs', NEW r \in opfs'[p], NEW s \in opfs'[p], ~Failed(r.file)', ~Failed(s.file)'
          PROVE  r.file = s.file
      <4>1. CASE p \in DOMAIN opfs /\ opfs'[p] = opfs[p]
        <5>1. r \in Rows /\ s \in Rows
          BY <1>0, <3>4, <4>1
        <5>2. ~Failed(r.file) /\ ~Failed(s.file)
          BY <1>1, <3>4, <5>1
        <5>. QED BY <1>2, <3>4, <4>1, <5>2
      <4>2. ASSUME NEW t \in due, opfs'[p] = staged[t]
            PROVE  r.file = s.file
        <5>1. r \in staged[t] /\ s \in staged[t] /\ r \in Rows /\ s \in Rows /\ t \in Tables /\ tier = "spill"
          BY <2>4, <3>4, <4>2
        <5>2. ~Failed(r.file) /\ ~Failed(s.file)
          BY <1>1, <3>4, <5>1
        <5>3. r.file = Place(t) /\ s.file = Place(t)
          BY <2>4, <5>1, <5>2
        <5>. QED BY <5>3
      <4>. QED BY <3>2, <3>4, <4>1, <4>2
    <3>. HIDE DEF Place
    <3>. QED BY <1>3, <3>3, <3>4
  <2>5. CASE RunAppend
    <3>1. CASE UNCHANGED <<opfs, staging>>
      BY <2>3, <3>1
    <3>2. CASE ~UNCHANGED <<opfs, staging>>
      <4>0. Running("append") /\ Head(queue) \in Operations
        BY <1>0, <2>5, QueueType DEF SessionTypeOK, RunAppend
      <4>1. PICK t \in Tables, row \in Rows : t = Head(queue).table /\ row = Head(queue).row
        BY <4>0 DEF Operations
      <4>. DEFINE staged == [staging EXCEPT ![t] = @ \cup {row}]
                  bytes  == [stagedBytes EXCEPT ![t] = @ + 1]
      <4>2. IF tier = "memory" \/ bytes[t] < RotateAt
            THEN staging' = staged /\ UNCHANGED opfs
            ELSE \E how \in {"ok", "error", "quota"} : RotateOrAbort({t}, staged, bytes, TRUE, how)
        BY <2>5, <3>2, <4>1 DEF RunAppend, storeVars
      <4>3. ~Failed(row.file) => row.file = Place(t)
        <5>1. /\ \E a \in appends : a.row = row
              /\ t = FilesTable <=> row.file = None
          BY <1>0, <4>0, <4>1, RunningIs
        <5>. QED BY <5>1, AppendsAreOfTheCurrentFile
      <4>4. /\ \A u \in Tables : staged[u] \subseteq Rows
            /\ tier = "spill" => \A u \in Tables : \A r \in staged[u] : ~Failed(r.file) => r.file = Place(u)
        <5>1. \A u \in Tables : staged[u] = IF u = t THEN staging[u] \cup {row} ELSE staging[u]
          BY <1>0
        <5>2. \A u \in Tables : staging[u] \subseteq Rows
          BY <1>0
        <5>. HIDE DEF staged, Place
        <5>3. \A u \in Tables : staged[u] \subseteq Rows
          BY <4>1, <5>1, <5>2
        <5>4. ASSUME tier = "spill", NEW u \in Tables, NEW r \in staged[u], ~Failed(r.file)
              PROVE  r.file = Place(u)
          <6>1. CASE r \in staging[u]
            BY <1>2, <5>4, <6>1
          <6>2. CASE u = t /\ r = row
            BY <4>3, <5>4, <6>2
          <6>. QED BY <5>1, <5>4, <6>1, <6>2
        <5>. QED BY <5>3, <5>4
      <4>. HIDE DEF staged, bytes, Place
      <4>5. CASE tier = "memory" \/ bytes[t] < RotateAt
        <5>1. tier' = "spill" => \A u \in Tables : \A r \in staging'[u] : ~Failed(r.file)' => r.file = Place(u)'
          <6>1. \A u \in Tables : staging'[u] \subseteq staged[u]
            BY <4>2, <4>5
          <6>. QED BY <2>2, <4>4, <6>1
        <5>2. UNCHANGED opfs
          BY <4>2, <4>5
        <5>. QED BY <1>3, <1>4, <5>1, <5>2
      <4>6. CASE ~(tier = "memory" \/ bytes[t] < RotateAt)
        <5>1. PICK how, aborts : RotateOrAbort({t}, staged, bytes, aborts, how)
          BY <4>2, <4>6
        <5>2. tier = "spill" /\ {t} \in SUBSET Tables
          BY <1>0, <4>1, <4>6
        <5>. QED BY <2>4, <4>4, <5>1, <5>2
      <4>. QED BY <4>5, <4>6
    <3>. QED BY <3>1, <3>2
  <2>6. CASE RunFlush \/ RunResidual
    <3>1. CASE UNCHANGED <<opfs, staging>>
      BY <2>3, <3>1
    <3>2. CASE ~UNCHANGED <<opfs, staging>>
      <4>1. PICK how, aborts : RotateOrAbort(Due, staging, stagedBytes, aborts, how)
        BY <2>6, <3>2 DEF RunFlush, RunResidual, storeVars
      <4>2. Due = {} \/ tier = "spill"
        BY <1>0 DEF DueInv, Due, Zero, SessionTypeOK
      <4>3. \A t \in Tables : staging[t] \subseteq Rows
        BY <1>0
      <4>. HIDE DEF Place
      <4>. QED BY <1>0, <1>2, <2>4, <4>1, <4>2, <4>3
    <3>. QED BY <3>1, <3>2
  <2>7. CASE RunDiscard
    <3>1. UNCHANGED opfs /\ \A t \in Tables : staging'[t] \subseteq staging[t]
      <4>1. CASE UNCHANGED staging
        BY <2>7, <4>1 DEF RunDiscard
      <4>2. CASE ~UNCHANGED staging
        BY <2>7, <4>2 DEF RunDiscard
      <4>. QED BY <4>1, <4>2
    <3>. QED BY <2>3, <3>1
  <2>8. CASE RunCommit \/ RunDrop
    <3>1. UNCHANGED opfs /\ staging' \in {staging, Empty}
      BY <2>8 DEF RunCommit, RunDrop, DropStaging
    <3>2. \A t \in Tables : staging'[t] \subseteq staging[t]
      BY <3>1 DEF Empty
    <3>. QED BY <2>3, <3>1, <3>2
  <2>. QED BY <1>7, <2>5, <2>6, <2>7, <2>8 DEF RunOperation
<1>. QED BY <1>5, <1>6, <1>7

-----------------------------------------------------------------------------
(* The theorem.                                                              *)

IndInv == TypeOK /\ ControlInv /\ StagingInv /\ DueInv /\ ChunksInv

LEMMA InvInit == Init => IndInv
<1>. SUFFICES ASSUME Init PROVE IndInv
  OBVIOUS
<1>1. TypeOK
  <2>1. SessionTypeOK
    BY TypesBeforeIngests DEF Init
  <2>2. NoRow \in Rows /\ 0 \in 0..FilesPerOpen /\ 0 \in 0..MaxBatches /\ 0 \in 0..Window
    BY IntakeAssumption, IngestAssumption DEF NoRow, Rows
  <2>. QED BY <2>1, <2>2 DEF Init, TypeOK, Waits, Causes, None
<1>2. CallInv /\ StateInv /\ QueueInv /\ AppendsInv
  BY DEF Init, IngestInit, CallInv, StateInv, QueueInv, AppendsInv, NoCall
<1>3. ParseInv
  BY DEF Init, IngestInit, ParseInv, InStage, None, Files
<1>4. StagingInv /\ DueInv /\ ChunksInv
  BY DEF Init, IngestInit, StagingInv, DueInv, ChunksInv, Intact, Empty, Zero, NoCall
<1>. QED BY <1>1, <1>2, <1>3, <1>4, OwnerAtFirst DEF IndInv, ControlInv

LEMMA InvKept == IndInv /\ [Next]_vars => IndInv'
<1>. SUFFICES ASSUME IndInv, Next \/ UNCHANGED vars PROVE IndInv'
  OBVIOUS
<1>1. /\ TypeOK /\ ControlInv /\ StagingInv /\ DueInv /\ ChunksInv
      /\ OwnerInv /\ CallInv /\ StateInv /\ QueueInv /\ AppendsInv /\ ParseInv
  BY DEF IndInv, ControlInv
<1>2. ControlInv'
  BY <1>1, OwnerKept, CallAndStateKept, QueueKept, AppendsKept, ParseKept DEF ControlInv
<1>3. TypeOK' /\ StagingInv' /\ DueInv' /\ ChunksInv'
  BY <1>1, TypeKept, StagingKept, DueKept, ChunksKept
<1>. QED BY <1>2, <1>3 DEF IndInv

\* The types of Intake's state hold whatever opens, cancels and failures overlap.
THEOREM IntakeTypes == Spec => []TypeOK
BY InvInit, InvKept, PTL DEF Spec, IndInv

\* Whichever opens, cancels and failures overlap, and with a whole window of batches still
\* chained behind the one that failed, no chunk mixes two files whose parses have not failed:
\* appendBatch stages under the current file, beginFile flushes before it moves on, and only
\* a failed file has an onBatch running while it is discarded or after.
THEOREM ChunksAreKeptApart == Spec => []ChunksKeepFilesApart
<1>1. IndInv => ChunksKeepFilesApart
  BY DEF IndInv, ChunksInv, ChunksKeepFilesApart
<1>. QED BY <1>1, InvInit, InvKept, PTL DEF Spec
=============================================================================
