------------------------------- MODULE MCIngest -------------------------------
(***************************************************************************)
(* The jobs of the database package, for TLC: an ingest and its caller          *)
(* (IngestCaller), and the sorts and Parquet exports of a result               *)
(* (ShardWorkspace).                                                        *)
(*                                                                         *)
(* A behaviour is about one part, the other keeps its initial values: Database   *)
(* lets no two of these jobs run at a time, and they use files of their own.      *)
(***************************************************************************)
EXTENDS Integers, Sequences, IngestCaller

CONSTANT Null

VARIABLES
    part,                                                             \* what the behaviour is about
    base, job, held, retries, stage, seeds, shards, output, views     \* of ShardWorkspace

\* A result without rows, and one of two pages, the rows of which have a null and a tie.
W == INSTANCE ShardWorkspace WITH
       Bases <- {<<>>, <<<<2, 0>>, <<2>>>>}, MaxJobs <- 2, Directions <- <<"desc", "asc">>, MaxCleanups <- 1,
       PageRows <- 2

ASSUME PartsAssumption == W!ShardWorkspaceAssumption

workspaceVars == <<base, job, held, retries, stage, seeds, shards, output, views>>
mcVars        == <<vars, workspaceVars, part>>

MCInit ==
    /\ part \in {"ingest", "workspace"}
    /\ part = "workspace" \/ base = <<>>
    /\ Init /\ W!Init

InIngest    == part = "ingest" /\ Next /\ UNCHANGED <<part, workspaceVars>>
InWorkspace == part = "workspace" /\ W!Next /\ UNCHANGED <<part, vars>>

\* No sort or export is asked for any more.
Idles == part = "workspace" /\ job.at = "idle" /\ UNCHANGED mcVars

MCNext == InIngest \/ InWorkspace \/ Idles

\* The fairness of IngestCaller.
MCSpec ==
    /\ MCInit /\ [][MCNext]_mcVars
    /\ WF_vars(part = "ingest" /\ RunOperation /\ UNCHANGED callerVars)
    /\ WF_vars(part = "ingest" /\ SessionStep /\ UNCHANGED callerVars)
    /\ WF_vars(part = "ingest" /\ Return)
    /\ WF_vars(part = "ingest" /\ CallerStep)

-----------------------------------------------------------------------------
(* Properties.  Those of IngestCaller are extended.                             *)

\* What sorts and exports produce holds the result's rows, each once and in order.
ResultIsOrdered == part = "workspace" => W!ResultIsOrdered

\* Whatever stops or fails, no job leaves a handle or a file that nothing owns or collects,
\* and none that returns its result leaves a table (shard-workspace.ts:102-165, 256-292).
NothingStranded == part = "workspace" => W!NothingStranded
=============================================================================
