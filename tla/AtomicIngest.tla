----------------------------- MODULE AtomicIngest -----------------------------
(***************************************************************************)
(* What an ingest promises a reader of the database: the queryable rows      *)
(* change only when a finalize publishes, and then they become exactly the   *)
(* rows the ingest has accepted, all at once.  Accepting a batch, dropping   *)
(* the batches of a file that failed and giving an ingest up show nothing.   *)
(***************************************************************************)
CONSTANT Row

VARIABLES
    published,   \* the rows a query can reach
    pending      \* the rows the open ingest has accepted and kept

vars == <<published, pending>>

Init == published = {} /\ pending = {}

Accept ==
    /\ \E r \in Row \ pending : pending' = pending \cup {r}
    /\ UNCHANGED published

\* A skipped file's rows, or all of them when the next ingest starts.
Drop ==
    /\ \E S \in SUBSET pending : pending' = pending \ S
    /\ UNCHANGED published

Publish == published' = pending /\ UNCHANGED pending

Close == published' = {} /\ UNCHANGED pending

Next == Accept \/ Drop \/ Publish \/ Close

Spec == Init /\ [][Next]_vars
=============================================================================
