------------------------------ MODULE CsvExport ------------------------------
(***************************************************************************)
(* How the rows of one download reach its file: the page loop of               *)
(* performDownload (result-exporter.ts), the client of the CSV worker           *)
(* (csv-client.ts), the worker (csv.worker.ts) and the destination they write    *)
(* to (destination.ts), for downloads one after another.                        *)
(*                                                                         *)
(* The client and the worker share nothing but two channels.  A page is encoded *)
(* as a run of chunks, each written before the worker is told to go on; a chunk  *)
(* is known as <<page, sequence>>.  The words of ResultExporter's sink are those  *)
(* of the destination's state.                                                 *)
(***************************************************************************)
EXTENDS Naturals, Sequences, FiniteSets, SequencesExt

CONSTANTS
    MaxDownloads,  \* bound: downloads
    Pages,         \* pages of the result
    Chunks,        \* chunks of a page
    BlobLimit      \* chunks a file kept in memory may hold

\* Of the constants; assumed by the module that instantiates this one.
CsvExportAssumption ==
    /\ {MaxDownloads, BlobLimit} \subseteq Nat
    /\ {Pages, Chunks} \subseteq Nat \ {0}

VARIABLES
    client,    \* the client: "starting", "ready", "unavailable" or "disposed"
    active,    \* its encode under way, or NoEncode
    lastId,    \* nextId
    toWorker,  \* the messages on their way to the worker
    toClient,  \* and from it
    encoding,  \* the worker's encodes: what each waits to be acknowledged
    dl,        \* the download: its turn, page and file
    dest,      \* the destination's state, its backend and what holds it up
    file       \* what the backend has stored, and whether it is closed

csvVars == <<client, active, lastId, toWorker, toClient, encoding, dl, dest, file>>

NoEncode == [id |-> 0]
NoDest   == [state |-> "none", backend |-> "none", abort |-> "no"]
NoFile   == [chunks |-> <<>>, at |-> "none"]

Whole == [k \in 1..(Pages * Chunks) |-> <<(k - 1) \div Chunks + 1, (k - 1) % Chunks>>]

Init ==
    /\ client = "starting" /\ active = NoEncode /\ lastId = 0
    /\ toWorker = <<>> /\ toClient = <<[type |-> "ready", id |-> 0]>> /\ encoding = {}
    /\ dl = [n |-> 0, at |-> "done", page |-> 0, format |-> "csv", aborted |-> FALSE,
             writing |-> <<>>, outcome |-> "none"]
    /\ dest = NoDest /\ file = NoFile

LOCAL workerVars == <<toClient, encoding>>
LOCAL clientVars == <<client, active, lastId>>

-----------------------------------------------------------------------------
(* The client.                                                             *)

Send(message) == toWorker' = Append(toWorker, message)

\* encode() of the download's page; a client that cannot take it rejects.
Encodes(page) ==
    IF client = "ready"
    THEN /\ lastId' = lastId + 1
         /\ active' = [id |-> lastId', next |-> 0]
         /\ Send([type |-> "encode", id |-> lastId', page |-> page])
         /\ dl' = [dl EXCEPT !.at = "encode", !.page = page]
         /\ UNCHANGED client
    ELSE dl' = [dl EXCEPT !.at = "unwind"] /\ UNCHANGED <<clientVars, toWorker>>

\* settle(): the download goes on from where it awaits the encode.
Rejects == active' = NoEncode /\ dl' = [dl EXCEPT !.at = "unwind"]

\* failWorker, and the worker's messages with it.
WorkerFails ==
    /\ client \in {"starting", "ready"}
    /\ client' = "unavailable"
    /\ IF active = NoEncode THEN UNCHANGED <<active, dl>> ELSE Rejects
    /\ toWorker' = <<>> /\ toClient' = <<>> /\ encoding' = {}
    /\ UNCHANGED <<lastId, dest, file>>

\* dispose() of the client.
DisposeClient ==
    /\ client # "disposed"
    /\ client' = "disposed"
    /\ IF active = NoEncode THEN UNCHANGED <<active, dl>> ELSE Rejects
    /\ toWorker' = <<>> /\ toClient' = <<>> /\ encoding' = {}
    /\ UNCHANGED <<lastId, dest, file>>

\* A bug to be caught: a chunk is taken whichever encode it is of.
IsForActive == active # NoEncode

\* handleMessage: only of the encode under way.
ForActive == active # NoEncode /\ Head(toClient).id = active.id

Received == toClient' = Tail(toClient)

IsReady ==
    /\ toClient # <<>> /\ Head(toClient).type = "ready"
    /\ Received
    /\ client' = "ready"
    /\ UNCHANGED <<active, lastId, toWorker, encoding, dl, dest, file>>

\* write() of a destination that is open; of any other it rejects at once, and the
\* worker is told to stop.
TakesChunk ==
    /\ toClient # <<>> /\ Head(toClient).type = "chunk"
    /\ Received
    /\ LET chunk == <<Head(toClient).page, Head(toClient).sequence>> IN
       IF ForActive /\ chunk[2] = active.next /\ dl.writing = <<>>
       THEN IF dest.state = "open"
            THEN dl' = [dl EXCEPT !.writing = chunk] /\ UNCHANGED <<active, toWorker>>
            ELSE Send([type |-> "cancel", id |-> active.id]) /\ Rejects
       ELSE UNCHANGED <<active, toWorker, dl>>
    /\ UNCHANGED <<client, lastId, encoding, dest, file>>

\* The page is done: the next one is read, or the file is committed.
TakesDone ==
    /\ toClient # <<>> /\ Head(toClient).type = "done"
    /\ Received
    /\ IF ForActive
       THEN /\ active' = NoEncode
            /\ dl' = [dl EXCEPT !.at = IF dl.page < Pages THEN "read" ELSE "save"]
       ELSE UNCHANGED <<active, dl>>
    /\ UNCHANGED <<client, lastId, toWorker, encoding, dest, file>>

TakesError ==
    /\ toClient # <<>> /\ Head(toClient).type = "error"
    /\ Received
    /\ IF ForActive THEN Rejects ELSE UNCHANGED <<active, dl>>
    /\ UNCHANGED <<client, lastId, toWorker, encoding, dest, file>>

-----------------------------------------------------------------------------
(* The worker.                                                             *)

\* postChunk, and then waitForAck.
Posts(e) ==
    /\ toClient' = Append(toClient, [type |-> "chunk", id |-> e.id, page |-> e.page,
                                     sequence |-> e.sequence])
    /\ encoding' = {x \in encoding : x.id # e.id} \cup {e}

Ends(id, type) ==
    /\ toClient' = Append(toClient, [type |-> type, id |-> id])
    /\ encoding' = {x \in encoding : x.id # id}

\* runEncode starts, and its chunks come one at a time; a row that cannot be encoded may
\* be in any of them.
StartsEncode(m) ==
    \/ Posts([id |-> m.id, page |-> m.page, sequence |-> 0])
    \/ Ends(m.id, "error")

IsAcknowledged(m) ==
    LET waiting == {x \in encoding : x.id = m.id /\ x.sequence = m.sequence} IN
    IF waiting = {} THEN UNCHANGED workerVars
    ELSE \E x \in waiting :
           IF x.sequence + 1 < Chunks
           THEN Posts([x EXCEPT !.sequence = @ + 1]) \/ Ends(x.id, "error")
           ELSE Ends(x.id, "done")

\* A cancelled encode says nothing more.
IsCancelled(m) == encoding' = {x \in encoding : x.id # m.id} /\ UNCHANGED toClient

WorkerTakes ==
    /\ toWorker # <<>>
    /\ toWorker' = Tail(toWorker)
    /\ LET m == Head(toWorker) IN
       \/ m.type = "encode" /\ StartsEncode(m)
       \/ m.type = "ack" /\ IsAcknowledged(m)
       \/ m.type = "cancel" /\ IsCancelled(m)
    /\ UNCHANGED <<clientVars, dl, dest, file>>

-----------------------------------------------------------------------------
(* The destination.                                                        *)

\* The backends a browser offers: a file the user picks, a file of the origin's own
\* file system, or memory, which Parquet does not fit.
Backends(format) == {"picked", "internal"} \cup (IF format = "csv" THEN {"blob"} ELSE {})

Open(backend) ==
    /\ dest' = [state |-> "open", backend |-> backend, abort |-> "no"]
    /\ file' = [chunks |-> <<>>, at |-> "writing"]

\* abort(): the backend is told once.
Aborted(d) ==
    IF d.state \in {"open", "committing", "aborted"}
    THEN [d EXCEPT !.state = "aborted", !.abort = IF @ = "no" THEN "asked" ELSE @]
    ELSE d

\* The backend aborts: what it holds is dropped, whatever a file it has closed.
BackendAborts ==
    /\ dest.abort = "asked"
    /\ dest' = [dest EXCEPT !.abort = "done"]
    /\ file' = IF file.at = "writing" THEN [chunks |-> <<>>, at |-> "dropped"] ELSE file
    /\ UNCHANGED <<clientVars, toWorker, workerVars, dl>>

Full == dest.backend = "blob" /\ Len(file.chunks) >= BlobLimit

\* A write has ended; what awaited it goes on.
Written ==
    IF dl.format = "parquet"
    THEN /\ dl' = [dl EXCEPT !.writing = <<>>,
                             !.at = IF dl.at # "copy" THEN dl.at
                                    ELSE IF dl.aborted THEN "unwind"
                                    ELSE IF Len(file'.chunks) = Len(Whole) THEN "save" ELSE "copy"]
         /\ UNCHANGED <<active, toWorker>>
    ELSE IF active # NoEncode
    THEN /\ Send([type |-> "ack", id |-> active.id, sequence |-> dl.writing[2]])
         /\ active' = [active EXCEPT !.next = @ + 1]
         /\ dl' = [dl EXCEPT !.writing = <<>>]
    ELSE dl' = [dl EXCEPT !.writing = <<>>] /\ UNCHANGED <<active, toWorker>>

WriteOk ==
    /\ dl.writing # <<>> /\ file.at = "writing" /\ ~Full
    /\ file' = [file EXCEPT !.chunks = Append(@, dl.writing)]
    /\ Written
    /\ UNCHANGED <<client, lastId, workerVars, dest>>

\* It fails, as it does once the backend has been aborted: the destination aborts
\* itself, and then the client cancels the encode.
WriteFails ==
    /\ dl.writing # <<>>
    /\ dest' = IF dest.state \in {"open", "committing"} THEN Aborted(dest) ELSE dest
    /\ IF active # NoEncode
       THEN /\ Send([type |-> "cancel", id |-> active.id])
            /\ active' = NoEncode
            /\ dl' = [dl EXCEPT !.writing = <<>>, !.at = "unwind"]
       ELSE /\ dl' = [dl EXCEPT !.writing = <<>>, !.at = IF @ = "copy" THEN "unwind" ELSE @]
            /\ UNCHANGED <<active, toWorker>>
    /\ UNCHANGED <<client, lastId, workerVars, file>>

-----------------------------------------------------------------------------
(* The download.                                                           *)

\* A download begins when the one before has settled and its file was let go of.
Begins ==
    /\ dl.at = "done" /\ dl.n < MaxDownloads /\ client # "disposed"
    /\ \E format \in {"csv", "parquet"} :
         \/ \E backend \in Backends(format) :
              /\ dl' = [n |-> dl.n + 1, at |-> "start", page |-> 0, format |-> format,
                        aborted |-> FALSE, writing |-> <<>>, outcome |-> "none"]
              /\ Open(backend)
         \/ /\ dl' = [n |-> dl.n + 1, at |-> "done", page |-> 0, format |-> format,
                      aborted |-> FALSE, writing |-> <<>>, outcome |-> "failed"]
            /\ dest' = NoDest /\ file' = NoFile
    /\ UNCHANGED <<clientVars, toWorker, workerVars>>

\* initialize() has settled; or Parquet's file is there to be copied.
Started ==
    /\ dl.at = "start"
    /\ dl.format = "csv" => client # "starting"
    /\ dl' = [dl EXCEPT !.at = IF dl.aborted THEN "unwind"
                               ELSE IF dl.format = "parquet" THEN "copy" ELSE "read"]
    /\ UNCHANGED <<clientVars, toWorker, workerVars, dest, file>>

\* readPage answers: the abort is asked for before the page is encoded.
PageRead ==
    /\ dl.at = "read"
    /\ \/ IF dl.aborted THEN dl' = [dl EXCEPT !.at = "unwind"] /\ UNCHANGED <<clientVars, toWorker>>
                        ELSE Encodes(dl.page + 1)
       \/ dl' = [dl EXCEPT !.at = "unwind"] /\ UNCHANGED <<clientVars, toWorker>>
    /\ UNCHANGED <<workerVars, dest, file>>

\* copyFileToDestination reads its next chunk and writes it.
Copies ==
    /\ dl.at = "copy" /\ dl.writing = <<>>
    /\ dl' = IF dl.aborted \/ dest.state # "open" THEN [dl EXCEPT !.at = "unwind"]
             ELSE [dl EXCEPT !.writing = Whole[Len(file.chunks) + 1]]
    /\ UNCHANGED <<clientVars, toWorker, workerVars, dest, file>>

\* assertCurrent and commit() share one turn.
Commits ==
    /\ dl.at = "save"
    /\ IF dl.aborted \/ dest.state # "open"
       THEN dl' = [dl EXCEPT !.at = "unwind"] /\ UNCHANGED dest
       ELSE dl' = [dl EXCEPT !.at = "commit"] /\ dest' = [dest EXCEPT !.state = "committing"]
    /\ UNCHANGED <<clientVars, toWorker, workerVars, file>>

\* backend.commit() resolves.  A destination aborted meanwhile throws: its file may
\* have been closed all the same.
CommitOk ==
    /\ dl.at = "commit" /\ file.at = "writing"
    /\ file' = [file EXCEPT !.at = "closed"]
    /\ IF dest.state = "committing" /\ ~dl.aborted
       THEN /\ dest' = [dest EXCEPT !.state = "committed"]
            /\ dl' = IF dest.backend = "picked" THEN [dl EXCEPT !.at = "finish"]
                     ELSE [dl EXCEPT !.at = "kept", !.outcome = "ready-to-save"]
       ELSE dest' = dest /\ dl' = [dl EXCEPT !.at = "unwind"]
    /\ UNCHANGED <<clientVars, toWorker, workerVars>>

CommitFails ==
    /\ dl.at = "commit"
    /\ dest' = IF dest.state = "committing" THEN Aborted(dest) ELSE dest
    /\ dl' = [dl EXCEPT !.at = "unwind"]
    /\ UNCHANGED <<clientVars, toWorker, workerVars, file>>

\* dispose(): it waits for the writes and the abort.  A file of the origin's own is
\* deleted, memory forgotten; a picked file stays if it was closed.
Disposed ==
    /\ dl.writing = <<>> /\ dest.abort # "asked"
    /\ dest' = [dest EXCEPT !.state = "disposed"]
    /\ file' = IF dest.backend = "picked" /\ file.at = "closed" THEN file
               ELSE [chunks |-> <<>>, at |-> "dropped"]
    /\ UNCHANGED <<clientVars, toWorker, workerVars>>

Finishes ==
    /\ dl.at = "finish"
    /\ Disposed
    /\ dl' = [dl EXCEPT !.at = "done", !.outcome = "saved"]

\* The catch block: abort, then dispose, then the outcome.
Unwinds ==
    /\ dl.at = "unwind" /\ dest.abort = "no"
    /\ dest.state \in {"open", "committing"}
    /\ dest' = Aborted(dest)
    /\ UNCHANGED <<clientVars, toWorker, workerVars, dl, file>>

Unwound ==
    /\ dl.at = "unwind" /\ dest.state \notin {"open", "committing"}
    /\ Disposed
    /\ dl' = [dl EXCEPT !.at = "done", !.outcome = IF dl.aborted THEN "cancelled" ELSE "failed"]

\* cancel(), supersession and dismissal alike: the signal aborts, the encode rejects and
\* its worker is told, and the destination is aborted.
Cancels ==
    /\ dl.at \notin {"done", "kept"} /\ ~dl.aborted
    /\ IF active = NoEncode
       THEN dl' = [dl EXCEPT !.aborted = TRUE] /\ UNCHANGED <<active, toWorker>>
       ELSE /\ Send([type |-> "cancel", id |-> active.id])
            /\ active' = NoEncode
            /\ dl' = [dl EXCEPT !.aborted = TRUE, !.at = "unwind"]
    /\ dest' = Aborted(dest)
    /\ UNCHANGED <<client, lastId, workerVars, file>>

\* A file that was ready to save is let go of.
Releases ==
    /\ dl.at = "kept"
    /\ Disposed
    /\ dl' = [dl EXCEPT !.at = "done", !.outcome = "none"]

-----------------------------------------------------------------------------

Answers ==
    \/ IsReady \/ TakesChunk \/ TakesDone \/ TakesError
    \/ WorkerTakes
    \/ BackendAborts \/ WriteOk \/ WriteFails
    \/ Started \/ PageRead \/ Copies \/ Commits \/ CommitOk \/ CommitFails
    \/ Finishes \/ Unwinds \/ Unwound

Next == Answers \/ WorkerFails \/ DisposeClient \/ Begins \/ Cancels \/ Releases

Spec == Init /\ [][Next]_csvVars /\ WF_csvVars(Answers)

-----------------------------------------------------------------------------
(* Properties.                                                             *)

\* What is written is the result's rows in order, whichever encodes were cancelled,
\* failed or answered late before; a file reported saved or ready holds all of them,
\* and one that was given up holds none that could be taken for the result
\* (csv-client.ts:139-163, destination.ts:116-163).
FileIsTheResult ==
    /\ file.chunks = SubSeq(Whole, 1, Len(file.chunks))
    /\ dl.outcome \in {"saved", "ready-to-save"} => file = [chunks |-> Whole, at |-> "closed"]
    /\ dl.at = "done" /\ dl.outcome \in {"failed", "cancelled"} =>
         file.at # "writing" /\ (file.at = "closed" => dest.backend = "picked")

\* No download waits for good, and the worker is left encoding nothing of it.
EncodesEnd ==
    ~ENABLED Answers => dl.at \in {"done", "kept"} /\ encoding = {} /\ active = NoEncode

=============================================================================
