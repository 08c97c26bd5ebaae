------------------------------- MODULE PackDriver -------------------------------
(***************************************************************************)
(* The source a format pack opens: openFramedSource (driver.ts) over a framer, the   *)
(* projection session (session.ts, batch.ts) and the emission of rows and dissects   *)
(* (emit.ts), pulled by the parse worker.                                        *)
(*                                                                         *)
(* A framed record is what its rows do: a row is [table, kept, fails, at, chains], where  *)
(* kept is its filter, fails what its columns throw ("no", "value", "field", or "cell" for  *)
(* a value its column cannot hold) and at its range in its payload.  A chain is            *)
(* [payload, at, links], a link [when, parses, rows, deeper].                          *)
(***************************************************************************)
EXTENDS Integers, Sequences, FiniteSets, SequencesExt, FiniteSetsExt, TLC

CONSTANTS
    Files,           \* bound: what the framer makes of the files: [records, reports, ends]
    Outputs,         \* the tables in the order of the outputs, errors the last
    ParentOf,        \* the parent of each child table
    flushRowThreshold, yieldInterval,
    Null

VARIABLES
    file, at,              \* the file, and the records the framer has yielded
    session,               \* the projection session: builders, keys, chunks, pendingRows, issues
    pump,                  \* idle, starting, framing or yielding: the call that is under way
    sinceYield, consumed, reportedConsumed,
    pending, tailEmitted, drained, failure,  \* of the source
    aborted,               \* the signal
    delivered,             \* history: the batches the caller has
    progress               \* history: what was reported of it

packVars == <<file, at, session, pump, sinceYield, consumed, reportedConsumed, pending, tailEmitted,
              drained, failure, aborted, delivered, progress>>

Init ==
    /\ file \in Files /\ at = 0
    /\ session = [builders |-> [t \in ToSet(Outputs) |-> <<>>], keys |-> [t \in ToSet(Outputs) |-> 0],
                  pendingRows |-> 0, issues |-> <<>>, thrown |-> Null]
    /\ pump = "idle" /\ sinceYield = 0 /\ consumed = Null /\ reportedConsumed = Null
    /\ pending = <<>> /\ tailEmitted = FALSE /\ drained = FALSE /\ failure = Null
    /\ aborted = FALSE /\ delivered = <<>> /\ progress = <<>>

-----------------------------------------------------------------------------
(* Emission.  A throw leaves what was emitted before it.                            *)

\* A column whose values do not fit throws when its rows are sealed, and they stay.
Unsealable(rows) == \E row \in ToSet(rows) : row.cell

push(s, row) ==
    LET rows   == Append(s.builders[row.table], row)
        unfit  == Len(rows) >= flushRowThreshold /\ Unsealable(rows)
        stored == [s EXCEPT !.builders[row.table] = rows]
    IN  IF unfit THEN [stored EXCEPT !.thrown = "value"] ELSE [stored EXCEPT !.pendingRows = @ + 1]

Reported(s, stage, code) == [s EXCEPT !.issues = Append(@, <<stage, code>>)]
Shift(range, base) == <<range[1] + base, range[2] + base>>

RECURSIVE emitRow(_, _, _, _, _)

\* The rows of a payload that a parser has read: their ranges are relative to it.
projectChildTable(s, rows, keysByTable, buffer) ==
    FoldLeft(LAMBDA t, row : emitRow(t, row, keysByTable, buffer, row.at), s, rows)

\* A bug to be caught: a payload is compared with its buffer by its length alone.
OverrunsByLength(chain, enclosing) == enclosing # Null /\ chain.at[2] - chain.at[1] > enclosing[2] - enclosing[1]

\* Nothing is known of the length of the file: payloads in it are not checked.
Overruns(chain, enclosing) == enclosing # Null /\ chain.at[2] > enclosing[2] - enclosing[1]

\* Whatever the first link whose guard holds does, no other is tried.  enclosing is the buffer
\* the chain is evaluated in, Null for the file.
RECURSIVE fireDissect(_, _, _, _)
fireDissect(s, chain, keysByTable, enclosing) ==
    LET guarded == SelectSeq(chain.links, LAMBDA link : link.when)
        link    == Head(guarded)
        buffer  == Shift(chain.at, IF enclosing = Null THEN 0 ELSE enclosing[1])
        deepen(t, next) == fireDissect(t, next, keysByTable, buffer)
    IN  IF s.thrown # Null THEN s
        ELSE IF ~chain.payload \/ Overruns(chain, enclosing) THEN Reported(s, "dissecting", "DISSECT_PAYLOAD_INVALID")
        ELSE IF guarded = <<>> THEN s
        ELSE IF ~link.parses THEN Reported(s, "dissecting", "DISSECT_PARSE_FAILED")
        ELSE FoldLeft(deepen, projectChildTable(s, link.rows, keysByTable, buffer), link.deeper)

\* The key is taken before the columns are evaluated, and by rows that are kept only.
emitRow(s, row, keysByTable, enclosing, within) ==
    LET key    == s.keys[row.table] + 1
        keyed  == [s EXCEPT !.keys[row.table] = key]
        parent == IF row.table \notin DOMAIN ParentOf THEN Null
                  ELSE IF ParentOf[row.table] \in DOMAIN keysByTable THEN keysByTable[ParentOf[row.table]] ELSE Null
        range  == IF enclosing = Null THEN within ELSE Shift(within, enclosing[1])
        pushed == push(keyed, [table |-> row.table, key |-> key, parent |-> parent, range |-> range,
                               buffer |-> enclosing, cell |-> row.fails = "cell"])
        keys   == (row.table :> key) @@ keysByTable
    IN  IF s.thrown # Null \/ ~row.kept THEN s
        ELSE IF row.fails \in {"value", "field"} THEN [keyed EXCEPT !.thrown = row.fails]
        ELSE FoldLeft(LAMBDA t, chain : fireDissect(t, chain, keys, enclosing), pushed, row.chains)

\* projectInto: each row of the root tables, in the order of the file.
project(s, record) == FoldLeft(LAMBDA t, row : emitRow(t, row, <<>>, Null, row.at), s, record.rows)

-----------------------------------------------------------------------------
(* The session's batches.                                                  *)

Batch(table, rows) == [table |-> table, rows |-> rows]
Held(s) == SelectSeq(Outputs, LAMBDA t : s.builders[t] # <<>>)

drainThrows(s) == \E t \in ToSet(Outputs) : Unsealable(s.builders[t])
drain(s) == [i \in DOMAIN Held(s) |-> Batch(Held(s)[i], s.builders[Held(s)[i]])]
Emptied(s) == [s EXCEPT !.builders = [t \in ToSet(Outputs) |-> <<>>], !.pendingRows = 0]

appendIssue(s, issue) ==
    LET key == s.keys["errors"] + 1
    IN  [push(s, [table |-> "errors", key |-> key, parent |-> Null, range |-> <<0, 0>>, buffer |-> Null,
                  cell |-> FALSE, issue |-> issue]) EXCEPT !.keys["errors"] = key]

\* finishTail: the issues become rows, those of the framer first; then every table with rows,
\* and errors in any case.
WithIssues(s) == FoldLeft(appendIssue, s, file.reports \o s.issues)
finishTail(s) ==
    LET tables == SelectSeq(Outputs, LAMBDA t : t = "errors" \/ s.builders[t] # <<>>)
    IN  [i \in DOMAIN tables |-> Batch(tables[i], s.builders[tables[i]])]

-----------------------------------------------------------------------------
(* The source.                                                             *)

Fails(error) == failure' = error /\ pump' = "idle" /\ UNCHANGED <<pending, delivered, drained>>
Delivers(batches) ==
    /\ delivered' = Append(delivered, Head(batches)) /\ pending' = Tail(batches)
    /\ pump' = "idle" /\ UNCHANGED <<failure, drained>>

flushBytes(value, force) ==
    IF value = Null \/ (~force /\ value = reportedConsumed) THEN UNCHANGED <<reportedConsumed, progress>>
    ELSE reportedConsumed' = value /\ progress' = Append(progress, value)

\* After a record, with the session at s: a drain, or the next record.
Flushed(s) ==
    IF s.pendingRows >= flushRowThreshold
    THEN IF drainThrows(s) THEN Fails("seal") /\ session' = s
         ELSE IF drain(s) # <<>> THEN session' = Emptied(s) /\ Delivers(drain(s))
         ELSE session' = Emptied(s) /\ pump' = "framing" /\ UNCHANGED <<failure, pending, delivered, drained>>
    ELSE /\ session' = s
         /\ IF aborted THEN Fails("abort")
            ELSE pump' = "framing" /\ UNCHANGED <<failure, pending, delivered, drained>>

\* nextBatch.  The first call looks at the head of the file to choose a container.
NextBatch ==
    /\ pump = "idle" /\ ~drained /\ failure = Null
    /\ IF aborted /\ (at > 0 \/ tailEmitted) THEN Fails("abort")
       ELSE IF pending # <<>> THEN Delivers(pending)
       ELSE IF tailEmitted THEN drained' = TRUE /\ UNCHANGED <<pump, failure, pending, delivered>>
       ELSE pump' = (IF at = 0 THEN "starting" ELSE "framing") /\ UNCHANGED <<drained, failure, pending, delivered>>
    /\ UNCHANGED <<file, at, session, sinceYield, consumed, reportedConsumed, tailEmitted, aborted, progress>>

\* The container is known: probed or named by the caller; a name may be unknown.
Started ==
    /\ pump = "starting"
    /\ IF aborted THEN Fails("abort")
       ELSE \/ pump' = "framing" /\ UNCHANGED <<failure, pending, delivered, drained>>
            \/ Fails("open")
    /\ UNCHANGED <<file, at, session, sinceYield, consumed, reportedConsumed, tailEmitted, aborted, progress>>

\* The framer yields a record.
Record ==
    /\ pump = "framing" /\ at < Len(file.records)
    /\ LET s       == project(session, file.records[at + 1])
           settled == [s EXCEPT !.thrown = Null]
           after   == IF s.thrown = Null THEN s ELSE Reported(settled, "projecting", "PROJECTION_FAILED")
       IN  /\ at' = at + 1 /\ consumed' = at + 1
           /\ IF s.thrown = "field" THEN Fails("field") /\ session' = settled /\ UNCHANGED sinceYield
              ELSE IF sinceYield + 1 >= yieldInterval
              THEN /\ sinceYield' = 0 /\ pump' = "yielding" /\ session' = after
                   /\ UNCHANGED <<failure, pending, delivered, drained>>
              ELSE sinceYield' = sinceYield + 1 /\ Flushed(after)
    /\ UNCHANGED <<file, reportedConsumed, tailEmitted, aborted, progress>>

Resumed ==
    /\ pump = "yielding"
    /\ IF aborted THEN Fails("abort") /\ UNCHANGED <<session, reportedConsumed, progress>>
       ELSE flushBytes(consumed, FALSE) /\ Flushed(session)
    /\ UNCHANGED <<file, at, sinceYield, consumed, tailEmitted, aborted>>

\* The framer has no more: done, or it throws.
Ended ==
    /\ pump = "framing" /\ at = Len(file.records)
    /\ IF file.ends # "done"
       THEN Fails(file.ends) /\ UNCHANGED <<session, tailEmitted, reportedConsumed, progress>>
       ELSE LET s == WithIssues(session) IN
            IF drainThrows(s) \/ s.thrown # Null
            THEN Fails("seal") /\ session' = s /\ UNCHANGED <<tailEmitted, reportedConsumed, progress>>
            ELSE /\ session' = Emptied(s) /\ tailEmitted' = TRUE /\ flushBytes(consumed, TRUE)
                 /\ Delivers(finishTail(s))
    /\ UNCHANGED <<file, at, sinceYield, consumed, aborted>>

Abort == ~aborted /\ aborted' = TRUE
         /\ UNCHANGED <<file, at, session, pump, sinceYield, consumed, reportedConsumed, pending, tailEmitted,
                        drained, failure, delivered, progress>>

Next == NextBatch \/ Started \/ Record \/ Resumed \/ Ended \/ Abort
Spec == Init /\ [][Next]_packVars

-----------------------------------------------------------------------------
(* Properties.                                                             *)

RowsOf(batches, table) ==
    FoldLeft(LAMBDA rows, b : IF b.table = table THEN rows \o b.rows ELSE rows, <<>>, batches)
Out(table) == RowsOf(delivered \o pending, table) \o session.builders[table]

\* The records read, projected at once.
AtOnce ==
    FoldLeft(LAMBDA s, record : [project(s, record) EXCEPT !.thrown = Null],
             [builders |-> [t \in ToSet(Outputs) |-> <<>>], keys |-> [t \in ToSet(Outputs) |-> 0],
              pendingRows |-> 0, issues |-> <<>>, thrown |-> Null],
             SubSeq(file.records, 1, at))

\* Wherever the batches end, and whatever a record threw half way: they hold the rows of the
\* records in order, each once, and the source ends with the errors, those of the framer first
\* (driver.ts:70-74, session.ts:40-51).  A value that does not fit fails the source later.
BatchesAreWhole ==
    /\ (\A t \in ToSet(Outputs) : ~Unsealable(Out(t))) =>
         \A t \in ToSet(Outputs) \ {"errors"} : Out(t) = AtOnce.builders[t]
    /\ drained =>
         /\ Last(delivered).table = "errors" /\ RowsOf(delivered, "errors") = Last(delivered).rows
         /\ [i \in DOMAIN Last(delivered).rows |-> Last(delivered).rows[i].issue] = file.reports \o session.issues
         /\ \A t \in ToSet(Outputs) : session.builders[t] = <<>>
         /\ (at > 0 => Last(progress) = at)
    /\ \A i \in 2..Len(progress) : progress[i - 1] <= progress[i]

\* The n-th interface has the key n, which packets refer to, though the rows of others could not be
\* made; a child's parent is a row that is out before it, and its range lies in the payload it
\* was read from (emit.ts:163-164, 193, 262-278, framer.ts:14-15).
RowsAreLinked ==
    /\ \A r \in ToSet(Out("interfaces")) :
         \E i \in 1..at : Cardinality({k \in 1..i : file.records[k].rows # <<>> /\ file.records[k].rows[1].table = "interfaces"}) = r.key
                          /\ file.records[i].rows # <<>> /\ file.records[i].rows[1].at = r.range
    /\ \A t \in DOMAIN ParentOf : \A r \in ToSet(Out(t)) :
         \E p \in ToSet(Out(ParentOf[t])) :
           LET payload == IF p.buffer = Null THEN p.range ELSE p.buffer
           IN  p.key = r.parent /\ r.buffer[1] >= payload[1] /\ r.buffer[2] <= payload[2]

PackIsExact == BatchesAreWhole /\ RowsAreLinked

=============================================================================
