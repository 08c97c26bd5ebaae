----------------------------- MODULE StreamRuntime -----------------------------
(***************************************************************************)
(* The flows of one stream of a capture (stream-runtime.ts): packets in the order  *)
(* of the file, each with some bytes of a connection or a signal of its life, put    *)
(* together by StreamAssembler, cut into messages by the framer, and summed up at     *)
(* the end of the file.                                                            *)
(*                                                                         *)
(* The environment is a file: packets of connections, in any order, twice, altered    *)
(* or not at all.  The first byte of a message is its length, so that what is framed    *)
(* depends on the bytes; a length of 0 is one the framer refuses.  Byte k of the n-th   *)
(* packet is at position Stride * n + k of the file.                                  *)
(***************************************************************************)
EXTENDS StreamAssembler

CONSTANTS
    Connections,  \* those that use the key one after another: [isn, bytes]
    Parts,        \* bound: the runs of bytes a packet may hold, as <<start, length>>
    OffsetBits,   \* offset_bits
    MaxPackets    \* bound: packets of the file

Stride == 16

\* Of the constants; assumed by the module that instantiates this one.
StreamRuntimeAssumption ==
    /\ {OffsetBits, MaxPackets} \subseteq Nat
    /\ \A c \in DOMAIN Connections :
         Connections[c].isn \in Nat /\ Len(Connections[c].bytes) < 2 ^ (OffsetBits - 1)

VARIABLES
    file,      \* the packets read so far
    ordered,   \* every flow there was, the last being the live one
    messages,  \* the messages emitted
    segmentRows, \* the rows of the segments table, written at the end
    at         \* "reading" or "flushed"

streamVars == <<file, ordered, messages, segmentRows, at>>

NewEntry(generation) ==
    [asm |-> NewAssembler, messageCount |-> 0, framingStalled |-> FALSE, status |-> "ok",
     segments |-> <<>>, opened |-> FALSE, openOffset |-> Unset, closedBy |-> "none",
     closeOffset |-> Unset, generation |-> generation, conflictCount |-> 0,
     dataSegmentCount |-> 0, unwrapReference |-> Unset]

Init ==
    /\ file = <<>> /\ ordered = <<>> /\ messages = <<>> /\ segmentRows = <<>> /\ at = "reading"

-----------------------------------------------------------------------------
(* The packets there may be.                                               *)

Packet(c, from, bytes, signal) == [conn |-> c, from |-> from, bytes |-> bytes, signal |-> signal]

Altered(bytes) == [i \in DOMAIN bytes |-> bytes[i] + 1]

Packets(c) ==
    LET all   == Connections[c].bytes
        n     == Len(all)
        parts == {p \in Parts : p[1] + p[2] <= n}
        part(p) == SubSeq(all, p[1] + 1, p[1] + p[2])
    IN  {Packet(c, p[1], part(p), "none") : p \in parts}
        \cup {Packet(c, p[1], Altered(part(p)), "none") : p \in {q \in parts : q[2] = 3}}
        \cup {Packet(c, 0, <<>>, "open"), Packet(c, n, <<>>, "close"), Packet(c, n, <<>>, "reset"),
              Packet(c, 0, part(<<0, 1>>), "open"), Packet(c, n - 1, part(<<n - 1, 1>>), "close")}

\* A connection takes the key over with the packet that opens it.
MayArrive(p) ==
    LET last == IF file = <<>> THEN 1 ELSE Last(file).conn IN
    p.conn = last \/ (p.conn = last + 1 /\ p.signal = "open")

Raw(p) == (Connections[p.conn].isn + p.from) % (2 ^ OffsetBits)

-----------------------------------------------------------------------------
(* Framing.                                                                *)

\* The length of the first message, 0 where the framer refuses.
framer(view) == view[1]

Message(entry, length) ==
    LET start  == entry.asm.consumed
        pieces == segmentsOverlapping(entry.asm, start, start + length)
        clip(s) == LET from == s.start - entry.asm.base IN
                   <<s.src + Greatest(0, start - from),
                     s.src + Least(s.end - s.start, start + length - from)>>
    IN  [flow |-> entry.generation, start |-> start, base |-> entry.asm.base,
         bytes |-> SubSeq(contiguousView(entry.asm), 1, length),
         pieces |-> {clip(s) : s \in ToSet(pieces)}]

\* frameStreamMessages: what is emitted and the flow that is left.
frameStreamMessages(entry) ==
    LET cut(e) == LET view == contiguousView(e.asm) IN
                  IF e.framingStalled \/ view = <<>> THEN <<>>
                  ELSE IF framer(view) > Len(view) THEN <<>> ELSE <<framer(view)>>
        step[n \in 0..MaxBuffer] ==
          IF n = 0 THEN [entry |-> entry, messages |-> <<>>]
          ELSE LET before == step[n - 1]
                   next   == cut(before.entry) IN
               IF next = <<>> THEN before
               ELSE IF next[1] = 0 THEN [before EXCEPT !.entry.framingStalled = TRUE]
               ELSE [entry |-> [before.entry EXCEPT !.asm = consume(@, next[1]), !.messageCount = @ + 1],
                     messages |-> Append(before.messages, Message(before.entry, next[1]))]
    IN  step[MaxBuffer]

-----------------------------------------------------------------------------
(* Contributions.                                                          *)

startsNewGeneration(entry, offset) ==
    IF entry.openOffset # Unset THEN entry.openOffset # offset
    ELSE entry.closedBy # "none" \/ entry.asm.base # offset

advanceUnwrapReference(entry, candidate) ==
    LET reference == entry.unwrapReference
        distance  == IF candidate < reference THEN reference - candidate ELSE candidate - reference
    IN  IF reference = Unset THEN [entry EXCEPT !.unwrapReference = candidate]
        ELSE IF distance <= 2 ^ (OffsetBits - 1)
        THEN [entry EXCEPT !.unwrapReference = Greatest(reference, candidate)]
        ELSE entry

\* A rebase gives a stalled framer another try.
Unstalled(entry, status) == IF status = "rebased" THEN [entry EXCEPT !.framingStalled = FALSE] ELSE entry

\* What the signal of a packet does to its flow, whatever its status.
Opened(entry, p, offset) ==
    IF p.signal = "open" /\ ~entry.opened
    THEN LET anchored == anchor(entry.asm, offset)
             open == [entry EXCEPT !.opened = TRUE, !.openOffset = offset, !.asm = anchored.asm]
         IN  Unstalled(advanceUnwrapReference(open, offset), anchored.status)
    ELSE entry

Closed(entry, p, offset) ==
    LET by == IF p.signal = "reset" \/ (p.signal = "close" /\ entry.closedBy = "none")
              THEN p.signal ELSE entry.closedBy
    IN  [entry EXCEPT !.closedBy = by,
                      !.closeOffset = IF p.signal = "close" THEN Greatest(@, offset) ELSE @]

\* StreamSegmentRecord: where the packet's bytes are, in the flow and in the file.
Record(p, offset) == [absOffset |-> offset, src |-> Stride * (Len(file) + 1), length |-> Len(p.bytes)]

\* What the outcome of add makes of the flow, and the messages it completes.
Answered(entry, p, offset, outcome) ==
    LET counted == [entry EXCEPT !.asm = outcome.asm,
                                 !.conflictCount = IF outcome.conflicted THEN @ + 1 ELSE @]
        accepted == [Unstalled(advanceUnwrapReference(counted, offset + Len(p.bytes)), outcome.status)
                       EXCEPT !.segments = Append(@, Record(p, offset)), !.dataSegmentCount = @ + 1]
    IN  CASE outcome.status \in {"duplicate", "conflict", "dropped"} -> [entry |-> counted, messages |-> <<>>]
          [] outcome.status = "truncated" ->
               [entry |-> [counted EXCEPT !.status = "truncated"], messages |-> <<>>]
          [] OTHER -> frameStreamMessages(accepted)

\* The rest of contributeToStream, without and with bytes.
Contributed(entry, p, offset) ==
    IF p.bytes = <<>>
    THEN [entry |-> [advanceUnwrapReference(entry, offset) EXCEPT !.segments = Append(@, Record(p, offset))],
          messages |-> <<>>]
    ELSE IF entry.status # "ok" THEN [entry |-> entry, messages |-> <<>>]
    ELSE Answered(entry, p, offset, add(entry.asm, offset, p.bytes, Stride * (Len(file) + 1)))

contributeToStream(p) ==
    LET live   == Len(ordered)
        unwrap(reference) == unwrapOffset(Raw(p), OffsetBits, reference)
        joined == unwrap(IF live = 0 THEN Unset ELSE ordered[live].unwrapReference)
        splits == live > 0 /\ p.signal = "open" /\ startsNewGeneration(ordered[live], joined)
        start  == IF splits THEN unwrap(Unset) ELSE joined
        entry  == IF live = 0 \/ splits THEN NewEntry(live + 1) ELSE ordered[live]
    IN  \E offset \in {start} : \E after \in {Contributed(Closed(Opened(entry, p, offset), p, offset), p, offset)} :
          /\ ordered' = IF live = 0 \/ splits THEN Append(ordered, after.entry)
                        ELSE [ordered EXCEPT ![live] = after.entry]
          /\ messages' = messages \o after.messages

PacketRead ==
    /\ at = "reading" /\ Len(file) < MaxPackets
    /\ \E c \in DOMAIN Connections : \E p \in Packets(c) :
         MayArrive(p) /\ contributeToStream(p) /\ file' = Append(file, p)
    /\ UNCHANGED <<segmentRows, at>>

\* flushStreams: the status of every flow, and the rows of its segments now that its base is
\* final.
Final(entry) ==
    LET end == entry.asm.base + entry.asm.contiguousEnd IN
    IF entry.status # "ok" THEN entry
    ELSE IF entry.framingStalled THEN [entry EXCEPT !.status = "error"]
    ELSE IF hasGap(entry.asm) \/ (entry.asm.base # Unset /\ entry.closeOffset > end)
    THEN [entry EXCEPT !.status = "gap"]
    ELSE entry

FinalBase(entry) ==
    IF entry.asm.base # Unset \/ entry.segments = <<>> THEN entry.asm.base
    ELSE LET offsets == {r.absOffset : r \in ToSet(entry.segments)}
         IN  CHOOSE o \in offsets : \A other \in offsets : o <= other

flushStreams ==
    /\ at = "reading" /\ at' = "flushed"
    /\ ordered' = [n \in DOMAIN ordered |-> Final(ordered[n])]
    /\ segmentRows' = FlattenSeq([n \in DOMAIN ordered |->
         [k \in DOMAIN ordered[n].segments |->
            [flow |-> n, offset |-> ordered[n].segments[k].absOffset - FinalBase(ordered[n]),
             src |-> ordered[n].segments[k].src]]])
    /\ UNCHANGED <<file, messages>>

Next == PacketRead \/ flushStreams

Spec == Init /\ [][Next]_streamVars

-----------------------------------------------------------------------------
(* Properties.                                                             *)

ByteAt(position) == file[position \div Stride].bytes[(position % Stride) + 1]
Flow(m) == ordered[m.flow]

\* The position in the file of the byte of a flow that came first: that of the first packet
\* accepted which holds it.
FirstAt(entry, offset) ==
    LET holds(r) == r.absOffset <= offset /\ offset < r.absOffset + r.length
        r == SelectSeq(entry.segments, holds)[1]
    IN  r.src + offset - r.absOffset

\* A message is the bytes that came first, in order and without a hole after the message before
\* it, and its rows point at exactly those bytes of the file (stream-runtime.ts:488-520,
\* streams.ts:253-260).
MessagesAreTheFirstBytes ==
    \A k \in DOMAIN messages :
      LET m == messages[k]
          sources == [i \in DOMAIN m.bytes |-> FirstAt(Flow(m), m.base + m.start + i - 1)]
          earlier == {j \in 1..(k - 1) : messages[j].flow = m.flow}
      IN  /\ m.base = Flow(m).asm.base
          /\ m.start = SumFunction([j \in earlier |-> Len(messages[j].bytes)])
          /\ \A i \in DOMAIN m.bytes : m.bytes[i] = ByteAt(sources[i])
          /\ UNION {p[1]..(p[2] - 1) : p \in m.pieces} = ToSet(sources)

\* What is remembered of the segments is what recounting them gives: they are in order and
\* apart, and the frontier is the first hole (streams.ts:137-141, 454-471).
FrontierIsExact ==
    \A n \in DOMAIN ordered :
      LET a == ordered[n].asm
          covered(o) == \E s \in ToSet(a.segments) : s.start <= o /\ o < s.end
      IN  a.base # Unset =>
            /\ \A i \in 1..(Len(a.segments) - 1) : a.segments[i].end <= a.segments[i + 1].start
            /\ \A o \in Greatest(a.dataStart, a.base)..(a.base + a.contiguousEnd - 1) : covered(o)
            /\ ~covered(a.base + a.contiguousEnd)
            /\ highestEnd(a) - a.consumed <= MaxBuffer

\* No complete message waits, and a flow that ends well is the whole of what its connection
\* sent between the packets that opened and closed it (stream-runtime.ts:650-700).
FlowsAreWhole ==
    \A n \in DOMAIN ordered :
      LET e == ordered[n]  view == contiguousView(e.asm) IN
      e.status = "ok" =>
        /\ ~e.framingStalled /\ view # <<>> => framer(view) > Len(view)
        /\ at = "flushed" /\ e.opened /\ e.closeOffset # Unset /\ e.asm.base = e.openOffset =>
             e.asm.contiguousEnd + e.openOffset >= e.closeOffset

StreamsAreExact == MessagesAreTheFirstBytes /\ FrontierIsExact /\ FlowsAreWhole

=============================================================================
