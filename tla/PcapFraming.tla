------------------------------ MODULE PcapFraming ------------------------------
(***************************************************************************)
(* The framing of captures: the window of chunks both readers read through        *)
(* (chunk-window.ts), the classic reader (container.ts) and the records it yields    *)
(* (framer.ts), and the times of both containers.  PcapngReader extends it.          *)
(*                                                                         *)
(* A classic file is a sequence of units: the global header is one, the magic, and  *)
(* what else it says is header, [linktype, snaplen]; a record header is four, the   *)
(* seconds, their fraction, the units of the body and those there were on the wire. *)
(***************************************************************************)
EXTENDS Integers, Sequences, FiniteSets, SequencesExt, FiniteSetsExt

CONSTANTS Null

GLOBAL_HEADER_SIZE == 1
RECORD_HEADER_SIZE == 4

-----------------------------------------------------------------------------
(* The window.  Reading another chunk over one that was read makes a new generation.  *)

readAt(file, offset, length) == SubSeq(file, offset + 1, Min({offset + length, Len(file)}))
createChunkWindow(start) ==
    [start |-> start, chunk |-> <<>>, generation |-> 0, primed |-> FALSE, largest |-> 0]

\* A span within the chunk is a view of it, a longer one than a chunk is read for itself, any
\* other moves the window.
ensure(file, chunkBytes, w, start, length) ==
    LET within == start - w.start
        chunk  == readAt(file, start, chunkBytes)
    IN  IF within >= 0 /\ within + length <= Len(w.chunk)
        THEN [window |-> w, bytes |-> SubSeq(w.chunk, within + 1, within + length), isChunkView |-> TRUE]
        ELSE IF length > chunkBytes
        THEN [window |-> [w EXCEPT !.largest = Max({@, length})],
              bytes |-> readAt(file, start, length), isChunkView |-> FALSE]
        ELSE [window |-> [start |-> start, chunk |-> chunk, primed |-> TRUE,
                          generation |-> w.generation + (IF w.primed THEN 1 ELSE 0),
                          largest |-> Max({w.largest, chunkBytes})],
              bytes |-> SubSeq(chunk, 1, Min({length, Len(chunk)})), isChunkView |-> TRUE]

\* A view is copied when its chunk was loaded within the record: the others are views of a chunk
\* that an earlier record has read too.
stable(read, generationAtStart) ==
    [bytes |-> read.bytes, copied |-> read.isChunkView /\ read.window.generation # generationAtStart]

-----------------------------------------------------------------------------
(* Times.  ns has NsDigits digits behind the second, for the nine of the code, and us    *)
(* one less, for the three less of the code.                                           *)

NsDigits == 2
NS_PER_S == 10 ^ NsDigits
NS_PER_US == 10
UsOf(ns) == ns \div NS_PER_US

\* Of a classic record: its fraction counts us or ns, as the magic says.
ClassicTime(timeUnit, sec, frac) ==
    [us |-> sec * (NS_PER_S \div NS_PER_US) + (IF timeUnit = "ns" THEN frac \div NS_PER_US ELSE frac),
     ns |-> sec * NS_PER_S + (IF timeUnit = "ns" THEN frac ELSE frac * NS_PER_US)]

\* A resolution is [base, exponent].
tsScale(r) ==
    IF r.base = 10 THEN IF r.exponent <= NsDigits THEN [multiply |-> 10 ^ (NsDigits - r.exponent), divide |-> 1]
                        ELSE [multiply |-> 1, divide |-> 10 ^ (r.exponent - NsDigits)]
    ELSE [multiply |-> NS_PER_S, divide |-> 2 ^ r.exponent]

\* A division that rounds down, then the offset of the interface in seconds.
toNs(units, r, offset) == (units * tsScale(r).multiply) \div tsScale(r).divide + offset * NS_PER_S

-----------------------------------------------------------------------------
(* The classic reader.  r is [cursor, stopped, window, packets, issues].              *)

Issue(code, start, end) == [code |-> code, start |-> start, end |-> end]
Stops(r, issue) == [r EXCEPT !.issues = Append(@, issue), !.stopped = TRUE]

\* Two of the values of the magic are known here, each of them in one byte order.
detectMagic(magic) == IF magic = 1 THEN "us" ELSE IF magic = 2 THEN "ns" ELSE Null

\* Raw IP: the version is the first unit of the body.
normalizeLinktype(linktype, body) ==
    IF linktype # "raw" THEN linktype ELSE IF body # <<>> /\ Head(body) = 4 THEN "ipv4" ELSE "ipv6"

frame(file, chunkBytes, maxRecord, header, r) ==
    LET start  == r.cursor
        head   == ensure(file, chunkBytes, r.window, start, RECORD_HEADER_SIZE)
        incl   == head.bytes[3]
        from   == start + RECORD_HEADER_SIZE
        to     == from + incl
        read   == ensure(file, chunkBytes, head.window, from, incl)
        body   == stable(read, r.window.generation)
        past   == [r EXCEPT !.cursor = to]
        packet == [index |-> Len(r.packets), start |-> start, end |-> to, inclLen |-> incl, origLen |-> head.bytes[4],
                   time |-> ClassicTime(detectMagic(file[1]), head.bytes[1], head.bytes[2]), body |-> body.bytes,
                   copied |-> body.copied, linktype |-> normalizeLinktype(header.linktype, body.bytes)]
    IN  IF from > Len(file) THEN Stops(r, Issue("TRUNCATED_RECORD", start, Len(file)))
        ELSE IF to > Len(file) THEN Stops(r, Issue("TRUNCATED_RECORD", start, Len(file)))
        ELSE IF incl > maxRecord
        THEN [past EXCEPT !.window = head.window, !.issues = Append(@, Issue("OVERSIZED_RECORD", start, to))]
        ELSE [past EXCEPT !.window = read.window, !.packets = Append(@, packet)]

\* createPcapFramer, drained; Null for a file it refuses.
Framed(file, chunkBytes, maxRecord, header) ==
    LET first == [cursor |-> GLOBAL_HEADER_SIZE, stopped |-> FALSE, packets |-> <<>>, issues |-> <<>>,
                  window |-> createChunkWindow(GLOBAL_HEADER_SIZE)]
        next(r, i) == IF r.stopped THEN r ELSE IF r.cursor >= Len(file) THEN [r EXCEPT !.stopped = TRUE]
                      ELSE frame(file, chunkBytes, maxRecord, header, r)
    IN  IF Len(file) < GLOBAL_HEADER_SIZE THEN Null ELSE IF detectMagic(file[1]) = Null THEN Null
        ELSE FoldLeftDomain(next, first, file)

\* The records of a classic file: its one interface, the header, has the key 1.
interfaceRecord(start, end, fields) == [table |-> "interfaces", start |-> start, end |-> end, root |-> fields]
packetRecord(start, end, fields) == [table |-> "packets", start |-> start, end |-> end, root |-> fields]

classicInterface(file, header) ==
    interfaceRecord(0, GLOBAL_HEADER_SIZE,
        [section |-> 0, if_index |-> 0, linktype |-> header.linktype, snaplen |-> header.snaplen, name |-> Null,
         description |-> Null, os |-> Null, comment |-> Null, ts_offset_s |-> 0,
         ts_resolution |-> [base |-> 10, exponent |-> NsDigits - (IF detectMagic(file[1]) = "ns" THEN 0 ELSE 1)]])

classicPacket(p) ==
    packetRecord(p.start, p.end,
        [ts_us |-> p.time.us, ts_ns |-> p.time.ns, incl_len |-> p.inclLen, orig_len |-> p.origLen,
         linktype |-> p.linktype, interface_id |-> 1, comment |-> Null, body |-> p.body])

\* What the framer yields, reports, and counts as read when it ends.
pcapFramer(file, chunkBytes, maxRecord, header) ==
    LET r == Framed(file, chunkBytes, maxRecord, header) IN
    [records |-> <<classicInterface(file, header)>> \o [i \in DOMAIN r.packets |-> classicPacket(r.packets[i])],
     issues |-> r.issues, bytes |-> r.cursor]

-----------------------------------------------------------------------------
(* Properties.                                                             *)

\* Wherever the chunks end, the records are those of the file: what was framed, skipped and cut
\* off tiles it, a body is the bytes its header announces, no read is larger than a chunk or the
\* largest record, and both times are the one the record says (container.ts:143-148,
\* chunk-window.ts:5-10, framer.ts:60-73).
FramingIsExact(file, chunkBytes, maxRecord) ==
    LET header == [linktype |-> "raw", snaplen |-> maxRecord] IN
    \A r \in {Framed(file, chunkBytes, maxRecord, header)} \ {Null} :
    LET pieces  == {<<p.start, p.end>> : p \in ToSet(r.packets)} \cup {<<i.start, i.end>> : i \in ToSet(r.issues)}
        records == pcapFramer(file, chunkBytes, maxRecord, header).records
    IN  /\ \A o \in GLOBAL_HEADER_SIZE..(Len(file) - 1) :
               Cardinality({k \in pieces : k[1] <= o /\ o < k[2]}) = 1
        /\ Cardinality(pieces) = Len(r.packets) + Len(r.issues)
        /\ \A p \in ToSet(r.packets) :
               /\ p.inclLen = file[p.start + 3] /\ p.inclLen <= maxRecord /\ p.origLen = file[p.start + 4]
               /\ p.body = SubSeq(file, p.start + 5, p.end) /\ Len(p.body) = p.inclLen
               /\ p.linktype = IF p.inclLen > 0 /\ file[p.start + 5] = 4 THEN "ipv4" ELSE "ipv6"
        /\ \A i \in ToSet(r.issues) : i.code = "TRUNCATED_RECORD" <=> i = Last(r.issues) /\ i.end > r.cursor
        /\ r.window.largest <= Max({chunkBytes, maxRecord, RECORD_HEADER_SIZE})
        /\ LET unit == records[1].root.ts_resolution IN
           \A n \in 2..Len(records) :
               LET root == records[n].root
                   at   == records[n].start
               IN  /\ root.ts_ns = toNs(file[at + 1] * unit.base ^ unit.exponent + file[at + 2], unit, 0)
                   /\ root.ts_us = UsOf(root.ts_ns)

\* The time of a packet is never later than the capture says, and by less than a nanosecond, or
\* a microsecond in its other column, also before 1970 (pcapng.ts:92-109, framer.ts:85-91).
TimesRoundDown(units, r, offset) ==
    LET ns    == toNs(units, r, offset)
        per   == r.base ^ r.exponent
        \* Both sides in units of the resolution.
        exact == units * NS_PER_S + offset * NS_PER_S * per
    IN  /\ ns * per <= exact /\ exact < (ns + 1) * per
        /\ UsOf(ns) * NS_PER_US <= ns /\ ns < (UsOf(ns) + 1) * NS_PER_US

=============================================================================
