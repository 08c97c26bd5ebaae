------------------------------ MODULE PcapngReader ------------------------------
(***************************************************************************)
(* The pcapng reader (pcapng.ts, options.ts) and the records it yields               *)
(* (framer.ts).                                                              *)
(*                                                                         *)
(* A file is [blocks, size]: blocks laid end to end, of which the first size bytes are   *)
(* there.  A block is                                                         *)
(*   order          TRUE when its fields are written little endian                      *)
(*   size           the bytes it takes, 12 at least (16 for a section)                    *)
(*   length, trailer  what its first and its last length field say                         *)
(*   type           shb, idb, epb, opb, spb, one that is skipped silently, or another         *)
(*   magic, major   of a section: whether its byte-order magic is one, and its version        *)
(*   linktype, snaplen                 of an interface                                *)
(*   iface, high, low, incl, orig, data   of a packet                                      *)
(*   options        a sequence of [code, length, value] in its options area, zeros after them:  *)
(*                  a value is a sequence of bytes, or the number eight bytes stand for         *)
(* The window of chunks is not repeated here: what it returns is what the file holds,         *)
(* as FramingIsExact says.                                                     *)
(***************************************************************************)
EXTENDS PcapFraming

CONSTANTS HalfBits,        \* the bits of each half of a time stamp, of 32
          Int64Max         \* the least time that does not fit in a column, of 2^63

PcapngReaderAssumption == HalfBits \in Nat \ {0} /\ Int64Max \in Nat \ {0}

MIN_LENGTH == [shb |-> 28, idb |-> 20, epb |-> 32, opb |-> 32, spb |-> 16]
SILENTLY_SKIPPED == {"nrb", "isb"}

-----------------------------------------------------------------------------
(* Bytes.                                                                  *)

\* A length field below 2^7, read in the order le.
ReadIn(le, block, value) == IF block.order = le THEN value ELSE value * 2 ^ 24

byteOrderAt(block) == IF block.magic THEN block.order ELSE Null
padTo4(length) == length + ((4 - (length % 4)) % 4)

\* The block at an offset, where one starts; the trailer that ends at one, Null where other
\* bytes lie, taken not to be a length.
EndOf(file, i) == FoldLeft(LAMBDA n, b : n + b.size, 0, SubSeq(file.blocks, 1, i))
BlockAt(file, start) == file.blocks[CHOOSE i \in DOMAIN file.blocks : EndOf(file, i - 1) = start]
TrailerAt(file, le, end) ==
    IF \E i \in DOMAIN file.blocks : EndOf(file, i) = end
    THEN LET b == file.blocks[CHOOSE i \in DOMAIN file.blocks : EndOf(file, i) = end] IN ReadIn(le, b, b.trailer)
    ELSE Null

-----------------------------------------------------------------------------
(* Options.                                                                *)

\* The options before the first that ends the list or does not fit, and whether one did not.
walkOptions(options, start, end) ==
    LET first == [offset |-> start, over |-> FALSE, malformed |-> FALSE, visited |-> <<>>]
        walk(w, o) ==
            IF w.over \/ w.offset + 4 > end THEN w
            ELSE IF o.code = "end" THEN [w EXCEPT !.over = TRUE]
            ELSE IF w.offset + 4 + o.length > end THEN [w EXCEPT !.over = TRUE, !.malformed = TRUE]
            ELSE [w EXCEPT !.offset = @ + 4 + padTo4(o.length), !.visited = Append(@, o)]
    IN  FoldLeft(walk, first, options)

\* The text of an option, without the NULs behind it.
optionText(o) == SubSeq(o.value, 1, Max({0} \cup {i \in 1..o.length : o.value[i] # 0}))
FirstText(visited, code) ==
    LET those == SelectSeq(visited, LAMBDA o : o.code = code) IN
    IF those = <<>> THEN Null ELSE optionText(Head(those))

\* The last value of a number that is as long as its type.
LastOf(visited, code, bytes, default) ==
    LET those == SelectSeq(visited, LAMBDA o : o.code = code /\ o.length >= bytes) IN
    IF those = <<>> THEN default ELSE Last(those).value

decodeTsResolution(byte) ==
    IF byte >= 128 THEN [base |-> 2, exponent |-> byte - 128] ELSE [base |-> 10, exponent |-> byte]

-----------------------------------------------------------------------------
(* The reader.  p is [cursor, littleEndian, section, sectionOs, interfaces, ordinal,       *)
(* packetIndex, unsupported, items, issues, stopped].                                *)

report(p, code, start, end) == [p EXCEPT !.issues = Append(@, Issue(code, start, end))]
stop(p, code, start, end) == [report(p, code, start, end) EXCEPT !.stopped = TRUE]
WithWalk(p, walk, start, end) == IF walk.malformed THEN report(p, "MALFORMED_OPTION", start, end) ELSE p

\* The types that are not known, in the order they are met in, with their number.
Skipped(p, block, start, end) ==
    LET at == SelectInSeq(p.unsupported, LAMBDA u : u.type = block.type) IN
    IF block.type \in SILENTLY_SKIPPED THEN p
    ELSE IF at # 0 THEN [p EXCEPT !.unsupported[at].count = @ + 1]
    ELSE [p EXCEPT !.unsupported = Append(@, [type |-> block.type, count |-> 1, start |-> start, end |-> end])]

Oversized(p, block, start, end) ==
    IF block.type = "shb" THEN stop(p, "MALFORMED_BLOCK", start, end)
    ELSE report(IF block.type = "idb" THEN [p EXCEPT !.interfaces = Append(@, Null)] ELSE p,
                "MALFORMED_BLOCK", start, end)

SectionHeader(p, block, start, end) ==
    LET walk == walkOptions(block.options, 24, block.length - 4) IN
    IF block.length < MIN_LENGTH.shb THEN stop(p, "MALFORMED_BLOCK", start, end)
    ELSE IF block.major # 1 THEN stop(p, "UNSUPPORTED_SECTION_VERSION", start, end)
    ELSE WithWalk([p EXCEPT !.section = @ + 1, !.interfaces = <<>>,
                            !.sectionOs = FirstText(walk.visited, "os")], walk, start, end)

\* A description that cannot be read keeps its place, and takes no ordinal.
InterfaceDescription(p, block, start, end) ==
    LET walk  == walkOptions(block.options, 16, block.length - 4)
        iface == [ordinal |-> p.ordinal + 1, section |-> p.section, ifIndex |-> Len(p.interfaces),
                  linktype |-> block.linktype, snaplen |-> block.snaplen, os |-> p.sectionOs,
                  name |-> FirstText(walk.visited, "name"), comment |-> FirstText(walk.visited, "comment"),
                  description |-> FirstText(walk.visited, "description"),
                  tsResolution |-> decodeTsResolution(Head(LastOf(walk.visited, "tsresol", 1, <<NsDigits - 1>>))),
                  tsOffsetS |-> LastOf(walk.visited, "tsoffset", 8, 0), start |-> start, end |-> end]
    IN  IF block.length < MIN_LENGTH.idb
        THEN report([p EXCEPT !.interfaces = Append(@, Null)], "MALFORMED_BLOCK", start, end)
        ELSE [WithWalk(p, walk, start, end) EXCEPT
                  !.ordinal = @ + 1, !.interfaces = Append(@, iface),
                  !.items = Append(@, [kind |-> "interface", iface |-> iface])]

\* A packet is given the bytes it was captured with, and the time and options of its block where
\* the block has them.
Yields(p, block, iface, inclLen, tsNs, comment, start, end) ==
    LET body == [i \in 1..inclLen |-> IF i <= Len(block.data) THEN block.data[i] ELSE 0] IN
    [p EXCEPT !.packetIndex = @ + 1,
              !.items = Append(@, [kind |-> "packet", index |-> p.packetIndex, interfaceOrdinal |-> iface.ordinal,
                                   linktype |-> normalizeLinktype(iface.linktype, body), tsNs |-> tsNs,
                                   inclLen |-> inclLen, origLen |-> block.orig, comment |-> comment,
                                   start |-> start, end |-> end, body |-> body])]

SimplePacket(p, block, iface, start, end) ==
    LET room    == block.length - 16
        snaplen == IF iface.snaplen = 0 THEN room ELSE iface.snaplen
    IN  Yields(p, block, iface, Min({block.orig, snaplen, room}), Null, Null, start, end)

FullPacket(p, block, iface, start, end) ==
    LET units == block.high * 2 ^ HalfBits + block.low
        ns    == toNs(units, iface.tsResolution, iface.tsOffsetS)
        fits  == -Int64Max <= ns /\ ns < Int64Max
        walk  == walkOptions(block.options, 28 + padTo4(block.incl), block.length - 4)
        timed == IF fits THEN p ELSE report(p, "TIMESTAMP_OUT_OF_RANGE", start, end)
    IN  IF 28 + block.incl > block.length - 4 THEN report(p, "MALFORMED_BLOCK", start, end)
        ELSE Yields(WithWalk(timed, walk, start, end), block, iface, block.incl, IF fits THEN ns ELSE Null,
                    FirstText(walk.visited, "comment"), start, end)

interfaceIndex(block) == IF block.type = "spb" THEN 0 ELSE block.iface

PacketBlock(p, block, start, end) ==
    LET n == interfaceIndex(block) + 1 IN
    IF block.length < MIN_LENGTH[block.type] THEN report(p, "MALFORMED_BLOCK", start, end)
    ELSE IF n \notin DOMAIN p.interfaces THEN report(p, "UNKNOWN_INTERFACE", start, end)
    ELSE IF p.interfaces[n] = Null THEN report(p, "UNKNOWN_INTERFACE", start, end)
    ELSE IF block.type = "spb" THEN SimplePacket(p, block, p.interfaces[n], start, end)
    ELSE FullPacket(p, block, p.interfaces[n], start, end)

\* A block whose two lengths agree.
ParseBlock(p, block, maxBlock, start, end) ==
    LET parsed == block.type \in DOMAIN MIN_LENGTH IN
    IF parsed /\ block.length > maxBlock THEN Oversized(p, block, start, end)
    ELSE IF ~parsed THEN Skipped(p, block, start, end)
    ELSE IF block.type = "shb" THEN SectionHeader(p, block, start, end)
    ELSE IF block.type = "idb" THEN InterfaceDescription(p, block, start, end)
    ELSE PacketBlock(p, block, start, end)

\* A type and a length read in the wrong order are those of no block: the length is past any file.
ReadBlock(p, file, maxBlock) ==
    LET start  == p.cursor
        block  == BlockAt(file, start)
        q      == IF block.type = "shb" THEN [p EXCEPT !.littleEndian = block.order] ELSE p
        length == ReadIn(q.littleEndian, block, block.length)
        end    == start + length
    IN  IF file.size - start < 12 THEN stop(p, "TRUNCATED_BLOCK", start, file.size)
        ELSE IF block.type = "shb" /\ byteOrderAt(block) = Null
        THEN stop(p, "BAD_BYTE_ORDER_MAGIC", start, start + 12)
        ELSE IF length < 12 \/ length % 4 # 0 THEN stop(q, "BLOCK_LENGTH_MISMATCH", start, start + 12)
        ELSE IF length > file.size - start THEN stop(q, "TRUNCATED_BLOCK", start, file.size)
        ELSE IF TrailerAt(file, q.littleEndian, end) # length THEN stop(q, "BLOCK_LENGTH_MISMATCH", start, end)
        ELSE ParseBlock([q EXCEPT !.cursor = end], block, maxBlock, start, end)

\* One report for each type not known, when all is read.
finish(p) ==
    FoldLeft(LAMBDA q, u : report(q, "UNSUPPORTED_BLOCK_TYPE", u.start, u.end), p, p.unsupported)

\* createPcapngReader, drained.
refuse(code) == [refused |-> code, cursor |-> 0, unsupported |-> <<>>, items |-> <<>>, issues |-> <<>>]
ReadBlocks(file, maxBlock) ==
    LET head  == file.blocks[1]
        first == [cursor |-> 0, littleEndian |-> byteOrderAt(head), section |-> -1, sectionOs |-> Null,
                  interfaces |-> <<>>, ordinal |-> 0, packetIndex |-> 0, unsupported |-> <<>>,
                  items |-> <<>>, issues |-> <<>>, stopped |-> FALSE]
        next(p, b) == IF p.stopped \/ p.cursor >= file.size THEN [p EXCEPT !.stopped = TRUE]
                      ELSE ReadBlock(p, file, maxBlock)
    IN  IF file.size < 4 \/ file.blocks = <<>> THEN refuse("NOT_PCAPNG")
        ELSE IF head.type # "shb" THEN refuse("NOT_PCAPNG")
        ELSE IF file.size < 16 THEN refuse("TRUNCATED_BLOCK")
        ELSE IF byteOrderAt(head) = Null THEN refuse("BAD_BYTE_ORDER_MAGIC")
        ELSE IF head.major # 1 THEN refuse("UNSUPPORTED_SECTION_VERSION")
        ELSE finish(FoldLeft(next, first, file.blocks))

\* The records of the items, in their order.
pcapngRecord(item) ==
    IF item.kind = "interface"
    THEN interfaceRecord(item.iface.start, item.iface.end,
             [section |-> item.iface.section, if_index |-> item.iface.ifIndex, linktype |-> item.iface.linktype,
              snaplen |-> item.iface.snaplen, name |-> item.iface.name, description |-> item.iface.description,
              os |-> item.iface.os, comment |-> item.iface.comment, ts_resolution |-> item.iface.tsResolution,
              ts_offset_s |-> item.iface.tsOffsetS])
    ELSE packetRecord(item.start, item.end,
             [ts_us |-> IF item.tsNs = Null THEN Null ELSE UsOf(item.tsNs), ts_ns |-> item.tsNs,
              incl_len |-> item.inclLen, orig_len |-> item.origLen, linktype |-> item.linktype,
              interface_id |-> item.interfaceOrdinal, comment |-> item.comment, body |-> item.body])

\* What the framer yields, reports, and counts as read when it ends.
pcapngFramer(p) ==
    [records |-> [i \in DOMAIN p.items |-> pcapngRecord(p.items[i])], issues |-> p.issues, bytes |-> p.cursor]

-----------------------------------------------------------------------------
(* Properties.                                                             *)

StartOf(file, n) == EndOf(file, n - 1)
NumberOf(file, start) == CHOOSE n \in DOMAIN file.blocks : StartOf(file, n) = start
SectionOf(blocks, n)  == Max({k \in 1..n : blocks[k].type = "shb"})

\* The places of the descriptions of a section, as far as block n.
Declared(blocks, section, n) == SetToSortSeq({k \in section..n : blocks[k].type = "idb"}, <)

\* Of block n, a packet, in its section.
PacketIsExact(file, r, n, declared, interfaces) ==
    /\ interfaces[r.root.interface_id].start = StartOf(file, declared[interfaceIndex(file.blocks[n]) + 1])
    /\ r.root.incl_len <= file.blocks[n].size - 16 /\ Len(r.root.body) = r.root.incl_len
    /\ r.root.ts_ns # Null => file.blocks[n].type # "spb" /\ r.root.ts_us = UsOf(r.root.ts_ns)

\* Of block n, an interface; systems are the options of its section that name one.
InterfaceIsExact(r, n, declared, systems) ==
    /\ declared[r.root.if_index + 1] = n
    /\ r.root.os = IF systems = <<>> THEN Null ELSE optionText(Head(systems))

RowsAreExact(file, records, interfaces) ==
    \A r \in ToSet(records) : \E n \in {NumberOf(file, r.start)} : \E s \in {SectionOf(file.blocks, n)} :
        IF r.table = "packets" THEN PacketIsExact(file, r, n, Declared(file.blocks, s, n), interfaces)
        ELSE InterfaceIsExact(r, n, Declared(file.blocks, s, n),
                              SelectSeq(file.blocks[s].options, LAMBDA o : o.code = "os"))

\* Of block n, which starts before the reader stopped.
BlockIsAccounted(p, block, start, records) ==
    \/ \E r \in ToSet(records) : r.start = start /\ r.end = start + block.size
    \/ \E i \in ToSet(p.issues) : i.start = start /\ i.code # "MALFORMED_OPTION"
    \/ block.type = "shb" \/ block.type \in SILENTLY_SKIPPED
    \/ \E u \in ToSet(p.unsupported) : u.type = block.type /\ u.start <= start

\* Reading stops over the lengths of block n.
StopIsJustified(file, start, block, section) ==
    file.size < start + block.size \/ {block.length, block.trailer} # {block.size} \/ block.order # section.order

BlocksAreExact(file, p, records) ==
    /\ \A n \in DOMAIN file.blocks : StartOf(file, n) < p.cursor =>
           BlockIsAccounted(p, file.blocks[n], StartOf(file, n), records)
    /\ \A i \in ToSet(p.issues) : i.code \in {"TRUNCATED_BLOCK", "BLOCK_LENGTH_MISMATCH"} =>
           \E n \in DOMAIN file.blocks :
               /\ StartOf(file, n) = i.start
               /\ StopIsJustified(file, i.start, file.blocks[n], file.blocks[SectionOf(file.blocks, n)])
    /\ \A u \in ToSet(p.unsupported) :
           u.count = Cardinality({n \in DOMAIN file.blocks :
                                     file.blocks[n].type = u.type /\ StartOf(file, n) < p.cursor})

\* A packet's row names the interface its section declares in that place, though descriptions
\* that cannot be read lie between; the keys count the rows of interfaces, an interface has the
\* system of its own section, a packet the bytes of its block; every block that was read is a
\* row, a report, a section or a type that is skipped, and reading stops over lengths only where
\* the file is cut, or a block's lengths or byte order are wrong
\* (pcapng.ts:47-48, 62-64, 172, 274-294, 381-403; framer.ts:93-135).
PacketsKeepTheirInterface(file, maxBlock) ==
    \E p \in {ReadBlocks(file, maxBlock)} : \E records \in {pcapngFramer(p).records} :
        /\ RowsAreExact(file, records, SelectSeq(records, LAMBDA r : r.table = "interfaces"))
        /\ BlocksAreExact(file, p, records)

=============================================================================
