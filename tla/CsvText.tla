------------------------------- MODULE CsvText -------------------------------
(***************************************************************************)
(* How a result page becomes the bytes of a CSV file (csv.ts), as functions.   *)
(* A text is a sequence of UTF-16 code units, kept as what the code tells       *)
(* apart: a quote, a plain unit of one, two or three bytes, and the two halves  *)
(* of a surrogate pair.  A byte sequence is the sequence of characters it        *)
(* encodes; a half without its partner is encoded as the replacement character. *)
(***************************************************************************)
EXTENDS Integers, SequencesExt

CONSTANTS
    MaxChunk,   \* MAX_CHUNK_BYTES
    TextBlock   \* TEXT_BLOCK_CODE_UNITS

\* A block always fits a chunk: a code unit takes three bytes at most.
CsvTextAssumption ==
    /\ TextBlock \in Nat /\ TextBlock >= 2
    /\ MaxChunk \in Nat /\ MaxChunk >= 3 * TextBlock

High == "high"
Low  == "low"
Units == {"quote", "one", "two", "three", High, Low}

isHighSurrogate(u) == u = High

\* A bug to be caught: a block may end between the halves of a surrogate pair.
BlockEndAnywhere(text, start) ==
    IF start + TextBlock < Len(text) THEN start + TextBlock ELSE Len(text)

\* The end of the block that starts after the first units: never inside a pair.
BlockEnd(text, start) ==
    LET end == IF start + TextBlock < Len(text) THEN start + TextBlock ELSE Len(text)
    IN  IF end < Len(text) /\ isHighSurrogate(text[end]) THEN end - 1 ELSE end

\* The blocks of a text; each holds a unit at least, so a text has at most its length.
Blocks(text) ==
    LET next[i \in 0..Len(text)] ==
          IF i = 0 THEN <<0>>
          ELSE LET sofar == next[i - 1] IN
               IF Last(sofar) = Len(text) THEN sofar
                                          ELSE Append(sofar, BlockEnd(text, Last(sofar)))
        ends == next[Len(text)]
    IN  [i \in 1..Len(ends) - 1 |-> SubSeq(text, ends[i] + 1, ends[i + 1])]

\* TextEncoder.encode: the characters of a run of code units.
Utf8(text) ==
    LET paired(i) == i \in DOMAIN text /\ text[i] = High
                     /\ i + 1 \in DOMAIN text /\ text[i + 1] = Low
        char(i) == CASE paired(i) -> <<"pair">>
                     [] text[i] = Low /\ paired(i - 1) -> <<>>
                     [] text[i] \in {High, Low} /\ ~paired(i) -> <<"replacement">>
                     [] OTHER -> <<text[i]>>
    IN  FlattenSeq([i \in DOMAIN text |-> char(i)])

Width == [quote |-> 1, one |-> 1, two |-> 2, three |-> 3, pair |-> 4, replacement |-> 3,
          cr |-> 1, lf |-> 1, comma |-> 1]

ByteLength(chars) == FoldSeq(LAMBDA c, n : n + Width[c], 0, chars)

\* quotedText: the parts of a quoted field: runs of a block, and its quotes doubled.
quotedText(text) ==
    LET add(parts, u) ==
          IF u = "quote" THEN Append(parts, <<"quote", "quote">>)
          ELSE IF parts = <<>> \/ Last(Last(parts)) = "quote" THEN Append(parts, <<u>>)
          ELSE Append(Front(parts), Append(Last(parts), u))
        blocks == Blocks(text)
    IN  <<<<"quote">>>>
          \o FlattenSeq([i \in DOMAIN blocks |-> FoldLeft(add, <<>>, blocks[i])])
          \o <<<<"quote">>>>

\* What is gathered is yielded when the next block would not fit behind it.
Flushed(acc, encoded) ==
    IF ByteLength(acc.output) + ByteLength(encoded) <= MaxChunk THEN acc
    ELSE [chunks |-> Append(acc.chunks, acc.output), output |-> <<>>]

\* A block that fills a chunk is one.
Gathered(acc, encoded) ==
    IF ByteLength(encoded) = MaxChunk THEN [acc EXCEPT !.chunks = Append(@, encoded)]
                                      ELSE [acc EXCEPT !.output = @ \o encoded]

Rest(acc) == IF acc.output = <<>> THEN acc.chunks ELSE Append(acc.chunks, acc.output)

\* boundedUtf8: encoded blocks are gathered into chunks.
boundedUtf8(parts) ==
    LET add(acc, encoded) == Gathered(Flushed(acc, encoded), encoded)
        blocks == FlattenSeq([i \in DOMAIN parts |-> Blocks(parts[i])])
    IN  Rest(FoldLeft(add, [chunks |-> <<>>, output |-> <<>>], [i \in DOMAIN blocks |-> Utf8(blocks[i])]))

\* csvChunks of a page of one column: a header row, then a row per text.
csvChunks(header, rows) ==
    boundedUtf8((IF header = <<>> THEN <<>> ELSE quotedText(header[1]) \o <<<<"cr", "lf">>>>)
                \o FlattenSeq([i \in DOMAIN rows |-> quotedText(rows[i]) \o <<<<"cr", "lf">>>>]))

\* A page's chunks are never empty nor longer than a chunk may be, and together are
\* the page: every text quoted, its quotes doubled, no character cut in two.
ChunksAreWhole(chunks, lines) ==
    LET doubled(chars) == FlattenSeq([i \in DOMAIN chars |->
                            IF chars[i] = "quote" THEN <<"quote", "quote">> ELSE <<chars[i]>>])
        line(text) == <<"quote">> \o doubled(Utf8(text)) \o <<"quote", "cr", "lf">>
    IN  /\ \A i \in DOMAIN chunks : ByteLength(chunks[i]) \in 1..MaxChunk
        /\ FlattenSeq(chunks) = FlattenSeq([i \in DOMAIN lines |-> line(lines[i])])

PageIsWhole(header, rows) == ChunksAreWhole(csvChunks(header, rows), header \o rows)

-----------------------------------------------------------------------------
(* Dates and times.                                                        *)

\* BigInt division and remainder truncate toward zero.
Truncated(a, b)  == IF a >= 0 THEN a \div b ELSE -((-a) \div b)
Remainder(a, b)  == a - b * Truncated(a, b)

floorDiv(a, b) == IF Remainder(a, b) < 0 THEN Truncated(a, b) - 1 ELSE Truncated(a, b)

\* The months are counted from March on.
InYear(year, dayOfYear) ==
    LET monthPrime == Truncated(5 * dayOfYear + 2, 153)
        day   == dayOfYear - Truncated(153 * monthPrime + 2, 5) + 1
        month == monthPrime + (IF monthPrime < 10 THEN 3 ELSE -9)
    IN  <<year + (IF month <= 2 THEN 1 ELSE 0), month, day>>

InEra(era, dayOfEra) ==
    LET yearOfEra == Truncated(dayOfEra - Truncated(dayOfEra, 1460) + Truncated(dayOfEra, 36524)
                               - Truncated(dayOfEra, 146096), 365)
    IN  InYear(yearOfEra + era * 400,
               dayOfEra - (365 * yearOfEra + Truncated(yearOfEra, 4) - Truncated(yearOfEra, 100)))

\* formatCivilDate, as <<year, month, day>>.
formatCivilDate(epochDays) ==
    LET shifted == epochDays + 719468
        era     == floorDiv(shifted, 146097)
    IN  InEra(era, shifted - era * 146097)

\* formatTimestamp at a unit with the given ticks in a second: the date and the ticks
\* within its day, as hours, minutes, seconds and a fraction.
Stamp(days, ticks, perSecond) ==
    LET seconds == Truncated(ticks, perSecond)
    IN  [date |-> formatCivilDate(days),
         time |-> <<Truncated(seconds, 3600), Truncated(Remainder(seconds, 3600), 60),
                    Remainder(seconds, 60), Remainder(ticks, perSecond)>>]

formatTimestamp(value, perSecond) ==
    LET perDay == perSecond * 86400
        days   == floorDiv(value, perDay)
    IN  Stamp(days, value - days * perDay, perSecond)

\* The Gregorian calendar, by definition: the days of a month and before a date.
IsLeap(y) == y % 4 = 0 /\ (y % 100 # 0 \/ y % 400 = 0)
DaysIn(y, m) ==
    CASE m = 2 -> IF IsLeap(y) THEN 29 ELSE 28 [] m \in {4, 6, 9, 11} -> 30 [] OTHER -> 31
DaysBeforeYear(y) == 365 * y + (y + 3) \div 4 - (y + 99) \div 100 + (y + 399) \div 400

DateIsCivil(date, epochDays) ==
    LET y == date[1]  m == date[2]  d == date[3] IN
    /\ m \in 1..12 /\ d \in 1..DaysIn(y, m)
    /\ epochDays = DaysBeforeYear(y) - DaysBeforeYear(1970)
                     + FoldSet(LAMBDA k, n : n + DaysIn(y, k), 0, 1..m - 1) + d - 1

\* A time of day that, with the days before it, is the value again.
StampIsExact(value, perSecond, date, t) ==
    LET ticks == ((t[1] * 60 + t[2]) * 60 + t[3]) * perSecond + t[4]
    IN  /\ t[1] \in 0..23 /\ t[2] \in 0..59 /\ t[3] \in 0..59 /\ t[4] \in 0..perSecond - 1
        /\ (value - ticks) % (perSecond * 86400) = 0
        /\ DateIsCivil(date, (value - ticks) \div (perSecond * 86400))

TimestampIsExact(value, perSecond) ==
    \E stamp \in {formatTimestamp(value, perSecond)} : StampIsExact(value, perSecond, stamp.date, stamp.time)

=============================================================================
