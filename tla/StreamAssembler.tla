---------------------------- MODULE StreamAssembler ----------------------------
(***************************************************************************)
(* The buffer that puts the bytes of one flow in order: StreamAssembler of       *)
(* streams.ts, as operators on its fields.                                        *)
(*                                                                         *)
(* Offsets are absolute, ranges half-open, sequences numbered from 1.  data is the *)
(* array of the code: its first byte is the one at dataStart, bytes never written  *)
(* are 0, and what a copy leaves behind stays there.                               *)
(***************************************************************************)
EXTENDS Integers, Sequences, FiniteSets, SequencesExt

CONSTANTS
    MaxBuffer,   \* max_buffer of the stream
    CompactMin   \* COMPACT_MIN_BYTES

\* Of the constants; assumed by the module that instantiates this one.
StreamAssemblerAssumption == {MaxBuffer, CompactMin} \subseteq Nat \ {0}

Unset == -1
Least(a, b)    == IF a < b THEN a ELSE b
Greatest(a, b) == IF a < b THEN b ELSE a

NewAssembler ==
    [base |-> Unset, dataStart |-> 0, data |-> <<>>, segments |-> <<>>, released |-> 0,
     consumed |-> 0, contiguousEnd |-> 0, byteCount |-> 0, frontierIndex |-> 1, highest |-> Unset]

highestEnd(a)   == IF a.highest = Unset THEN 0 ELSE a.highest - (IF a.base = Unset THEN 0 ELSE a.base)
hasGap(a)       == highestEnd(a) > a.contiguousEnd
segmentCount(a) == a.released + Len(a.segments)

contiguousView(a) ==
    LET shift == (IF a.base = Unset THEN 0 ELSE a.base) - a.dataStart
    IN  SubSeq(a.data, a.consumed + shift + 1, a.contiguousEnd + shift)

consume(a, length) == [a EXCEPT !.consumed = @ + length]

\* A new array of a length that starts with what fits of another.
Resized(data, length) == [i \in 1..length |-> IF i <= Len(data) THEN data[i] ELSE 0]

firstEndingAfter(a, offset) ==
    Len(SelectSeq(a.segments, LAMBDA s : s.end <= offset)) + 1

-----------------------------------------------------------------------------
(* Compaction: consumed bytes older than MaxBuffer are let go.                  *)

compact(a, releasePoint) ==
    LET drop     == firstEndingAfter(a, releasePoint) - 1
        gone     == releasePoint - a.dataStart
        retained == Greatest(0, a.highest - releasePoint)
        keep     == Greatest(0, Least(Len(a.data) - gone, retained))
        kept     == SubSeq(a.data, gone + 1, gone + keep)
        target   == 2 * retained + CompactMin
    IN  [a EXCEPT !.segments = SubSeq(@, drop + 1, Len(@)),
                  !.released = @ + drop,
                  !.frontierIndex = Greatest(1, @ - drop),
                  !.data = IF Len(@) > target THEN Resized(kept, target)
                           ELSE kept \o SubSeq(@, keep + 1, Len(@)),
                  !.dataStart = releasePoint]

maybeCompact(a) ==
    LET releasePoint == a.base + a.consumed - MaxBuffer
        releasable   == releasePoint - a.dataStart
        extent       == a.highest - a.dataStart
    IN  IF /\ Unset \notin {a.base, a.highest}
           /\ releasable >= CompactMin /\ releasable * 2 >= extent
        THEN compact(a, releasePoint) ELSE a

-----------------------------------------------------------------------------
(* Adding bytes.                                                           *)

\* A bug to be caught: the filled extent is kept when the base moves down.
rebaseKeepsFrontier(a, newBase, newExtent) ==
    LET zeros == [i \in 1..(a.base - newBase) |-> 0]
    IN  [a EXCEPT !.data = zeros \o @, !.base = newBase, !.dataStart = newBase]

\* Moves the base down, when nothing is consumed.
rebaseTo(a, newBase, newExtent) ==
    LET shift  == a.base - newBase
        length == Greatest(newExtent, Least(Len(a.data) + shift, MaxBuffer))
        zeros  == [i \in 1..shift |-> 0]
    IN  [a EXCEPT !.data = Resized(zeros \o @, length),
                  !.contiguousEnd = 0, !.frontierIndex = 1, !.base = newBase, !.dataStart = newBase]

\* The filled extent, carried on from the first segment not counted yet.
advanceFrontier(a) ==
    LET step(f, s) ==
          IF f.stopped \/ s.start - a.base > f.end THEN [f EXCEPT !.stopped = TRUE]
          ELSE [f EXCEPT !.end = Greatest(@, s.end - a.base), !.index = @ + 1]
        from == [end |-> a.contiguousEnd, index |-> a.frontierIndex, stopped |-> FALSE]
        last == FoldLeft(step, from, SubSeq(a.segments, a.frontierIndex, Len(a.segments)))
    IN  [a EXCEPT !.contiguousEnd = last.end, !.frontierIndex = last.index]

\* One piece that overlaps nothing stored, in its place.
store(a, start, bytes, src) ==
    LET end      == start + Len(bytes)
        needed   == end - a.dataStart
        ceiling  == MaxBuffer + Greatest(0, a.base + a.consumed - a.dataStart)
        grown    == IF needed > Len(a.data)
                    THEN Resized(a.data, Greatest(needed, Least(Len(a.data) * 2, ceiling))) ELSE a.data
        before   == Len(SelectSeq(a.segments, LAMBDA s : s.start <= start))
        segment  == [start |-> start, end |-> end, src |-> src]
    IN  [a EXCEPT !.data = [i \in DOMAIN grown |->
                              IF i \in (needed - Len(bytes) + 1)..needed
                              THEN bytes[i - (needed - Len(bytes))] ELSE grown[i]],
                  !.segments = InsertAt(@, before + 1, segment),
                  !.byteCount = @ + Len(bytes),
                  !.highest = Greatest(@, end),
                  !.frontierIndex = Least(@, before + 1)]

\* The pieces of [offset, end) no stored segment covers, in order.
Fresh(a, offset, end) ==
    LET touched == {s \in ToSet(a.segments) : s.end > offset /\ s.start < end}
        starts  == {offset} \cup {s.end : s \in touched}
        ends    == {end} \cup {s.start : s \in touched}
        free(p) == p[1] < p[2] /\ \A s \in touched : s.end <= p[1] \/ p[2] <= s.start
    IN  SetToSortSeq({p \in starts \X ends : free(p)}, LAMBDA p, q : p[1] < q[1])

matchesStored(a, offset, bytes) ==
    \A s \in ToSet(a.segments) : \A i \in DOMAIN bytes :
      LET o == offset + i - 1 IN
      s.start <= o /\ o < s.end => a.data[o - a.dataStart + 1] = bytes[i]

\* What add answers when it stored nothing, and the bytes cut off below a floor.
Outcome(a, status, conflicted, below, released) ==
    [asm |-> a, status |-> status, conflicted |-> conflicted, below |-> below, released |-> released]
LOCAL Cut(bytes, n) == SubSeq(bytes, n + 1, Len(bytes))

\* Bytes that are all above the floors.
reconcile(a, offset, bytes, src, below, released) ==
    LET end        == offset + Len(bytes)
        fresh      == Fresh(a, offset, end)
        conflicted == ~matchesStored(a, offset, bytes)
        low        == fresh[1][1]
        rebasing   == a.base # Unset /\ low < a.base
        newBase    == IF a.base = Unset THEN low ELSE Least(a.base, low)
        newExtent  == Greatest(Last(fresh)[2], a.highest) - newBase
        based      == IF rebasing THEN rebaseTo(a, newBase, newExtent)
                      ELSE IF a.base = Unset THEN [a EXCEPT !.base = newBase, !.dataStart = newBase]
                      ELSE a
        put(b, p)  == store(b, p[1], SubSeq(bytes, p[1] - offset + 1, p[2] - offset), src + p[1] - offset)
    IN  IF fresh = <<>> THEN Outcome(a, IF conflicted THEN "conflict" ELSE "duplicate", conflicted, below, released)
        ELSE IF newExtent - a.consumed > MaxBuffer THEN Outcome(a, "truncated", conflicted, below, released)
        ELSE Outcome(advanceFrontier(FoldLeft(put, based, fresh)),
                     IF rebasing THEN "rebased" ELSE "added", conflicted, below, released)

\* What is below the base, or was let go, is cut off first.
addTo(a, offset, bytes, src) ==
    LET below    == a.base # Unset /\ a.consumed > 0 /\ offset < a.base
        cut      == IF below THEN Least(a.base - offset, Len(bytes)) ELSE 0
        at       == offset + cut
        released == cut < Len(bytes) /\ a.base # Unset /\ at < a.dataStart /\ a.dataStart > a.base
        cut2     == IF released THEN cut + Least(a.dataStart - at, Len(bytes) - cut) ELSE cut
    IN  IF cut2 = Len(bytes) THEN Outcome(a, "dropped", FALSE, below, released)
        ELSE reconcile(a, offset + cut2, Cut(bytes, cut2), src + cut2, below, released)

add(a, offset, bytes, src) == addTo(maybeCompact(a), offset, bytes, src)

\* Pins the base without storing a byte.
anchor(a, offset) ==
    LET newExtent == (IF a.highest = Unset THEN a.base ELSE a.highest) - offset IN
    IF a.base = Unset THEN [asm |-> [a EXCEPT !.base = offset, !.dataStart = offset], status |-> "anchored"]
    ELSE IF offset >= a.base \/ a.consumed > 0 \/ newExtent > MaxBuffer THEN [asm |-> a, status |-> "ignored"]
    ELSE [asm |-> advanceFrontier(rebaseTo(a, offset, newExtent)), status |-> "rebased"]

segmentsOverlapping(a, start, end) ==
    SelectSeq(a.segments, LAMBDA s : s.end > a.base + start /\ s.start - a.base < end)

-----------------------------------------------------------------------------
(* Ranges and offsets.                                                     *)

\* The source positions of pieces, as maximal runs; none when there is only one.
normalizeRanges(pieces) ==
    LET covered == UNION {p[1]..(p[2] - 1) : p \in pieces}
        starts  == {n \in covered : n - 1 \notin covered}
        until(n) == CHOOSE e \in covered : e >= n /\ e + 1 \notin covered /\ n..e \subseteq covered
        runs    == {<<n, until(n) + 1>> : n \in starts}
    IN  IF Cardinality(runs) < 2 THEN {} ELSE runs

\* The offset an n-bit one stands for: the nearest to a reference.
unwrapOffset(raw, bits, reference) ==
    LET modulus   == 2 ^ bits
        candidate == (reference - (reference % modulus)) + (raw % modulus)
    IN  IF reference = Unset THEN (raw % modulus) + modulus
        ELSE IF candidate - reference > modulus \div 2 THEN candidate - modulus
        ELSE IF reference - candidate > modulus \div 2 THEN candidate + modulus
        ELSE candidate

=============================================================================
