------------------------------- MODULE MidiTrack -------------------------------
(***************************************************************************)
(* The MIDI pack: the chunks of a file (container.ts), the events of a track in     *)
(* normal form (vlq.ts, normalize-track.ts), and the records and reports the framer   *)
(* makes of them (framer.ts).                                                  *)
(*                                                                         *)
(* A file is a sequence of bytes, and an offset counts from 0.  What the generated      *)
(* parser makes of an event, its fields, is left as the bytes behind the status: it is   *)
(* handed events with a status of their own, and NormalFormIsExact says that it is.    *)
(***************************************************************************)
EXTENDS Integers, Sequences, FiniteSets, SequencesExt, FiniteSetsExt

CONSTANTS Null

HEADER_TAG == <<77, 84, 104, 100>>
TRACK_TAG  == <<77, 84, 114, 107>>

hasTag(bytes, offset, tag) == SubSeq(bytes, offset + 1, offset + 4) = tag
Uint16(bytes, offset) == bytes[offset + 1] * 256 + bytes[offset + 2]
Int16(bytes, offset) == ((Uint16(bytes, offset) + 2 ^ 15) % 2 ^ 16) - 2 ^ 15
\* Of lengths below 2^16: the two bytes before are zero in every file used.
Uint32(bytes, offset) == Uint16(bytes, offset + 2)

MidiParseError(code, offset) == [code |-> code, offset |-> offset]

-----------------------------------------------------------------------------
(* The chunks.  A container is [error, header, tracks], and error is Null or why the file    *)
(* is refused.                                                              *)

TrackChunk(bytes, index, chunkStart) ==
    LET bodyStart == chunkStart + 8
        bodyEnd   == bodyStart + Uint32(bytes, chunkStart + 4)
    IN  [index |-> index, chunkStart |-> chunkStart, bodyStart |-> bodyStart, bodyEnd |-> bodyEnd,
         body |-> SubSeq(bytes, bodyStart + 1, Min({bodyEnd, Len(bytes)}))]

WithTrack(bytes, c, index) ==
    LET chunkStart == IF c.tracks = <<>> THEN c.header.end ELSE Last(c.tracks).bodyEnd
        track      == TrackChunk(bytes, index, chunkStart)
    IN  IF c.error # Null THEN c
        ELSE IF Len(bytes) - chunkStart < 8 \/ ~hasTag(bytes, chunkStart, TRACK_TAG)
        THEN [c EXCEPT !.error = MidiParseError("MISSING_TRACK", chunkStart)]
        ELSE IF track.bodyEnd > Len(bytes)
        THEN [c EXCEPT !.error = MidiParseError("TRUNCATED_TRACK", track.bodyStart)]
        ELSE [c EXCEPT !.tracks = Append(@, track)]

parseMidiContainer(bytes) ==
    LET Refused(code, offset) == [error |-> MidiParseError(code, offset), header |-> Null, tracks |-> <<>>]
        headerEnd == 8 + Uint32(bytes, 4)
        header    == [format |-> Uint16(bytes, 8), numTracks |-> Uint16(bytes, 10),
                      division |-> Int16(bytes, 12), smpte |-> Int16(bytes, 12) < 0, end |-> headerEnd]
        opened    == [error |-> Null, header |-> header, tracks |-> <<>>]
    IN  IF Len(bytes) < 4 THEN Refused("TRUNCATED_HEADER", 0)
        ELSE IF ~hasTag(bytes, 0, HEADER_TAG) THEN Refused("INVALID_MAGIC", 0)
        ELSE IF Len(bytes) < 8 THEN Refused("TRUNCATED_HEADER", 0)
        ELSE IF Uint32(bytes, 4) < 6 THEN Refused("UNSUPPORTED_HEADER_LENGTH", 4)
        ELSE IF headerEnd > Len(bytes) THEN Refused("TRUNCATED_HEADER", 8)
        ELSE IF header.format \notin 0..2 THEN Refused("UNSUPPORTED_FORMAT", 8)
        ELSE FoldLeft(LAMBDA c, n : WithTrack(bytes, c, n - 1), opened, [n \in 1..header.numTracks |-> n])

-----------------------------------------------------------------------------
(* Events.  t is [offset, runningStatus, bytes, events, error].                      *)

\* A quantity of up to four bytes, the last of which is below 128.
decodeVlq(bytes, offset) ==
    LET ends == {n \in 0..3 : offset + n >= Len(bytes) \/ bytes[offset + n + 1] < 128}
        next == offset + Min(ends) + 1
    IN  IF ends = {} THEN [error |-> "VLQ_TOO_LONG", value |-> 0, next |-> offset]
        ELSE IF next > Len(bytes) THEN [error |-> "VLQ_TRUNCATED", value |-> 0, next |-> offset]
        ELSE [error |-> Null, next |-> next,
              value |-> FoldLeft(LAMBDA v, b : (v * 128) + (b % 128), 0, SubSeq(bytes, offset + 1, next))]

Throws(t, track, code, offset) ==
    [t EXCEPT !.error = MidiParseError(code, track.bodyStart + offset)]

appendCompletedEvent(t, track, eventBytes, deltaTime, end) ==
    [t EXCEPT !.offset = end, !.bytes = @ \o eventBytes,
              !.events = Append(@, [index |-> Len(t.events), deltaTime |-> deltaTime,
                                    normalizedStart |-> Len(t.bytes), normalizedEnd |-> Len(t.bytes) + Len(eventBytes),
                                    sourceStart |-> track.bodyStart + t.offset, sourceEnd |-> track.bodyStart + end])]

\* A channel event is given the status it runs under.
dataLength(status) == IF status \div 16 \in {12, 13} THEN 1 ELSE 2

ChannelEvent(t, track, delta, status, offset) ==
    LET Missing(k) == offset + k >= Len(track.body)
        wrong      == {k \in 0..(dataLength(status) - 1) : Missing(k) \/ track.body[offset + k + 1] >= 128}
        end        == offset + dataLength(status)
        bytes      == SubSeq(track.body, t.offset + 1, delta.next) \o <<status>>
                          \o SubSeq(track.body, offset + 1, end)
    IN  IF wrong # {} THEN Throws(t, track, IF Missing(Min(wrong)) THEN "TRUNCATED_EVENT" ELSE "INVALID_DATA_BYTE",
                                  offset + Min(wrong))
        ELSE appendCompletedEvent([t EXCEPT !.runningStatus = status], track, bytes, delta.value, end)

\* Meta and SysEx events are as they were written, and end the running status.
SystemEvent(t, track, delta, status, offset) ==
    LET at     == IF status = 255 THEN offset + 1 ELSE offset
        length == decodeVlq(track.body, at)
        end    == length.next + length.value
        q      == [t EXCEPT !.runningStatus = Null]
    IN  IF status \notin {240, 247, 255} THEN Throws(q, track, "UNSUPPORTED_STATUS", offset - 1)
        ELSE IF status = 255 /\ offset >= Len(track.body) THEN Throws(q, track, "TRUNCATED_EVENT", offset)
        ELSE IF length.error # Null THEN Throws(q, track, length.error, at)
        ELSE IF end > Len(track.body) THEN Throws(q, track, "TRUNCATED_EVENT", Len(track.body))
        ELSE appendCompletedEvent(q, track, SubSeq(track.body, t.offset + 1, end), delta.value, end)

\* The event after a delta time.
EventAfter(t, track, delta) ==
    LET nextByte == track.body[delta.next + 1]
        explicit == nextByte >= 128
        status   == IF explicit THEN nextByte ELSE t.runningStatus
        offset   == IF explicit THEN delta.next + 1 ELSE delta.next
    IN  IF delta.error # Null THEN Throws(t, track, delta.error, t.offset)
        ELSE IF delta.next >= Len(track.body) THEN Throws(t, track, "TRUNCATED_EVENT", delta.next)
        ELSE IF status = Null THEN Throws(t, track, "RUNNING_STATUS_MISSING", offset)
        ELSE IF status < 240 THEN ChannelEvent(t, track, delta, status, offset)
        ELSE SystemEvent(t, track, delta, status, offset)

Event(t, track) == EventAfter(t, track, decodeVlq(track.body, t.offset))

normalizeTrack(track) ==
    LET first == [offset |-> 0, runningStatus |-> Null, bytes |-> <<>>, events |-> <<>>, error |-> Null]
        next(t, b) == IF t.error # Null \/ t.offset >= Len(track.body) THEN t ELSE Event(t, track)
    IN  FoldLeft(next, first, track.body)

-----------------------------------------------------------------------------
(* The framer: every track is normalized, then parsed, before the first record is handed     *)
(* over.  unparsed are the tracks the generated parser throws at.                        *)

issueReport(track, error) ==
    [ordinal |-> track.index, code |-> error.code, start |-> error.offset,
     end |-> IF error.offset < track.bodyEnd THEN error.offset + 1 ELSE error.offset]
parserReport(track) ==
    [ordinal |-> track.index, code |-> "KAITAI_PARSE_FAILED", start |-> track.bodyStart, end |-> track.bodyEnd]

\* What onError makes of a record the projection throws at.
projectionReport(track) ==
    [ordinal |-> track.index, code |-> "PROJECTION_FAILED", start |-> track.bodyStart, end |-> track.bodyEnd]

headerNode(header) == [format |-> header.format, numTracks |-> header.numTracks, division |-> header.division]

\* An event of a normal form, t, and the span of the file it is of.
Normal(t, e) == SubSeq(t.bytes, e.normalizedStart + 1, e.normalizedEnd)
StatusAt(normal) == decodeVlq(normal, 0).next + 1
projectionEvent(t, e) ==
    LET normal == Normal(t, e) IN
    [deltaTime |-> e.deltaTime, eventHeader |-> normal[StatusAt(normal)],
     body |-> SubSeq(normal, StatusAt(normal) + 1, Len(normal))]
provenance(t) == [k \in DOMAIN t.events |-> [start |-> t.events[k].sourceStart, end |-> t.events[k].sourceEnd]]

\* The record of a track that was parsed, w its work.
trackRecord(c, w) ==
    [tables |-> {"events", "tempo"}, hdr |-> headerNode(c.header), ordinal |-> w.track.index,
     events |-> [k \in DOMAIN w.normalized.events |-> projectionEvent(w.normalized, w.normalized.events[k])],
     provenance |-> provenance(w.normalized), onError |-> projectionReport(w.track)]

\* works are the tracks with their normal forms.
Framed(c, works, unparsed) ==
    LET broken == SelectSeq(works, LAMBDA w : w.normalized.error # Null)
        thrown == SelectSeq(works, LAMBDA w : w.track.index \in unparsed)
        parsed == SelectSeq(works, LAMBDA w : w.track.index \notin unparsed)
        header == [tables |-> {"header"}, hdr |-> headerNode(c.header), ordinal |-> Null, events |-> <<>>,
                   provenance |-> <<[start |-> 0, end |-> c.header.end]>>, onError |-> Null]
    IN  [error |-> Null, audio |-> ~c.header.smpte,
         issues |-> [i \in DOMAIN broken |-> issueReport(broken[i].track, broken[i].normalized.error)]
                    \o [i \in DOMAIN thrown |-> parserReport(thrown[i].track)],
         records |-> <<header>> \o [i \in DOMAIN parsed |-> trackRecord(c, parsed[i])]]

smfFramer(bytes, unparsed) ==
    LET Refused(error) == [error |-> error, records |-> <<>>, issues |-> <<>>, audio |-> FALSE]
        framer(c) ==
            IF c.error # Null THEN Refused(c.error)
            ELSE IF c.header.format = 2 THEN Refused(MidiParseError("UNSUPPORTED_MIDI_TYPE", 8))
            ELSE Framed(c, [i \in DOMAIN c.tracks |->
                               [track |-> c.tracks[i], normalized |-> normalizeTrack(c.tracks[i])]], unparsed)
    IN  framer(parseMidiContainer(bytes))

-----------------------------------------------------------------------------
(* Properties.                                                             *)

StatusOf(normal) == normal[StatusAt(normal)]

\* An event that begins at start, of these bytes in the file and in normal form, where the event
\* before it has the status running.
EventIsExact(e, start, source, normal, at, running) ==
    /\ e.sourceStart = start
    /\ normal[at] >= 128 /\ decodeVlq(normal, 0).value = e.deltaTime
    /\ normal[at] < 240 => Len(normal) - at = IF normal[at] \in 192..223 THEN 1 ELSE 2
    /\ normal = source \/ (normal[at] = running /\ running < 240 /\ source = RemoveAt(normal, at))

EventsAreExact(bytes, track, t) ==
    \A k \in DOMAIN t.events : \E e \in {t.events[k]} :
        EventIsExact(e, IF k = 1 THEN track.bodyStart ELSE t.events[k - 1].sourceEnd,
                     SubSeq(bytes, e.sourceStart + 1, e.sourceEnd), Normal(t, e), StatusAt(Normal(t, e)),
                     IF k = 1 THEN Null ELSE StatusOf(Normal(t, t.events[k - 1])))

\* A record's events are the bytes of its spans, but for a status they run under.
RecordIsExact(bytes, r, t) ==
    /\ Len(r.events) = Len(t.events) /\ Len(r.provenance) = Len(r.events)
    /\ \A k \in DOMAIN r.events : \E e \in {r.events[k]} : \E p \in {r.provenance[k]} :
           \E source \in {SubSeq(bytes, p.start + 1, p.end)} :
               /\ e.body = SubSeq(source, Len(source) - Len(e.body) + 1, Len(source))
               /\ e.eventHeader = IF source[StatusAt(source)] >= 128 THEN source[StatusAt(source)]
                                  ELSE r.events[k - 1].eventHeader

\* again is the normal form of t's bytes, and f what the framer makes of the file.
TrackIsExact(bytes, track, t, again, f, unparsed) ==
    /\ IF track.index \in unparsed
       THEN /\ \A r \in ToSet(f.records) : r.ordinal # track.index
            /\ parserReport(track) \in ToSet(f.issues)
       ELSE \E r \in ToSet(f.records) : r.ordinal = track.index /\ RecordIsExact(bytes, r, t)
    /\ EventsAreExact(bytes, track, t)
    /\ again.bytes = t.bytes /\ again.error = Null
    /\ \A k \in DOMAIN t.events : again.events[k].normalizedEnd = t.events[k].normalizedEnd
    /\ t.error = Null => Len(track.body) = t.offset
    /\ t.error # Null => \E issue \in ToSet(f.issues) :
           /\ issue.ordinal = track.index /\ issue.code = t.error.code
           /\ track.bodyStart + t.offset <= issue.start /\ issue.start <= issue.end /\ issue.end <= track.bodyEnd

TracksAreExact(bytes, tracks, f, unparsed) ==
    /\ \A track \in ToSet(tracks) : \E t \in {normalizeTrack(track)} :
           TrackIsExact(bytes, track, t, normalizeTrack([track EXCEPT !.body = t.bytes]), f, unparsed)
    /\ \A i, k \in DOMAIN f.records : i # k => f.records[i].ordinal # f.records[k].ordinal

\* Every event the pack hands over is one of the file, with the status it was played under: its
\* span follows the one before, its bytes in normal form are those of the span with that status
\* after the delta time, a second normalization changes nothing, and what follows the last one of
\* a track is reported where it begins to be wrong.  A track is one record or one report of the
\* parser (normalize-track.ts:27-48, 66-85, 100-113, kaitai.ts:67-82, framer.ts:55-66, 144-158).
NormalFormIsExact(bytes, unparsed) ==
    \E f \in {smfFramer(bytes, unparsed)} :
        f.error = Null => TracksAreExact(bytes, parseMidiContainer(bytes).tracks, f, unparsed)

=============================================================================
