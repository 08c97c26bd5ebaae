-------------------------------- MODULE MCParse --------------------------------
(***************************************************************************)
(* The parsing of a file, for TLC: the protocol between the app and its worker  *)
(* (ParseProtocol), and what the worker does: the driver that turns records     *)
(* into batches (PackDriver), the reassembly of streams (StreamRuntime), and    *)
(* the framing of captures (PcapFraming, PcapngReader) and the events of MIDI      *)
(* tracks (MidiTrack) over bounded inputs.                                   *)
(*                                                                         *)
(* A behaviour is about one part, the others keep their initial values: they  *)
(* hand over records and batches but share no state.                          *)
(***************************************************************************)
EXTENDS Integers, Sequences, ParseProtocol

CONSTANT Null

VARIABLES
    part,                                                     \* what the behaviour is about
    file, at, session, pump, sinceYield, consumed, reportedConsumed,   \* of PackDriver
    pending, tailEmitted, drained, failure, aborted, delivered, progress,
    capture, ordered, messages, segmentRows, reading          \* of StreamRuntime

-----------------------------------------------------------------------------
(* The records of a capture that the driver meets: rows of interfaces, and packets    *)
(* whose chains of layers parse, are not taken, run out of bytes or fail.            *)

Link(when, parses, rows, deeper) ==
    [when |-> when, parses |-> parses, rows |-> rows, deeper |-> deeper]
Chain(payload, range, links) == [payload |-> payload, at |-> range, links |-> links]
Row(table, kept, fails, range, chains) ==
    [table |-> table, kept |-> kept, fails |-> fails, at |-> range, chains |-> chains]

Tcp(range)         == Row("tcps", TRUE, "no", range, <<>>)
Inner              == Chain(TRUE, <<2, 4>>, <<Link(TRUE, TRUE, <<Tcp(<<0, 2>>)>>, <<>>)>>)
Overlong           == Chain(TRUE, <<3, 6>>, <<Link(TRUE, TRUE, <<Tcp(<<0, 3>>)>>, <<>>)>>)
Ip(deeper, fails)  == Chain(TRUE, <<12, 16>>, <<Link(FALSE, TRUE, <<>>, <<>>),
                        Link(TRUE, TRUE, <<Row("ips", TRUE, fails, <<0, 3>>, deeper)>>, <<>>)>>)
Absent             == Chain(FALSE, <<0, 0>>, <<>>)
Untaken(parses)    == Chain(TRUE, <<12, 16>>, <<Link(parses, FALSE, <<>>, <<>>)>>)
Packet(chains)     == [rows |-> <<Row("packets", TRUE, "no", <<10, 16>>, chains)>>]
Interface(n, fails) == [rows |-> <<Row("interfaces", TRUE, fails, <<n, n + 1>>, <<>>)>>]

Records ==
    {Interface(0, "no"), Interface(1, "value"), Packet(<<Ip(<<Inner>>, "no")>>),
     Packet(<<Ip(<<Overlong>>, "no")>>), Packet(<<Ip(<<Inner>>, "value")>>),
     Packet(<<Ip(<<>>, "cell")>>), Packet(<<Ip(<<>>, "field")>>),
     Packet(<<Absent, Untaken(TRUE), Untaken(FALSE)>>),
     [rows |-> <<Row("packets", FALSE, "no", <<10, 16>>, <<>>), Row("packets", TRUE, "no", <<10, 16>>, <<>>)>>]}

Upto(S, n) == UNION {[1..k -> S] : k \in 0..n}

Captures == [records : Upto(Records, 3), reports : {<<>>, <<<<"framing", "TRUNCATED_RECORD">>>>},
             ends : {"done", "read"}]

P == INSTANCE PackDriver WITH
       Files <- Captures, Outputs <- <<"interfaces", "packets", "ips", "tcps", "errors">>,
       ParentOf <- [ips |-> "packets", tcps |-> "ips"],
       flushRowThreshold <- 3, yieldInterval <- 2

\* Two directions, the first of which wraps the sequence numbers, cut into segments that
\* overlap, repeat, leave gaps and pass the limits.
Connections == <<[isn |-> 6, bytes |-> <<3, 0, 0, 3, 0, 0, 4, 0, 0, 0>>],
                 [isn |-> 3, bytes |-> <<1, 2, 0>>]>>
Parts == {<<0, 3>>, <<3, 3>>, <<6, 4>>, <<4, 3>>, <<2, 1>>}

S == INSTANCE StreamRuntime WITH
       MaxBuffer <- 5, CompactMin <- 1, OffsetBits <- 5, MaxPackets <- 4,
       file <- capture, at <- reading

F == INSTANCE PcapFraming
D == INSTANCE MidiTrack
N == INSTANCE PcapngReader WITH HalfBits <- 4, Int64Max <- 5000

ASSUME PartsAssumption == S!StreamAssemblerAssumption /\ S!StreamRuntimeAssumption /\ N!PcapngReaderAssumption

packVars   == <<file, at, session, pump, sinceYield, consumed, reportedConsumed, pending,
                tailEmitted, drained, failure, aborted, delivered, progress>>
streamVars == <<capture, ordered, messages, segmentRows, reading>>
mcVars     == <<vars, packVars, streamVars, part>>

-----------------------------------------------------------------------------
(* The inputs of the framing.                                                  *)

\* Classic captures, cut into chunks: a record is as many units as its header says.
Classic == {<<"file", <<magic>> \o f, c, m>> :
               magic \in {1, 2}, f \in Upto({0, 1, 4}, 6), c \in {1, 4}, m \in {1, 4}}
             \cup {<<"file", <<2, 3, 25, 1, 6, 4>> \o f, c, 3>> : f \in Upto({0, 2, 3}, 6), c \in {2, 5, 8}}

\* pcapng files of blocks of each kind, whole or with one thing wrong; cut off at the end, or
\* written in another byte order from some section on.
Opt(code, value) == [code |-> code, length |-> Len(value), value |-> value]
Named   == Opt("name", <<7, 0>>)
Options == [none |-> <<>>, section |-> <<Opt("os", <<5, 0, 6, 0>>), Opt("os", <<8>>)>>,
            iface |-> <<Named, Opt("description", <<6>>), Opt("tsresol", <<129>>), [code |-> "tsoffset", length |-> 8, value |-> -3]>>,
            ended |-> <<Opt("comment", <<9>>), Opt("end", <<>>)>>, over |-> <<[code |-> "comment", length |-> 40, value |-> <<>>]>>]
Block(type, size, options) ==
    [type |-> type, size |-> size, length |-> size, trailer |-> size, order |-> TRUE, magic |-> TRUE, major |-> 1,
     linktype |-> "raw", snaplen |-> 3, iface |-> 0, high |-> 0, low |-> 7, incl |-> 2, orig |-> 6,
     data |-> <<4, 1>>, options |-> Options[options]]
Section == Block("shb", 44, "section")
Iface   == Block("idb", 56, "iface")
Epb == Block("epb", 44, "ended")
Blocks ==
    {Section, Iface, Block("idb", 16, "none"), Block("idb", 72, "none"), Epb,
     [Epb EXCEPT !.iface = 1, !.high = 9], Block("spb", 20, "none"), Block("odd", 16, "none"),
     Block("other", 12, "none")}
Damaged ==
    {Block("shb", 24, "none"), [Section EXCEPT !.major = 2], [Section EXCEPT !.magic = FALSE],
     Block("idb", 20, "none"), [Epb EXCEPT !.incl = 20], [Epb EXCEPT !.trailer = 40],
     [Epb EXCEPT !.length = 20], [Epb EXCEPT !.order = FALSE], Block("opb", 40, "over"),
     Block("spb", 12, "none"), Block("nrb", 12, "none")}
Cut(blocks, n) == <<"blocks", [blocks |-> blocks, size |-> N!EndOf([blocks |-> blocks], Len(blocks)) - n]>>
Turned(blocks) == [i \in DOMAIN blocks |-> [blocks[i] EXCEPT !.order = FALSE]]
PcapNg == {Cut(<<Section, Iface>> \o f, 0) : f \in Upto(Blocks, 3) \cup Upto(Blocks \cup Damaged, 2)}
            \cup {Cut(f, n) : f \in Upto(Blocks \cup Damaged, 1), n \in {0, 3, 8, 11}}
            \cup {Cut(<<Section>> \o Turned(<<Section, Iface>> \o f), n) : f \in Upto(Blocks, 2), n \in {0, 4}}

Times == {<<"time", u, [base |-> b, exponent |-> e], o>> :
            u \in {0, 1, 7, 999, 1234, 5000}, b \in {2, 10}, e \in 0..4, o \in {-3, 0, 2}}

\* MIDI files: tracks of any few bytes that tell statuses, data and lengths apart, headers of each
\* kind, and files cut off anywhere.
Header(format, tracks, division) == <<77, 84, 104, 100, 0, 0, 0, 6, 0, format, 0, tracks, division, 96>>
Track(body) == <<77, 84, 114, 107, 0, 0, 0, Len(body)>> \o body
Note == <<0, 144, 60, 1>>
Midi == {<<"midi", Header(1, 1, 0) \o Track(f), {}>> : f \in Upto({0, 1, 129, 144, 255}, 4)}
   \cup {<<"midi", Header(1, 1, 0) \o Track(Note \o f), {}>> : f \in Upto({0, 2, 128, 193, 240, 241}, 4)}
   \cup {<<"midi", Header(1, 1, 0) \o Track(Note \o <<0, 240, 0>> \o f), {}>> : f \in Upto({0, 2, 194}, 5)}
   \cup {<<"midi", Header(format, n, division) \o Track(Note) \o f, thrown>> : format \in 0..3, n \in 0..2,
            division \in {0, 226}, f \in {<<>>, Track(<<0>>), Track(<<144>>), SubSeq(Track(<<>>), 1, 3)},
            thrown \in SUBSET {0, 1}}
   \cup {<<"midi", SubSeq(Header(0, 1, 0) \o Track(Note), 1, n), {}>> : n \in 0..24}
   \cup {<<"midi", <<77, 84, 104, 100, 0, 0, 0, 5, 0, 0, 0, 0, 0>>, {}>>, <<"midi", Track(Note), {}>>}

Samples == Classic \cup PcapNg \cup Times \cup Midi

-----------------------------------------------------------------------------

MCInit ==
    /\ part \in {<<"protocol">>, <<"pack">>, <<"streams">>} \cup Samples
    /\ part = <<"pack">> \/ file = [records |-> <<>>, reports |-> <<>>, ends |-> "done"]
    /\ Init /\ P!Init /\ S!Init

InProtocol == part = <<"protocol">> /\ Next /\ UNCHANGED <<part, packVars, streamVars>>
InPack     == part = <<"pack">> /\ P!Next /\ UNCHANGED <<part, vars, streamVars>>
InStreams  == part = <<"streams">> /\ S!Next /\ UNCHANGED <<part, vars, packVars>>

\* A file is read to its end.
Rests == part # <<"protocol">> /\ UNCHANGED mcVars

MCNext == InProtocol \/ InPack \/ InStreams \/ Rests

\* The fairness of ParseProtocol.
MCSpec ==
    /\ MCInit /\ [][MCNext]_mcVars
    /\ WF_vars(part = <<"protocol">> /\ Deliver)
    /\ WF_vars(part = <<"protocol">> /\ (WorkerParse \/ WorkerAck))
    /\ \A t \in Tasks : /\ WF_vars(part = <<"protocol">> /\ WorkerStep(t))
                      /\ WF_vars(part = <<"protocol">> /\ ChainStep(t))

-----------------------------------------------------------------------------
(* Properties.  Those of ParseProtocol are extended.                            *)

\* What a file says reaches the tables: its records whole and linked, however they are
\* cut into batches; its packets under their own interface and time, however its bytes are
\* cut into chunks; and the events of its tracks under their own status.
RecordsAreExact ==
    /\ part = <<"pack">> => P!PackIsExact
    /\ part[1] = "file" => F!FramingIsExact(part[2], part[3], part[4])
    /\ part[1] = "blocks" => N!PacketsKeepTheirInterface(part[2], 64)
    /\ part[1] = "midi" => D!NormalFormIsExact(part[2], part[3])
    /\ part[1] = "time" => F!TimesRoundDown(part[2], part[3], part[4])

\* Streams are reassembled in order, however their segments arrive.
StreamsAreExact == part = <<"streams">> => S!StreamsAreExact
=============================================================================
