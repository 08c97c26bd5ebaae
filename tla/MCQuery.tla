------------------------------- MODULE MCQuery -------------------------------
(***************************************************************************)
(* What stands behind a query, for TLC: the session of its cursor             *)
(* (QuerySession), the result family on top of it (Results), the CSV download  *)
(* (CsvExport), and the conversions on the way (CsvText, ResultWindow,         *)
(* QueryFile, ByteCoverage) over bounded inputs.                              *)
(*                                                                         *)
(* A behaviour is about one part, the others keep their initial values: the   *)
(* parts share no state, so their product would only repeat each of them.     *)
(***************************************************************************)
EXTENDS Integers, Sequences, Results, QuerySession

CONSTANT Null  \* no value, of a row's file, start or pieces

VARIABLES
    part,                                                    \* what the behaviour is about
    lost,                                                   \* the queries whose family an older one has closed
    client, active, lastId, toWorker, toClient, encoding, dl, dest, file    \* of CsvExport

C == INSTANCE CsvExport WITH MaxDownloads <- 2, Pages <- 2, Chunks <- 2, BlobLimit <- 3

Csv      == INSTANCE CsvText WITH MaxChunk <- 6, TextBlock <- 2
Window   == INSTANCE ResultWindow WITH WindowRows <- 12, EdgeRows <- 1, Viewport <- 2
Sql      == INSTANCE QueryFile WITH MaxLines <- 2
Coverage == INSTANCE ByteCoverage WITH IntervalCap <- 4, BytesPerRow <- 4

ASSUME PartsAssumption ==
    /\ FamilyAssumption /\ ViewerAssumption /\ CallsAssumption
    /\ StoreAssumption /\ QueryAssumption
    /\ C!CsvExportAssumption /\ Csv!CsvTextAssumption /\ Window!ResultWindowAssumption
    /\ Sql!QueryFileAssumption /\ Coverage!ByteCoverageAssumption

csvVars     == <<client, active, lastId, toWorker, toClient, encoding, dl, dest, file>>
mcVars      == <<vars, queryVars, csvVars, part, lost>>

-----------------------------------------------------------------------------
(* The inputs of the conversions.                                             *)

Upto(S, n) == UNION {[1..k -> S] : k \in 0..n}

\* Cells of up to four code units, around a block of two, and a row of two of them.
Texts == Upto({"quote", "one", "three", "high", "low"}, 4)
Pages ==
    {<<"page", <<>>, <<t>>>> : t \in Texts}
      \cup {<<"page", <<<<"quote", "one">>>>, <<t, u>>>> : t, u \in Upto({"quote", "three", "high", "low"}, 2)}
\* Days around the ends of centuries and seconds around midnight, both sides of 1970.
Days    == {<<"date", k * 36524 + d>> : k \in -25..25, d \in -2..2}
Instants == {<<"instant", k * 8640 + d>> : k \in -25..25, d \in -2..2}
\* Results of up to four pages, around a window of twelve rows.
Windows == {<<"window", p, n, t>> : p \in Upto({1, 4, 7}, 3) \cup [1..4 -> {4, 7}], n \in -1..28, t \in {0, 3, 9}}
\* Two queries of up to two lines, and files of up to three.
QueryLines == [kind : {"name"}, slashes : 0..2] \cup [kind : {"comment", "blank", "sql"}, slashes : {0}]
FileLines  == [kind : {"name", "format"}, slashes : 0..1] \cup [kind : {"header", "comment", "blank", "sql"}, slashes : {0}]
SavedQueries == {<<"queries", q>> : q \in Upto(Upto(QueryLines, 2), 2)}
SqlFiles == {<<"sql", f>> : f \in Upto(FileLines, 3)}
\* Rows that overlap, touch, nest, repeat, lie elsewhere or are made of two pieces.
Row(f, s, e, r) == [file |-> f, start |-> s, end |-> e, ranges |-> r]
Rows == {Row("a", s, e, Null) : s \in {0, 1, 3}, e \in {1, 2, 4}}
          \cup {Row("b", 0, 2, Null), Row("a", Null, 2, Null), Row("a", 0, 4, <<[start |-> 0, end |-> 1], [start |-> 2, end |-> 4]>>)}
Results == {<<"rows", r>> : r \in Upto(Rows, 3)}
Cells   == {<<"cells", s, e, f, r, n>> : s \in 0..5, e \in 0..9, f \in 0..1, r \in 1..2, n \in {5, 9}}

Samples == Pages \cup Days \cup Instants \cup Windows \cup SavedQueries \cup SqlFiles \cup Results \cup Cells

-----------------------------------------------------------------------------

MCInit ==
    /\ part \in {<<"family">>, <<"session">>, <<"csv">>} \cup Samples
    /\ part = <<"session">> \/ (total = 0 /\ persistent = TRUE)
    /\ lost = {}
    /\ Init /\ QueryInit /\ C!Init

\* Bounds: generations and requests of the family together, so that the third query
\* comes with one request and the second with two; and of a third, that the request is
\* a demand or a sort, since what it is about is a query waiting for a sort to unwind.
FamilyCalls == 4

WithinFamily ==
    /\ queryGen' + Requests' <= FamilyCalls
    /\ queryGen' > 2 => \A e \in Exports : exp'[e].at = "no"

\* A query that has been superseded closes the family of the one that replaced it.
ClosedBySuperseded ==
    base # None /\ \E q \in Queries : q < base /\ run[q].at = "cleanup" /\ run'[q].at = "closing"

InFamily ==
    /\ part = <<"family">> /\ Next /\ WithinFamily
    /\ lost' = IF ClosedBySuperseded THEN lost \cup {base} ELSE lost
    /\ UNCHANGED <<part, queryVars, csvVars>>
InSession == part = <<"session">> /\ QueryNext /\ UNCHANGED <<part, lost, vars, csvVars>>
InCsv     == part = <<"csv">> /\ C!Next /\ UNCHANGED <<part, lost, vars, queryVars>>

\* The user may stop asking the family and the downloads for anything.
Rests == part # <<"session">> /\ UNCHANGED mcVars

MCNext == InFamily \/ InSession \/ InCsv \/ Rests

\* The fairness of QuerySession and of Results.
MCSpec ==
    /\ MCInit /\ [][MCNext]_mcVars
    /\ WF_queryVars(part = <<"session">> /\ PageDemandStep)
    /\ WF_queryVars(part = <<"session">> /\ CloseQueryStep)
    /\ WF_queryVars(part = <<"session">> /\ StoreStep)
    /\ WF_queryVars(part = <<"session">> /\ FilesRead)
    /\ WF_queryVars(part = <<"session">> /\ CursorAnswers)
    /\ WF_queryVars(part = <<"session">> /\ cancelSignal # "none" /\ Pulled)
    /\ WF_vars(part = <<"family">> /\ Answers)

-----------------------------------------------------------------------------
(* Properties.  Those of Results and QuerySession are extended.                *)

UnderWay ==
    \/ part = <<"session">> /\ closing \notin {"no", "done"}
    \/ part = <<"family">> /\ Busy

\* What is under way ends: the close of a cursor's session, and queries, sorts and
\* downloads of the family, so that no flag blocks the controls for good.  The code
\* has one exception: a superseded query that waited for a sort to unwind closes
\* the family of the query that replaced it without asking whether it is still
\* current (result-session.ts:129-130), and that one, its first page fetched, finds
\* its family gone and returns without a word (result-session.ts:151, 154).  Its
\* phase stays 'querying' until the user cancels or runs another; nothing else may.
UnderWayEnds == UnderWay ~> (~UnderWay \/ (part = <<"family">> /\ queryGen \in lost))

\* A download's file is the result's rows in order, and no download waits for good.
DownloadsAreWhole == part = <<"csv">> => C!FileIsTheResult /\ C!EncodesEnd

\* CSV pages, windows of rows, exported queries and the byte index lose, repeat and
\* move nothing.
ConversionsAreExact ==
    /\ part[1] = "page" => Csv!PageIsWhole(part[2], part[3])
    /\ part[1] = "date" => Csv!DateIsCivil(Csv!formatCivilDate(part[2]), part[2])
    /\ part[1] = "instant" => Csv!TimestampIsExact(part[2], 10)
    /\ part[1] = "window" =>
         Window!WindowIsWhole(part[2], part[3]) /\ Window!PagingKeepsPlace(part[2], part[3], part[4])
    /\ part[1] = "queries" => Sql!ExportsComeBack(part[2])
    /\ part[1] = "sql" => Sql!NothingDropped(part[2])
    /\ part[1] = "rows" => Coverage!CoverageIsExact(part[2], "a", 2, 4)
    /\ part[1] = "cells" =>
         Coverage!CellsHitTheirBytes(part[2], part[3], part[4], part[5], part[6])
=============================================================================
