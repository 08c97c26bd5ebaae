------------------------------ MODULE QueryFile ------------------------------
(***************************************************************************)
(* The file saved queries are exported to and imported from (sql-file.ts).     *)
(* A line is [kind, slashes]: a "name" or "format" marker, escaped by that many  *)
(* backslashes; the "header"; another "comment"; a "blank" line; or "sql".        *)
(***************************************************************************)
EXTENDS Naturals, Sequences, SequencesExt

CONSTANT MaxLines  \* lines of a query that QUERY_SQL_MAX_BYTES has room for

\* Of the constants; assumed by the module that instantiates this one.
QueryFileAssumption == MaxLines \in Nat \ {0}

Line(kind) == [kind |-> kind, slashes |-> 0]
IsBlank(line) == line.kind = "blank"
IsMarker(line, kind) == line.kind = kind /\ line.slashes = 0
isCommentOrBlank(line) == line.kind # "sql"

normalizeSql(lines) ==
    LET solid == {i \in DOMAIN lines : ~IsBlank(lines[i])} IN
    IF solid = {} THEN <<>>
    ELSE SubSeq(lines, CHOOSE i \in solid : \A j \in solid : i <= j,
                       CHOOSE i \in solid : \A j \in solid : j <= i)

escapeLine(line) ==
    IF line.kind \in {"name", "format"} THEN [line EXCEPT !.slashes = @ + 1] ELSE line

unescapeLine(line) ==
    IF line.kind \in {"name", "format"} /\ line.slashes > 0 THEN [line EXCEPT !.slashes = @ - 1] ELSE line

LOCAL Each(op(_), lines) == [i \in DOMAIN lines |-> op(lines[i])]

serializeQueryFile(queries) ==
    LET body(sql) == IF normalizeSql(sql) = <<>> THEN <<Line("blank")>>
                     ELSE Each(escapeLine, normalizeSql(sql))
        block(sql) == <<Line("blank"), Line("name")>> \o body(sql)
    IN  <<Line("header"), Line("format")>> \o FlattenSeq(Each(block, queries)) \o <<Line("blank")>>

\* addBlock: what one block of a file adds.
Block(raw) ==
    LET sql == normalizeSql(raw) IN
    IF sql = <<>> THEN [queries |-> <<>>, rejected |-> <<"empty">>]
    ELSE IF Len(sql) > MaxLines THEN [queries |-> <<>>, rejected |-> <<"too-large">>]
    ELSE [queries |-> <<sql>>, rejected |-> <<>>]

\* The bodies that follow the names of a file.
Bodies(lines) ==
    LET names   == SelectSeq([i \in DOMAIN lines |-> i], LAMBDA i : IsMarker(lines[i], "name"))
        last(k) == IF k = Len(names) THEN Len(lines) ELSE names[k + 1] - 1
    IN  [k \in DOMAIN names |-> SubSeq(lines, names[k] + 1, last(k))]

parseQueryFile(lines) ==
    LET named    == \E i \in DOMAIN lines : IsMarker(lines[i], "name")
        preamble == IF named THEN SubSeq(lines, 1, SelectInSeq(lines, LAMBDA l : IsMarker(l, "name")) - 1)
                             ELSE lines
        library  == LET solid == SelectSeq(preamble, LAMBDA l : ~IsBlank(l))
                    IN  solid # <<>> /\ solid[1].kind = "header"
        format   == (named \/ library) /\ \E i \in DOMAIN preamble : IsMarker(preamble[i], "format")
        blocks   == Each(LAMBDA body : Block(Each(unescapeLine, body)), Bodies(lines))
        unnamed  == IF \A i \in DOMAIN preamble : isCommentOrBlank(preamble[i]) THEN <<>> ELSE <<"unnamed">>
        none     == [queries |-> <<>>, rejected |-> <<>>]
        whole    == IF library /\ \A i \in DOMAIN lines : isCommentOrBlank(lines[i]) THEN none ELSE Block(lines)
    IN  IF ~named THEN [format |-> format, queries |-> whole.queries, rejected |-> whole.rejected]
        ELSE [format   |-> format,
              queries  |-> FlattenSeq(Each(LAMBDA b : b.queries, blocks)),
              rejected |-> unnamed \o FlattenSeq(Each(LAMBDA b : b.rejected, blocks))]

-----------------------------------------------------------------------------
(* Properties.                                                             *)

\* What is exported is what is imported, whatever lines the queries hold (sql-file.ts:7-13).
ExportsComeBack(queries) ==
    \E file \in {parseQueryFile(serializeQueryFile(queries))} :
    LET kept == SelectSeq(Each(normalizeSql, queries), LAMBDA sql : sql # <<>> /\ Len(sql) <= MaxLines)
    IN  file.format /\ file.queries = kept /\ Len(file.rejected) = Len(queries) - Len(kept)

\* No line of SQL in a file is dropped in silence (sql-file.ts:119-131): as many are imported
\* as there are, or something is rejected.
NothingDropped(lines) ==
    \E file \in {parseQueryFile(lines)} :
    LET sqlOf(ls) == Len(SelectSeq(ls, LAMBDA l : l.kind = "sql"))
    IN  \/ file.rejected # <<>>
        \/ sqlOf(FlattenSeq(file.queries)) = sqlOf(lines)

=============================================================================
