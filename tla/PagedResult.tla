------------------------------ MODULE PagedResult ------------------------------
(***************************************************************************)
(* What a query result promises its readers: pages that hold the rows of the  *)
(* cursor in order, each row once and each page numbered by its first row.    *)
(* The page that holds the last row is published together with the fact that  *)
(* it is the last, so a reader that has seen it knows the exact count; only a *)
(* result without rows completes on its own.  A page, once published, stays   *)
(* what it is until the result is released as a whole.                        *)
(***************************************************************************)
EXTENDS Naturals, Sequences

VARIABLES
    source,          \* the rows of the cursor
    published,       \* the pages a reader can ask for
    complete,
    released

vars == <<source, published, complete, released>>

\* Where the next page starts.
Loaded == IF published = << >> THEN 0
          ELSE LET p == published[Len(published)] IN p.start + Len(p.rows)

Init == published = << >> /\ complete = FALSE /\ released = FALSE

Publish ==
    /\ ~released /\ ~complete
    /\ \E n \in 1..(Len(source) - Loaded) :
          LET rows == SubSeq(source, Loaded + 1, Loaded + n)
          IN  published' = Append(published, [start |-> Loaded, rows |-> rows])
    /\ complete' = (Loaded' = Len(source))
    /\ UNCHANGED <<source, released>>

CompleteEmpty ==
    /\ ~released /\ published = << >> /\ source = << >>
    /\ complete' = TRUE
    /\ UNCHANGED <<source, published, released>>

Release == released' = TRUE /\ published' = << >> /\ UNCHANGED <<source, complete>>

Next == Publish \/ CompleteEmpty \/ Release

Spec == Init /\ [][Next]_vars
=============================================================================
