------------------------------- MODULE PageStore -------------------------------
(***************************************************************************)
(* The pages of one query result: QueryPageStore over its OPFS directory, with *)
(* the bounded cache of decoded pages.  A page is [start, rows], and a row is  *)
(* one byte, so a page's ipcBytes is Len(rows).  Page indexes start at 1.      *)
(*                                                                         *)
(* The owner writes pages through the operators below; readers call get and   *)
(* materialize at any time.  An operation that needs the file waits for OPFS, *)
(* which may fail it; the others are over at once.                            *)
(***************************************************************************)
EXTENDS Integers, Sequences, FiniteSets

CONSTANTS
    Readers,      \* concurrent get and materialize calls
    MemoryLimit   \* memoryLimitBytes

\* Of the constants; assumed by the module that instantiates this one.
StoreAssumption == IsFiniteSet(Readers) /\ MemoryLimit \in Nat

VARIABLES
    persistent,   \* whether the store has a persistence (OPFS)
    pages,        \* metadata of the stored pages, with their rows
    decoded,      \* the cache: per page index, its rows
    usedBefore,   \* its order, least recently used first: <<i, j>> when i is before j
    decodedBytes, storedBytes,
    pinned,
    pending,      \* the page whose failed write can be retried, or NoPage
    storeComplete,
    disposal,     \* "no", "waiting" for the operations in flight, "removing", "done"
    files,        \* OPFS: the rows in each page file
    reading       \* per reader: the files its get or materialize waits for

pageVars == <<persistent, pages, decoded, usedBefore, decodedBytes, storedBytes, pinned,
               pending, storeComplete, disposal, files, reading>>

NoPage == [start |-> 0, rows |-> << >>]

StoreInit ==
    /\ persistent \in BOOLEAN
    /\ pages = << >> /\ decoded = << >> /\ usedBefore = {}
    /\ decodedBytes = 0 /\ storedBytes = 0
    /\ pinned = {} /\ pending = NoPage /\ storeComplete = FALSE
    /\ disposal = "no" /\ files = << >>
    /\ reading = [r \in Readers |-> {}]

Size(page) == Len(page.rows)
With(f, i, v) == [j \in DOMAIN f \cup {i} |-> IF j = i THEN v ELSE f[j]]

-----------------------------------------------------------------------------
(* The cache.                                                              *)

\* The bytes of the pages `is` of a cache, counted one by one: a row is a byte.
BytesOf(cache, is) == Cardinality(UNION {{i} \X (1..Len(cache[i])) : i \in is})
Cached(i) == i \in DOMAIN decoded

\* evictDecodedPages: a page that is not pinned goes if the cache is still too
\* large without those used before it.
Evicted(cache, order, pins, bytes) ==
    LET unpinned == DOMAIN cache \ pins
    IN  {i \in unpinned :
           bytes - BytesOf(cache, {j \in unpinned : <<j, i>> \in order}) > MemoryLimit}

Keeps(cache, order, kept) ==
    /\ decoded' = [i \in kept |-> cache[i]]
    /\ usedBefore' = order \cap (kept \X kept)

SettleCache(cache, order, pins, bytes) ==
    \E gone \in {Evicted(cache, order, pins, bytes)} :
        /\ Keeps(cache, order, DOMAIN cache \ gone)
        /\ decodedBytes' = bytes - BytesOf(cache, gone)

\* The cached pages `is` are deleted and set again, one after the other, which
\* moves them to the end.
MovedLast(is) ==
    LET others == DOMAIN decoded \ is
    IN  (usedBefore \cap (others \X others)) \cup (others \X is)
          \cup {p \in is \X is : p[1] < p[2]}

\* A bug to be caught: a page read twice is counted twice.
CacheTwice(i, rows) ==
    SettleCache(With(decoded, i, rows), MovedLast({i}), pinned, decodedBytes + Len(rows))

\* cache: a page already cached gives its bytes back first.
Cache(i, rows) ==
    SettleCache(With(decoded, i, rows), MovedLast({i}), pinned,
                decodedBytes - BytesOf(decoded, {i} \cap DOMAIN decoded) + Len(rows))

-----------------------------------------------------------------------------
(* Writing: put and retryPending.                                          *)

\* accept.
Accept(i, page) ==
    /\ pages' = With(pages, i, page)
    /\ storedBytes' = storedBytes + Size(page)
    /\ Cache(i, page.rows)

\* put refuses before it writes: RESULT_SPILL_UNSUPPORTED, and the checks of its
\* caller.
PutRefused(i, page) ==
    \/ pending # NoPage \/ i \in DOMAIN pages
    \/ ~persistent /\ storedBytes + Size(page) > MemoryLimit

\* Without a persistence a page is stored at once.
PutInMemory(i, page) ==
    /\ ~persistent /\ ~PutRefused(i, page)
    /\ Accept(i, page)
    /\ UNCHANGED <<pending, files>>

PutWritten(i, page) ==
    /\ files' = With(files, i, page.rows)
    /\ Accept(i, page)
    /\ UNCHANGED pending

\* A failed write leaves the file it has created, empty.  Only a quota failure
\* keeps the page for retryPending.
PutFails(i, page, quota) ==
    /\ files' = With(files, i, << >>)
    /\ pending' = IF quota THEN page ELSE pending
    /\ UNCHANGED <<pages, storedBytes, decoded, usedBefore, decodedBytes>>

RetryWritten(i) ==
    /\ files' = With(files, i, pending.rows)
    /\ Accept(i, pending)
    /\ pending' = NoPage

-----------------------------------------------------------------------------
(* Reading: get, materialize, pin.                                         *)

\* The call hits the cache where it can, which moves those pages to its end, and
\* starts reading the other files; it is refused where there are none.  Several
\* gets made at once, those of materialize, are made in the order of the pages.
Read(r, is) ==
    /\ reading[r] = {} /\ disposal = "no"
    /\ is # {} /\ is \subseteq DOMAIN pages
    /\ persistent \/ \A i \in is : Cached(i)
    /\ usedBefore' = MovedLast(is \cap DOMAIN decoded)
    /\ reading' = [reading EXCEPT ![r] = {i \in is : ~Cached(i)}]
    /\ UNCHANGED <<decoded, decodedBytes, storedBytes, persistent, pages, pinned, pending,
                   storeComplete, disposal, files>>

Get(r, i) == Read(r, {i})

\* materialize within its byte limit; beyond it, or before the result is complete,
\* it answers null.
Materialize(r) == storeComplete /\ Read(r, DOMAIN pages)

\* One file has been read, or could not be.  A store that is being disposed of
\* caches nothing more and fails the call.
FileRead(r, i) ==
    /\ i \in reading[r]
    /\ \/ disposal = "no" /\ i \in DOMAIN files /\ Cache(i, files[i])
       \/ UNCHANGED <<decoded, usedBefore, decodedBytes>>
    /\ reading' = [reading EXCEPT ![r] = @ \ {i}]
    /\ UNCHANGED <<storedBytes, persistent, pages, pinned, pending, storeComplete,
                   disposal, files>>

\* pin replaces the pinned set.
Pin(is) ==
    /\ disposal = "no"
    /\ pinned' = is
    /\ SettleCache(decoded, usedBefore, is, decodedBytes)
    /\ UNCHANGED <<storedBytes, persistent, pages, pending, storeComplete, disposal,
                   files, reading>>

-----------------------------------------------------------------------------
(* Disposal.                                                               *)

StoreDisposes == disposal = "no" /\ disposal' = "waiting"

\* Every operation in flight has settled.
InFlightSettled == \A r \in Readers : reading[r] = {}

StoreClears ==
    /\ disposal = "waiting" /\ InFlightSettled
    /\ disposal' = "removing"
    /\ pages' = << >> /\ decoded' = << >> /\ usedBefore' = {} /\ pinned' = {}
    /\ pending' = NoPage
    /\ decodedBytes' = 0 /\ storedBytes' = 0
    /\ UNCHANGED <<persistent, storeComplete, files, reading>>

\* The directory is removed, or cannot be.
StoreRemoves ==
    /\ disposal = "removing"
    /\ disposal' = "done"
    /\ files' \in {<< >>, files}
    /\ UNCHANGED <<persistent, pages, decoded, usedBefore, decodedBytes, storedBytes,
                   pinned, pending, storeComplete, reading>>

StoreDisposed == disposal = "done"
=============================================================================
