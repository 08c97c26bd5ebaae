-------------------------- MODULE QuerySession_proofs --------------------------
(***************************************************************************)
(* Proofs about QuerySession, for any number of rows, readers and demands, any *)
(* page size and any limit of the cache: the cache accounts for its bytes, no  *)
(* row is lost between two pages, close() releases everything, and the session *)
(* implements PagedResult.  The store's part is StoreInv, which every operation*)
(* of PageStore keeps; the session's is what it holds of the cursor's rows.    *)
(***************************************************************************)
EXTENDS QuerySession, FiniteSetTheorems, SequenceTheorems, TLAPS

-----------------------------------------------------------------------------
(* Bytes of cached pages.                                                  *)

LEMMA OneElement == \A i : IsFiniteSet({i}) /\ Cardinality({i}) = 1
  BY FS_Singleton, Zenon

LEMMA Interval == \A n \in Nat : IsFiniteSet(1..n) /\ Cardinality(1..n) = n
<1>. TAKE n \in Nat
<1>1. 1 \in Int /\ n \in Int
  OBVIOUS
<1>2. IsFiniteSet(1..n) /\ Cardinality(1..n) = IF 1 > n THEN 0 ELSE n-1+1
  BY <1>1, FS_Interval
<1>. QED BY <1>2

Cells(cache, is) == UNION {{i} \X (1..Len(cache[i])) : i \in is}

LEMMA CellsAreFinite ==
    ASSUME NEW cache, NEW is, IsFiniteSet(is), \A i \in is : Len(cache[i]) \in Nat
    PROVE  IsFiniteSet(Cells(cache, is)) /\ BytesOf(cache, is) \in Nat
<1>. DEFINE Of(i) == {i} \X (1..Len(cache[i]))
            All == {Of(i) : i \in is}
<1>1. IsFiniteSet(All)
  <2>. DEFINE f == [i \in is |-> Of(i)]
  <2>1. f \in Surjection(is, All)
    BY DEF Surjection
  <2>. QED BY <2>1, FS_Surjection
<1>2. \A T \in All : IsFiniteSet(T)
  <2>. SUFFICES ASSUME NEW i \in is PROVE IsFiniteSet(Of(i))
    OBVIOUS
  <2>1. IsFiniteSet({i}) /\ IsFiniteSet(1..Len(cache[i]))
    BY OneElement, Interval
  <2>. QED BY <2>1, FS_Product
<1>3. IsFiniteSet(UNION All)
  BY <1>1, <1>2, FS_UNION
<1>4. Cells(cache, is) = UNION All
  BY DEF Cells
<1>. QED BY <1>3, <1>4, FS_CardinalityType DEF BytesOf, Cells

LEMMA BytesOfOne ==
    ASSUME NEW cache, NEW i, Len(cache[i]) \in Nat
    PROVE  BytesOf(cache, {i}) = Len(cache[i])
<1>1. /\ IsFiniteSet({i}) /\ Cardinality({i}) = 1
      /\ IsFiniteSet(1..Len(cache[i])) /\ Cardinality(1..Len(cache[i])) = Len(cache[i])
  BY OneElement, Interval
<1>2. Cardinality({i} \X (1..Len(cache[i]))) = Cardinality({i}) * Cardinality(1..Len(cache[i]))
  BY <1>1, FS_Product
<1>3. UNION {{j} \X (1..Len(cache[j])) : j \in {i}} = {i} \X (1..Len(cache[i]))
  OBVIOUS
<1>4. BytesOf(cache, {i}) = Cardinality({i} \X (1..Len(cache[i])))
  BY <1>3, Zenon DEF BytesOf
<1>5. Cardinality({i}) * Cardinality(1..Len(cache[i])) = 1 * Len(cache[i])
  BY <1>1, Zenon
<1>. QED BY <1>2, <1>4, <1>5

LEMMA BytesOfNone == ASSUME NEW cache PROVE BytesOf(cache, {}) = 0
<1>1. UNION {{i} \X (1..Len(cache[i])) : i \in {}} = {}
  OBVIOUS
<1>. QED BY <1>1, FS_EmptySet DEF BytesOf

LEMMA BytesAddUp ==
    ASSUME NEW cache, NEW A, NEW B, IsFiniteSet(A), IsFiniteSet(B), A \cap B = {},
           \A i \in A \cup B : Len(cache[i]) \in Nat
    PROVE  BytesOf(cache, A \cup B) = BytesOf(cache, A) + BytesOf(cache, B)
<1>1. IsFiniteSet(Cells(cache, A)) /\ IsFiniteSet(Cells(cache, B))
  BY CellsAreFinite
<1>2. Cells(cache, A) \cap Cells(cache, B) = {}
  BY DEF Cells
<1>3. Cells(cache, A \cup B) = Cells(cache, A) \cup Cells(cache, B)
  BY DEF Cells
<1>4. Cardinality({}) = 0 /\ Cardinality(Cells(cache, A)) \in Nat /\ Cardinality(Cells(cache, B)) \in Nat
  BY <1>1, FS_EmptySet, FS_CardinalityType
<1>5. Cardinality(Cells(cache, A) \cup Cells(cache, B))
        = Cardinality(Cells(cache, A)) + Cardinality(Cells(cache, B))
            - Cardinality(Cells(cache, A) \cap Cells(cache, B))
  BY <1>1, FS_Union
<1>6. /\ Cardinality(Cells(cache, A) \cap Cells(cache, B)) = 0
      /\ Cardinality(Cells(cache, A \cup B)) = Cardinality(Cells(cache, A) \cup Cells(cache, B))
  BY <1>2, <1>3, <1>4, Zenon
<1>7. Cardinality(Cells(cache, A \cup B)) = Cardinality(Cells(cache, A)) + Cardinality(Cells(cache, B))
  BY <1>4, <1>5, <1>6
<1>. QED BY <1>7 DEF BytesOf, Cells

LEMMA BytesOfSame ==
    ASSUME NEW c, NEW d, NEW is, \A i \in is : c[i] = d[i]
    PROVE  BytesOf(c, is) = BytesOf(d, is)
<1>1. {{i} \X (1..Len(c[i])) : i \in is} = {{i} \X (1..Len(d[i])) : i \in is}
  OBVIOUS
<1>. QED BY <1>1 DEF BytesOf

LEMMA BytesOfMore ==
    ASSUME NEW cache, NEW A, NEW B, IsFiniteSet(B), A \subseteq B, \A i \in B : Len(cache[i]) \in Nat
    PROVE  /\ BytesOf(cache, A) \in Nat /\ BytesOf(cache, B) \in Nat
           /\ BytesOf(cache, A) <= BytesOf(cache, B)
           /\ BytesOf(cache, B \ A) = BytesOf(cache, B) - BytesOf(cache, A)
<1>1. IsFiniteSet(A) /\ IsFiniteSet(B \ A) /\ A \cap (B \ A) = {} /\ A \cup (B \ A) = B
  BY FS_Subset
<1>2. BytesOf(cache, A \cup (B \ A)) = BytesOf(cache, A) + BytesOf(cache, B \ A)
  BY <1>1, BytesAddUp
<1>3. BytesOf(cache, A) \in Nat /\ BytesOf(cache, B) \in Nat /\ BytesOf(cache, B \ A) \in Nat
  BY <1>1, CellsAreFinite
<1>4. BytesOf(cache, A \cup (B \ A)) = BytesOf(cache, B)
  BY <1>1, Zenon
<1>. QED BY <1>2, <1>3, <1>4

-----------------------------------------------------------------------------
(* The cache settles.                                                      *)

\* A strict order of a set.
Orders(order, S) ==
    /\ order \subseteq S \X S
    /\ \A i \in S : <<i, i>> \notin order
    /\ \A i, j, k \in S : <<i, j>> \in order /\ <<j, k>> \in order => <<i, k>> \in order

\* Some page of a set has none of the set before it.
LEMMA SomeIsOldest ==
    ASSUME NEW order, NEW S, IsFiniteSet(S), Orders(order, S), NEW K \in SUBSET S, K # {}
    PROVE  \E i \in K : \A j \in K : <<j, i>> \notin order
<1>. DEFINE Before(i) == {j \in S : <<j, i>> \in order}
            T == {Before(i) : i \in K}
            R == StrictSubsetOrdering(S)
<1>1. T \subseteq FiniteSubsetsOf(S) /\ T # {}
  <2>1. FiniteSubsetsOf(S) = SUBSET S
    BY FS_FiniteSubsetsOfFinite
  <2>2. T \subseteq SUBSET S
    OBVIOUS
  <2>3. PICK i \in K : TRUE
    OBVIOUS
  <2>4. Before(i) \in T
    OBVIOUS
  <2>. QED BY <2>1, <2>2, <2>4, Zenon
<1>2. IsWellFoundedOn(R, FiniteSubsetsOf(S))
  BY FS_StrictSubsetOrderingWellFounded
<1>3. PICK U \in T : \A V \in T : <<V, U>> \notin R
  BY <1>1, <1>2, WFMin, Zenon
<1>4. PICK i \in K : U = Before(i)
  BY <1>3
<1>5. ASSUME NEW j \in K, <<j, i>> \in order PROVE FALSE
  <2>1. Before(j) \subseteq Before(i) /\ j \in Before(i) /\ j \notin Before(j)
    BY <1>5 DEF Orders
  <2>2. Before(j) \in T
    OBVIOUS
  <2>. QED BY <1>3, <1>4, <2>1, <2>2 DEF StrictSubsetOrdering
<1>. QED BY <1>5

\* What a cache holds once it has settled: its bytes are counted, and only pinned pages
\* exceed the limit.
LEMMA CacheSettles ==
    ASSUME NEW cache, NEW order, NEW pins, NEW bytes, MemoryLimit \in Nat,
           IsFiniteSet(DOMAIN cache), \A i \in DOMAIN cache : Len(cache[i]) \in Nat,
           Orders(order, DOMAIN cache), bytes = BytesOf(cache, DOMAIN cache),
           SettleCache(cache, order, pins, bytes)
    PROVE  /\ DOMAIN decoded' \subseteq DOMAIN cache
           /\ \A i \in DOMAIN decoded' : decoded'[i] = cache[i]
           /\ Orders(usedBefore', DOMAIN decoded')
           /\ decodedBytes' = BytesOf(decoded', DOMAIN decoded')
           /\ decodedBytes' > MemoryLimit => DOMAIN decoded' \subseteq pins
           /\ bytes <= MemoryLimit => DOMAIN decoded' = DOMAIN cache
<1>. DEFINE D == DOMAIN cache
            gone == Evicted(cache, order, pins, bytes)
            kept == D \ gone
            older(i) == {j \in D \ pins : <<j, i>> \in order}
<1>1. /\ decoded' = [i \in kept |-> cache[i]] /\ usedBefore' = order \cap (kept \X kept)
      /\ decodedBytes' = bytes - BytesOf(cache, gone)
  BY DEF SettleCache, Keeps
<1>2. gone \subseteq D /\ \A i \in gone : i \notin pins
  BY DEF Evicted
<1>3. \A i \in D \ pins : i \in gone <=> bytes - BytesOf(cache, older(i)) > MemoryLimit
  BY DEF Evicted
<1>4. /\ BytesOf(cache, D) \in Nat /\ BytesOf(cache, gone) \in Nat
      /\ BytesOf(cache, D \ gone) = BytesOf(cache, D) - BytesOf(cache, gone)
  BY <1>2, BytesOfMore
<1>5. DOMAIN decoded' = kept /\ \A i \in kept : decoded'[i] = cache[i]
  BY <1>1
<1>6. Orders(usedBefore', kept)
  BY <1>1, <1>2 DEF Orders
<1>7. BytesOf(decoded', kept) = BytesOf(cache, kept)
  BY <1>5, BytesOfSame
<1>8. ASSUME decodedBytes' > MemoryLimit PROVE kept \subseteq pins
  <2>. DEFINE K == kept \ pins
  <2>1. SUFFICES ASSUME K # {} PROVE FALSE
    OBVIOUS
  <2>2. PICK i \in K : \A j \in K : <<j, i>> \notin order
    <3>1. K \in SUBSET D
      OBVIOUS
    <3>2. IsFiniteSet(D) /\ Orders(order, D)
      OBVIOUS
    <3>. HIDE DEF D, gone, kept, older, K
    <3>. QED BY <2>1, <3>1, <3>2, SomeIsOldest
  <2>3. older(i) \subseteq gone
    BY <2>2
  <2>4. BytesOf(cache, older(i)) <= BytesOf(cache, gone) /\ BytesOf(cache, older(i)) \in Nat
    <3>1. IsFiniteSet(gone) /\ \A j \in gone : Len(cache[j]) \in Nat
      BY <1>2, FS_Subset
    <3>. HIDE DEF gone, older
    <3>. QED BY <2>3, <3>1, BytesOfMore
  <2>5. i \in D \ pins /\ i \notin gone
    BY <2>2
  <2>6. ~(bytes - BytesOf(cache, older(i)) > MemoryLimit)
    BY <1>3, <2>5
  <2>. HIDE DEF gone, older
  <2>. QED BY <1>1, <1>4, <1>8, <2>4, <2>6
<1>9. ASSUME bytes <= MemoryLimit PROVE gone = {}
  <2>1. SUFFICES ASSUME NEW i \in gone PROVE FALSE
    OBVIOUS
  <2>2. i \in D \ pins /\ older(i) \subseteq D
    BY <1>2
  <2>3. BytesOf(cache, older(i)) \in Nat
    <3>. HIDE DEF gone, older
    <3>. QED BY <2>2, BytesOfMore
  <2>4. bytes - BytesOf(cache, older(i)) > MemoryLimit
    BY <1>3, <2>2
  <2>. HIDE DEF gone, older
  <2>. QED BY <1>4, <1>9, <2>3, <2>4
<1>10. decodedBytes' = BytesOf(decoded', kept)
  <2>. HIDE DEF gone
  <2>. QED BY <1>1, <1>4, <1>7
<1>. QED BY <1>5, <1>6, <1>8, <1>9, <1>10

LEMMA MovedLastOrders ==
    ASSUME Orders(usedBefore, DOMAIN decoded), NEW is \in SUBSET Nat
    PROVE  Orders(MovedLast(is), (DOMAIN decoded) \cup is)
<1>. DEFINE others == DOMAIN decoded \ is
            M == MovedLast(is)
            S == (DOMAIN decoded) \cup is
<1>1. \A i, j : <<i, j>> \in M <=> \/ i \in others /\ j \in others /\ <<i, j>> \in usedBefore
                                   \/ i \in others /\ j \in is
                                   \/ i \in is /\ j \in is /\ i < j
  BY DEF MovedLast
<1>2. M \subseteq S \X S
  BY DEF MovedLast
<1>. HIDE DEF M
<1>3. ASSUME NEW i \in S, <<i, i>> \in M PROVE FALSE
  <2>1. CASE i \in others
    BY <1>1, <1>3, <2>1 DEF Orders
  <2>2. CASE i \in is
    <3>1. i \in Nat /\ i < i
      BY <1>1, <1>3, <2>2
    <3>. QED BY <3>1
  <2>. QED BY <2>1, <2>2
<1>4. ASSUME NEW i, NEW j, NEW k, <<i, j>> \in M, <<j, k>> \in M PROVE <<i, k>> \in M
  <2>1. CASE k \in others
    <3>1. /\ i \in others /\ j \in others
          /\ <<i, j>> \in usedBefore /\ <<j, k>> \in usedBefore
      BY <1>1, <1>4, <2>1
    <3>2. <<i, k>> \in usedBefore
      BY <3>1, <2>1 DEF Orders
    <3>. QED BY <1>1, <2>1, <3>1, <3>2
  <2>2. CASE k \in is
    <3>1. CASE i \in others
      BY <1>1, <2>2, <3>1
    <3>2. CASE i \in is
      <4>1. j \in is /\ i < j /\ j < k
        BY <1>1, <1>4, <2>2, <3>2
      <4>2. i \in Nat /\ j \in Nat /\ k \in Nat
        BY <2>2, <3>2, <4>1
      <4>3. i < k
        BY <4>1, <4>2
      <4>. QED BY <1>1, <2>2, <3>2, <4>3
    <3>. QED BY <1>1, <1>4, <3>1, <3>2
  <2>. QED BY <1>1, <1>4, <2>1, <2>2
<1>5. M = MovedLast(is)
  BY DEF M
<1>. HIDE DEF S
<1>6. Orders(M, S)
  BY <1>2, <1>3, <1>4 DEF Orders
<1>. QED BY <1>5, <1>6 DEF S

-----------------------------------------------------------------------------
(* The invariant of the store.                                             *)

RowsOfPages == [i \in DOMAIN pages |-> pages[i].rows]

\* The cached pages are stored pages, counted and in an order of use.
CacheInv ==
    /\ DOMAIN decoded \subseteq DOMAIN pages
    /\ \A i \in DOMAIN decoded : decoded[i] = pages[i].rows
    /\ Orders(usedBefore, DOMAIN decoded)
    /\ decodedBytes = BytesOf(decoded, DOMAIN decoded)
    /\ decodedBytes > MemoryLimit => DOMAIN decoded \subseteq pinned

\* Every stored page can be read: from its file, or without OPFS from the cache.
FilesInv ==
    /\ persistent \in BOOLEAN
    /\ ~persistent => /\ DOMAIN decoded = DOMAIN pages /\ storedBytes <= MemoryLimit
                      /\ \A r \in Readers : reading[r] = {}
    /\ persistent => \A i \in DOMAIN pages : i \in DOMAIN files /\ files[i] = pages[i].rows

PagesInv ==
    /\ DOMAIN pages \subseteq 1..TotalRows
    /\ \A i \in DOMAIN pages : pages[i].rows \in Seq(1..TotalRows)
    /\ storedBytes = BytesOf(RowsOfPages, DOMAIN pages)
    /\ reading \in [Readers -> SUBSET DOMAIN pages]

DisposalInv ==
    /\ disposal \in {"no", "waiting", "removing", "done"}
    /\ disposal \in {"removing", "done"} =>
          /\ pages = << >> /\ decoded = << >> /\ decodedBytes = 0 /\ storedBytes = 0
          /\ pending = NoPage /\ pinned = {} /\ InFlightSettled

StoreInv == PagesInv /\ CacheInv /\ FilesInv /\ DisposalInv

LEMMA PagesAreFinite ==
    ASSUME TotalRows \in Nat, PagesInv, CacheInv
    PROVE  /\ IsFiniteSet(DOMAIN pages) /\ IsFiniteSet(DOMAIN decoded)
           /\ \A i \in DOMAIN pages : Len(pages[i].rows) \in Nat
           /\ \A i \in DOMAIN decoded : Len(decoded[i]) \in Nat
           /\ storedBytes \in Nat /\ decodedBytes \in Nat
<1>1. IsFiniteSet(1..TotalRows)
  BY Interval
<1>2. IsFiniteSet(DOMAIN pages) /\ IsFiniteSet(DOMAIN decoded)
  BY <1>1, FS_Subset DEF PagesInv, CacheInv
<1>3. \A i \in DOMAIN pages : Len(pages[i].rows) \in Nat
  BY DEF PagesInv
<1>4. \A i \in DOMAIN decoded : Len(decoded[i]) \in Nat
  BY <1>3 DEF CacheInv
<1>5. \A i \in DOMAIN pages : Len(RowsOfPages[i]) \in Nat
  BY <1>3 DEF RowsOfPages
<1>6. decodedBytes \in Nat
  BY <1>2, <1>4, CellsAreFinite DEF CacheInv
<1>7. storedBytes \in Nat
  BY <1>2, <1>5, CellsAreFinite DEF PagesInv
<1>. QED BY <1>2, <1>3, <1>4, <1>6, <1>7

\* The cached pages are no larger than the stored ones.
LEMMA CacheIsPart ==
    ASSUME TotalRows \in Nat, PagesInv, CacheInv
    PROVE  decodedBytes <= storedBytes
<1>. USE PagesAreFinite
<1>1. \A i \in DOMAIN pages : RowsOfPages[i] = pages[i].rows
  BY DEF RowsOfPages
<1>2. \A i \in DOMAIN pages : Len(RowsOfPages[i]) \in Nat
  BY <1>1
<1>3. \A i \in DOMAIN decoded : decoded[i] = RowsOfPages[i]
  BY <1>1 DEF CacheInv
<1>4. BytesOf(decoded, DOMAIN decoded) = BytesOf(RowsOfPages, DOMAIN decoded)
  BY <1>3, BytesOfSame
<1>5. BytesOf(RowsOfPages, DOMAIN decoded) <= BytesOf(RowsOfPages, DOMAIN pages)
  BY <1>2, BytesOfMore DEF CacheInv
<1>. QED BY <1>4, <1>5 DEF PagesInv, CacheInv

-----------------------------------------------------------------------------
(* The operations of the store keep StoreInv.                              *)

\* cache: the page is cached, unless it is evicted at once.
LEMMA PageIsCached ==
    ASSUME MemoryLimit \in Nat, TotalRows \in Nat, PagesInv, CacheInv,
           NEW i \in Nat, NEW rows, Len(rows) \in Nat, Cache(i, rows)
    PROVE  /\ DOMAIN decoded' \subseteq (DOMAIN decoded) \cup {i}
           /\ \A j \in DOMAIN decoded' : decoded'[j] = IF j = i THEN rows ELSE decoded[j]
           /\ Orders(usedBefore', DOMAIN decoded')
           /\ decodedBytes' = BytesOf(decoded', DOMAIN decoded')
           /\ decodedBytes' > MemoryLimit => DOMAIN decoded' \subseteq pinned
           /\ i \notin DOMAIN decoded /\ decodedBytes + Len(rows) <= MemoryLimit
                 => DOMAIN decoded' = (DOMAIN decoded) \cup {i}
<1>. DEFINE new == With(decoded, i, rows)
            old == {i} \cap DOMAIN decoded
            rest == DOMAIN decoded \ old
            bytes == decodedBytes - BytesOf(decoded, old) + Len(rows)
<1>1. /\ DOMAIN new = (DOMAIN decoded) \cup {i} /\ new[i] = rows
      /\ \A j \in DOMAIN decoded : j # i => new[j] = decoded[j]
  BY DEF With
<1>2. /\ IsFiniteSet(DOMAIN decoded) /\ IsFiniteSet(rest) /\ IsFiniteSet({i})
      /\ \A j \in DOMAIN decoded : Len(decoded[j]) \in Nat
  BY PagesAreFinite, FS_Subset, OneElement
<1>3. IsFiniteSet((DOMAIN decoded) \cup {i})
  BY <1>2, FS_Union
<1>4. \A j \in DOMAIN new : Len(new[j]) \in Nat
  BY <1>1, <1>2
<1>5. Orders(MovedLast({i}), DOMAIN new)
  <2>1. {i} \in SUBSET Nat
    OBVIOUS
  <2>. QED BY <1>1, <2>1, MovedLastOrders DEF CacheInv
<1>6. bytes = BytesOf(new, DOMAIN new)
  <2>1. BytesOf(decoded, rest) = BytesOf(decoded, DOMAIN decoded) - BytesOf(decoded, old)
    BY <1>2, BytesOfMore
  <2>2. BytesOf(new, rest) = BytesOf(decoded, rest)
    <3>1. \A j \in rest : new[j] = decoded[j]
      BY <1>1
    <3>. HIDE DEF rest, new
    <3>. QED BY <3>1, BytesOfSame
  <2>3. BytesOf(new, {i}) = Len(rows)
    BY <1>1, BytesOfOne
  <2>4. BytesOf(new, rest \cup {i}) = BytesOf(new, rest) + BytesOf(new, {i})
    <3>1. rest \cap {i} = {} /\ \A j \in rest \cup {i} : Len(new[j]) \in Nat
      BY <1>1, <1>4
    <3>. HIDE DEF rest, new
    <3>. QED BY <1>2, <3>1, BytesAddUp
  <2>5. rest \cup {i} = DOMAIN new
    BY <1>1
  <2>6. BytesOf(new, rest \cup {i}) = BytesOf(new, DOMAIN new)
    BY <2>5, Zenon
  <2>7. /\ BytesOf(decoded, DOMAIN decoded) \in Nat /\ BytesOf(decoded, old) \in Nat
        /\ decodedBytes = BytesOf(decoded, DOMAIN decoded)
    BY <1>2, BytesOfMore DEF CacheInv
  <2>. HIDE DEF new, rest, old
  <2>. QED BY <2>1, <2>2, <2>3, <2>4, <2>6, <2>7 DEF bytes
<1>7. SettleCache(new, MovedLast({i}), pinned, bytes)
  BY DEF Cache
<1>8. /\ DOMAIN decoded' \subseteq DOMAIN new
      /\ \A j \in DOMAIN decoded' : decoded'[j] = new[j]
      /\ Orders(usedBefore', DOMAIN decoded')
      /\ decodedBytes' = BytesOf(decoded', DOMAIN decoded')
      /\ decodedBytes' > MemoryLimit => DOMAIN decoded' \subseteq pinned
      /\ bytes <= MemoryLimit => DOMAIN decoded' = DOMAIN new
  <2>1. IsFiniteSet(DOMAIN new)
    BY <1>1, <1>3
  <2>. HIDE DEF new, bytes
  <2>. QED BY <1>4, <1>5, <1>6, <1>7, <2>1, CacheSettles
<1>9. ASSUME i \notin DOMAIN decoded PROVE bytes = decodedBytes + Len(rows)
  <2>1. old = {}
    BY <1>9
  <2>2. BytesOf(decoded, old) = 0
    BY <2>1, BytesOfNone
  <2>3. decodedBytes \in Nat
    BY PagesAreFinite
  <2>. QED BY <2>2, <2>3
<1>. HIDE DEF bytes, new
<1>. QED BY <1>1, <1>8, <1>9

\* accept, of a page that is not stored yet.
LEMMA AcceptKeeps ==
    ASSUME MemoryLimit \in Nat, TotalRows \in Nat, StoreInv, disposal = "no",
           NEW i \in 1..TotalRows, i \notin DOMAIN pages,
           NEW page, page.rows \in Seq(1..TotalRows), Accept(i, page),
           persistent => files' = With(files, i, page.rows),
           ~persistent => storedBytes + Size(page) <= MemoryLimit,
           UNCHANGED <<persistent, pinned, disposal, reading>>
    PROVE  StoreInv'
<1>. USE DEF StoreInv
<1>1. /\ DOMAIN pages' = (DOMAIN pages) \cup {i} /\ pages'[i] = page
      /\ \A j \in DOMAIN pages : pages'[j] = pages[j]
  BY DEF Accept, With
<1>2. /\ IsFiniteSet(DOMAIN pages) /\ IsFiniteSet({i}) /\ Len(page.rows) \in Nat
      /\ storedBytes \in Nat /\ decodedBytes \in Nat
  <2>1. Len(page.rows) \in Nat
    OBVIOUS
  <2>2. IsFiniteSet({i})
    BY OneElement
  <2>. QED BY <2>1, <2>2, PagesAreFinite
<1>3. /\ DOMAIN decoded' \subseteq (DOMAIN decoded) \cup {i}
      /\ \A j \in DOMAIN decoded' : decoded'[j] = IF j = i THEN page.rows ELSE decoded[j]
      /\ Orders(usedBefore', DOMAIN decoded')
      /\ decodedBytes' = BytesOf(decoded', DOMAIN decoded')
      /\ decodedBytes' > MemoryLimit => DOMAIN decoded' \subseteq pinned
      /\ i \notin DOMAIN decoded /\ decodedBytes + Len(page.rows) <= MemoryLimit
                 => DOMAIN decoded' = (DOMAIN decoded) \cup {i}
  <2>1. i \in Nat /\ Cache(i, page.rows)
    BY DEF Accept
  <2>. QED BY <1>2, <2>1, PageIsCached
<1>4. CacheInv'
  BY <1>1, <1>3 DEF CacheInv
<1>5. storedBytes' = BytesOf(RowsOfPages', DOMAIN pages')
  <2>1. /\ DOMAIN RowsOfPages' = (DOMAIN pages) \cup {i}
        /\ RowsOfPages'[i] = page.rows
        /\ \A j \in DOMAIN pages : RowsOfPages'[j] = RowsOfPages[j]
    BY <1>1 DEF RowsOfPages
  <2>2. \A j \in (DOMAIN pages) \cup {i} : Len(RowsOfPages'[j]) \in Nat
    BY <1>1, <1>2, PagesAreFinite DEF RowsOfPages
  <2>3. BytesOf(RowsOfPages', (DOMAIN pages) \cup {i})
          = BytesOf(RowsOfPages', DOMAIN pages) + BytesOf(RowsOfPages', {i})
    BY <1>2, <2>2, BytesAddUp
  <2>4. BytesOf(RowsOfPages', DOMAIN pages) = storedBytes
    BY <2>1, BytesOfSame DEF PagesInv
  <2>5. BytesOf(RowsOfPages', {i}) = Len(page.rows)
    BY <1>2, <2>1, BytesOfOne
  <2>6. storedBytes' = storedBytes + Len(page.rows)
    BY DEF Accept, Size
  <2>. QED BY <1>1, <2>3, <2>4, <2>5, <2>6
<1>6. PagesInv'
  <2>1. reading' \in [Readers -> SUBSET DOMAIN pages']
    BY <1>1 DEF PagesInv
  <2>2. \A j \in DOMAIN pages' : pages'[j].rows \in Seq(1..TotalRows)
    BY <1>1 DEF PagesInv
  <2>3. DOMAIN pages' \subseteq 1..TotalRows
    BY <1>1 DEF PagesInv
  <2>. QED BY <1>5, <2>1, <2>2, <2>3 DEF PagesInv
<1>7. FilesInv'
  <2>1. CASE persistent
    BY <1>1, <2>1 DEF FilesInv, With
  <2>2. CASE ~persistent
    <3>1. DOMAIN decoded = DOMAIN pages /\ decodedBytes <= storedBytes
      BY <2>2, CacheIsPart DEF FilesInv
    <3>2. storedBytes' = storedBytes + Len(page.rows) /\ storedBytes + Len(page.rows) <= MemoryLimit
      BY <2>2 DEF Accept, Size
    <3>3. decodedBytes + Len(page.rows) <= MemoryLimit
      BY <1>2, <3>1, <3>2
    <3>4. DOMAIN decoded' = DOMAIN pages'
      BY <1>1, <1>3, <3>1, <3>3
    <3>. QED BY <2>2, <3>2, <3>4 DEF FilesInv
  <2>. QED BY <2>1, <2>2
<1>8. DisposalInv'
  BY DEF DisposalInv
<1>. QED BY <1>4, <1>6, <1>7, <1>8

\* get and materialize, of pages the session has published.
LEMMA ReadKeeps ==
    ASSUME MemoryLimit \in Nat, TotalRows \in Nat, StoreInv, NEW r \in Readers, NEW is, Read(r, is)
    PROVE  StoreInv'
<1>. USE DEF StoreInv
<1>. DEFINE hit == is \cap DOMAIN decoded
<1>1. /\ is \subseteq DOMAIN pages
      /\ UNCHANGED <<decoded, decodedBytes, storedBytes, persistent, pages, pinned, pending,
                     disposal, files>>
      /\ usedBefore' = MovedLast(hit)
      /\ reading' = [reading EXCEPT ![r] = {i \in is : i \notin DOMAIN decoded}]
      /\ disposal = "no" /\ (persistent \/ \A i \in is : i \in DOMAIN decoded)
  BY DEF Read, Cached
<1>2. PagesInv'
  BY <1>1 DEF PagesInv, RowsOfPages
<1>3. CacheInv'
  <2>1. hit \in SUBSET Nat /\ (DOMAIN decoded) \cup hit = DOMAIN decoded
    <3>1. DOMAIN decoded \subseteq 1..TotalRows
      BY DEF PagesInv, CacheInv
    <3>. QED BY <3>1
  <2>2. Orders(MovedLast(hit), (DOMAIN decoded) \cup hit)
    BY <2>1, MovedLastOrders DEF CacheInv
  <2>3. Orders(MovedLast(hit), DOMAIN decoded)
    BY <2>1, <2>2, Zenon
  <2>. QED BY <1>1, <2>3 DEF CacheInv
<1>4. FilesInv'
  BY <1>1 DEF FilesInv, PagesInv
<1>5. DisposalInv'
  BY <1>1 DEF DisposalInv
<1>. QED BY <1>2, <1>3, <1>4, <1>5

\* A file has been read.
LEMMA FileReadKeeps ==
    ASSUME MemoryLimit \in Nat, TotalRows \in Nat, StoreInv,
           NEW r \in Readers, NEW i \in DOMAIN pages, FileRead(r, i)
    PROVE  StoreInv'
<1>. USE DEF StoreInv
<1>1. /\ i \in reading[r] /\ reading' = [reading EXCEPT ![r] = @ \ {i}]
      /\ UNCHANGED <<storedBytes, persistent, pages, pinned, pending, disposal, files>>
  BY DEF FileRead
<1>2. persistent /\ files[i] = pages[i].rows /\ i \in Nat /\ Len(pages[i].rows) \in Nat
  BY <1>1, PagesAreFinite DEF FilesInv, PagesInv
<1>3. PagesInv'
  BY <1>1 DEF PagesInv, RowsOfPages
<1>4. FilesInv'
  BY <1>1, <1>2 DEF FilesInv
<1>5. CacheInv' /\ DisposalInv'
  <2>1. CASE disposal = "no" /\ Cache(i, files[i])
    <3>1. /\ DOMAIN decoded' \subseteq (DOMAIN decoded) \cup {i}
          /\ \A j \in DOMAIN decoded' : decoded'[j] = IF j = i THEN files[i] ELSE decoded[j]
          /\ Orders(usedBefore', DOMAIN decoded')
          /\ decodedBytes' = BytesOf(decoded', DOMAIN decoded')
          /\ decodedBytes' > MemoryLimit => DOMAIN decoded' \subseteq pinned
      BY <1>2, <2>1, PageIsCached
    <3>. QED BY <1>1, <1>2, <2>1, <3>1 DEF CacheInv, DisposalInv
  <2>2. CASE UNCHANGED <<decoded, usedBefore, decodedBytes>>
    <3>1. InFlightSettled => InFlightSettled'
      BY <1>1 DEF InFlightSettled, PagesInv
    <3>. QED BY <1>1, <2>2, <3>1 DEF CacheInv, DisposalInv
  <2>. QED BY <2>1, <2>2 DEF FileRead
<1>. QED BY <1>3, <1>4, <1>5

LEMMA PinKeeps ==
    ASSUME MemoryLimit \in Nat, TotalRows \in Nat, StoreInv, NEW is, Pin(is)
    PROVE  StoreInv'
<1>. USE DEF StoreInv
<1>1. /\ SettleCache(decoded, usedBefore, is, decodedBytes) /\ pinned' = is /\ disposal = "no"
      /\ UNCHANGED <<storedBytes, persistent, pages, pending, disposal, files, reading>>
  BY DEF Pin
<1>2. /\ DOMAIN decoded' \subseteq DOMAIN decoded
      /\ \A i \in DOMAIN decoded' : decoded'[i] = decoded[i]
      /\ Orders(usedBefore', DOMAIN decoded')
      /\ decodedBytes' = BytesOf(decoded', DOMAIN decoded')
      /\ decodedBytes' > MemoryLimit => DOMAIN decoded' \subseteq is
      /\ decodedBytes <= MemoryLimit => DOMAIN decoded' = DOMAIN decoded
  <2>1. IsFiniteSet(DOMAIN decoded) /\ \A i \in DOMAIN decoded : Len(decoded[i]) \in Nat
    BY PagesAreFinite
  <2>. QED BY <1>1, <2>1, CacheSettles DEF CacheInv
<1>3. PagesInv'
  BY <1>1 DEF PagesInv, RowsOfPages
<1>4. CacheInv'
  BY <1>1, <1>2 DEF CacheInv
<1>5. FilesInv'
  <2>1. ~persistent => decodedBytes <= MemoryLimit
    BY CacheIsPart, PagesAreFinite DEF FilesInv
  <2>. QED BY <1>1, <1>2, <2>1 DEF FilesInv
<1>6. DisposalInv'
  BY <1>1 DEF DisposalInv
<1>. QED BY <1>3, <1>4, <1>5, <1>6

\* Nothing of the store but the file of a page that is not stored changes.
LEMMA FileIsLeft ==
    ASSUME StoreInv, NEW i, i \notin DOMAIN pages, NEW rows, files' = With(files, i, rows),
           disposal = "no",
           UNCHANGED <<persistent, pages, decoded, usedBefore, decodedBytes, storedBytes, pinned,
                       disposal, reading>>
    PROVE  StoreInv'
<1>1. \A j \in DOMAIN pages : j \in DOMAIN files => j \in DOMAIN files' /\ files'[j] = files[j]
  BY DEF With
<1>. QED BY <1>1 DEF StoreInv, PagesInv, CacheInv, FilesInv, DisposalInv, RowsOfPages

LEMMA StoreIsLeft ==
    ASSUME StoreInv,
           UNCHANGED <<persistent, pages, decoded, usedBefore, decodedBytes, storedBytes, pinned,
                       pending, files, disposal, reading>>
    PROVE  StoreInv'
<1>1. InFlightSettled' = InFlightSettled
  BY DEF InFlightSettled
<1>. QED BY <1>1 DEF StoreInv, PagesInv, CacheInv, FilesInv, DisposalInv, RowsOfPages

LEMMA DisposalKeeps ==
    ASSUME MemoryLimit \in Nat, StoreInv,
           \/ StoreClears \/ StoreRemoves
           \/ /\ StoreDisposes
              /\ UNCHANGED <<persistent, pages, decoded, usedBefore, decodedBytes, storedBytes, pinned,
                             pending, files, reading>>
    PROVE  StoreInv'
<1>. USE DEF StoreInv
<1>1. CASE StoreClears
  <2>1. /\ pages' = << >> /\ decoded' = << >> /\ usedBefore' = {} /\ pinned' = {}
        /\ decodedBytes' = 0 /\ storedBytes' = 0 /\ InFlightSettled /\ disposal' = "removing"
        /\ pending' = NoPage /\ UNCHANGED <<persistent, files, reading>>
    BY <1>1 DEF StoreClears
  <2>2. DOMAIN pages' = {} /\ DOMAIN decoded' = {} /\ DOMAIN RowsOfPages' = {}
    BY <2>1 DEF RowsOfPages
  <2>3. /\ BytesOf(RowsOfPages', DOMAIN pages') = 0 /\ BytesOf(decoded', DOMAIN decoded') = 0
        /\ Orders(usedBefore', DOMAIN decoded')
    BY <2>1, <2>2, BytesOfNone DEF Orders
  <2>4. \A r \in Readers : reading'[r] = {}
    BY <2>1 DEF InFlightSettled
  <2>5. reading' \in [Readers -> SUBSET DOMAIN pages']
    BY <2>1, <2>4 DEF PagesInv
  <2>6. PagesInv' /\ CacheInv'
    BY <2>1, <2>2, <2>3, <2>5 DEF PagesInv, CacheInv
  <2>7. FilesInv'
    BY <2>1, <2>2, <2>4 DEF FilesInv
  <2>8. DisposalInv'
    BY <2>1, <2>4 DEF DisposalInv, InFlightSettled
  <2>. QED BY <2>6, <2>7, <2>8
<1>2. CASE StoreRemoves
  <2>1. /\ disposal = "removing" /\ disposal' = "done"
        /\ UNCHANGED <<persistent, pages, decoded, usedBefore, decodedBytes, storedBytes,
                       pinned, pending, storeComplete, reading>>
    BY <1>2 DEF StoreRemoves
  <2>2. pages = << >> /\ DOMAIN pages = {}
    BY <2>1 DEF DisposalInv
  <2>3. InFlightSettled' = InFlightSettled
    BY <2>1 DEF InFlightSettled
  <2>. QED BY <2>1, <2>2, <2>3 DEF PagesInv, CacheInv, FilesInv, DisposalInv, RowsOfPages
<1>3. CASE /\ StoreDisposes
           /\ UNCHANGED <<persistent, pages, decoded, usedBefore, decodedBytes, storedBytes, pinned,
                          pending, files, reading>>
  BY <1>3 DEF StoreDisposes, PagesInv, CacheInv, FilesInv, DisposalInv, RowsOfPages
<1>. QED BY <1>1, <1>2, <1>3

-----------------------------------------------------------------------------
(* The invariant of the session.                                           *)

\* QueryTypeOK, without what the other parts say of the store.
CursorTypes ==
    /\ total \in 0..TotalRows /\ pulled \in 0..total /\ ended \in BOOLEAN
    /\ cancelSignal \in {"none", "sent", "settled"}
    /\ readerReturn \in {"none", "sent", "settled"}

PublicTypes ==
    /\ storeComplete \in BOOLEAN /\ DOMAIN files \subseteq 1..TotalRows /\ pinned \subseteq 1..TotalRows
    /\ demandState \in {"open", "retry", "terminal", "closing", "closed"}
    /\ summaries \in Seq([start : 0..TotalRows, count : 1..TotalRows])
    /\ loadedRows \in 0..TotalRows /\ complete \in BOOLEAN /\ pendingEof \in BOOLEAN
    /\ closing \in {"no", "signal", "tail", "return", "store", "done"}
    /\ asked \in 0..MaxPageDemands

FetchTypes ==
    /\ remainder \in Seq(1..TotalRows) /\ taken \in Seq(1..TotalRows) /\ Len(taken) <= MaxTarget
    /\ demands \in Seq(PageCalls)
    /\ at \in {"idle", "next", "probe", "convert", "write", "stored", "rewrite", "restored",
               "cancelling", "returning"}
    /\ eof \in BOOLEAN

SessionTypes == CursorTypes /\ PublicTypes /\ FetchTypes

Fetching == at \in {"next", "probe", "convert", "write", "stored"}
Retrying == at \in {"rewrite", "restored"}
Ending   == at \in {"cancelling", "returning"}

\* The state a call of the chain may be in.
CallInv ==
    /\ at # "idle" => demands # << >> /\ ~complete
    /\ Fetching \/ Ending => Head(demands).op = "fetch"
    /\ Fetching => demandState \in {"open", "closing"} /\ readerReturn = "none" /\ pending = NoPage
    /\ Retrying => demandState \in {"retry", "closing"}
    /\ Ending => demandState \in {"terminal", "closing"}
    /\ at = "write" => persistent
    /\ at = "rewrite" => pending # NoPage
    /\ at = "restored" => pending = NoPage
    /\ at \in {"next", "probe"} => ~ended

\* What the state of the session says of the cursor and of the page to be retried.
StateInv ==
    /\ demandState \in {"open", "retry"} => readerReturn = "none"
    /\ demandState = "retry" => ~complete /\ (pending # NoPage \/ at = "restored")
    /\ complete => demandState \in {"open", "closing", "closed"}
    /\ pending # NoPage => demandState \in {"retry", "closing", "closed"} /\ persistent
    /\ ended => \/ complete \/ demandState \in {"terminal", "closing", "closed"}
                \/ eof /\ at \in {"convert", "write", "stored"}
                \/ demandState = "retry" /\ pendingEof

\* How far close() is.
CloseInv ==
    /\ closing = "no" <=> demandState \in {"open", "retry", "terminal"}
    /\ closing = "done" <=> demandState = "closed"
    /\ closing \in {"tail", "return", "store", "done"} => cancelSignal = "settled"
    /\ closing \in {"return", "store", "done"} => at = "idle" /\ readerReturn # "none"
    /\ closing \in {"store", "done"} => readerReturn = "settled"
    /\ closing \in {"no", "signal", "tail", "return"} <=> disposal = "no"
    /\ closing = "done" => disposal = "done"

\* The rows of the cursor from `from` on.
IsRun(rows, from) == rows \in Seq(1..TotalRows) /\ \A k \in 1..Len(rows) : rows[k] = from + k

\* A page that holds what was pulled and is neither published nor left over.
Fits(page) ==
    /\ page.start = loadedRows /\ page.rows # << >> /\ IsRun(page.rows, loadedRows)
    /\ pulled = loadedRows + Len(page.rows) + Len(remainder)

\* Where the rows pulled are.
RowsInv ==
    /\ IsRun(taken, loadedRows) /\ IsRun(remainder, pulled - Len(remainder))
    /\ loadedRows + Len(remainder) <= pulled
    /\ Fetching => pulled = loadedRows + Len(taken) + Len(remainder)
    /\ demandState = "open" /\ at = "idle" => pulled = loadedRows + Len(remainder)
    /\ pending # NoPage => Fits(pending)
    /\ at \in {"idle", "rewrite", "restored"} => taken = << >>
    /\ at \in {"next", "probe"} => remainder = << >>
    /\ at \in {"probe", "write", "stored"} => taken # << >>

\* The end is known when the page that ends the result is made, and rows are left over
\* for every page but that one.
EndInv ==
    /\ eof => at \in {"convert", "write", "stored", "cancelling", "returning"} /\ pulled = total
    /\ at \in {"convert", "write", "stored"} => (eof <=> remainder = << >>)
    /\ demandState = "retry" => (pendingEof <=> remainder = << >>) /\ (pendingEof => pulled = total)
    /\ at = "convert" /\ taken = << >> => eof
    /\ summaries # << >> =>
          /\ demandState = "open" /\ at = "idle" /\ ~complete => remainder # << >>
          /\ at \in {"next", "convert"} => taken # << >>

\* The published pages are the first ones stored; one more may be stored.
PublishedInv ==
    /\ loadedRows = IF summaries = << >> THEN 0
                    ELSE summaries[Len(summaries)].start + summaries[Len(summaries)].count
    /\ Len(summaries) <= loadedRows
    /\ ~Released => 1..Len(summaries) \subseteq DOMAIN pages
    /\ DOMAIN pages \subseteq 1..NextIndex
    /\ ~Released => \A i \in 1..Len(summaries) : Size(pages[i]) = summaries[i].count
    /\ NextIndex \in DOMAIN pages =>
          /\ Fits(pages[NextIndex])
          /\ at \in {"stored", "restored"} \/ (at = "idle" /\ IsClosing)
          /\ storedBytes = loadedRows + Size(pages[NextIndex])
    /\ ~Released /\ NextIndex \notin DOMAIN pages => storedBytes = loadedRows
    /\ at \in {"stored", "restored"} => NextIndex \in DOMAIN pages
    /\ at = "stored" => pages[NextIndex].rows = taken

SessionInv ==
    /\ SessionTypes /\ CallInv /\ StateInv /\ CloseInv
    /\ RowsInv /\ EndInv /\ PublishedInv

\* A call is under way only while the store is open.
LEMMA StoreIsOpen == ASSUME SessionInv, at # "idle" PROVE disposal = "no"
<1>1. closing \in {"no", "signal", "tail"}
  BY DEF SessionInv, SessionTypes, CursorTypes, PublicTypes, FetchTypes, CloseInv
<1>. QED BY <1>1 DEF SessionInv, CloseInv

LEMMA PageFacts ==
    ASSUME QueryAssumption, SessionInv
    PROVE  /\ Fetching /\ taken # << >> => Fits(NextPage)
           /\ \A page : Fits(page) => /\ NextIndex \in 1..TotalRows
                                      /\ page.rows \in Seq(1..TotalRows)
                                      /\ Len(page.rows) \in Nat \ {0} /\ page # NoPage
<1>. USE DEF SessionInv
<1>1. Fetching /\ taken # << >> => Fits(NextPage)
  BY DEF RowsInv, Fits, NextPage
<1>2. ASSUME NEW page, Fits(page)
      PROVE  /\ NextIndex \in 1..TotalRows /\ page.rows \in Seq(1..TotalRows)
             /\ Len(page.rows) \in Nat \ {0} /\ page # NoPage
  <2>1. page.rows \in Seq(1..TotalRows) /\ page.rows # << >>
    BY <1>2 DEF Fits, IsRun
  <2>2. Len(page.rows) \in Nat \ {0}
    BY <2>1, EmptySeq
  <2>3. /\ pulled = loadedRows + Len(page.rows) + Len(remainder) /\ Len(summaries) <= loadedRows
        /\ pulled \in 0..total /\ total \in 0..TotalRows /\ loadedRows \in Nat /\ Len(remainder) \in Nat
        /\ Len(summaries) \in Nat /\ TotalRows \in Nat
    BY <1>2 DEF Fits, PublishedInv, SessionTypes, CursorTypes, PublicTypes, FetchTypes, QueryAssumption
  <2>4. Len(summaries) + 1 \in 1..TotalRows
    BY <2>2, <2>3
  <2>5. page # NoPage
    BY <2>1 DEF NoPage
  <2>. QED BY <2>1, <2>2, <2>4, <2>5 DEF NextIndex
<1>. QED BY <1>1, <1>2

-----------------------------------------------------------------------------
(* Every step keeps the store's invariant.                                 *)

LEMMA StoreHolds ==
    ASSUME StoreAssumption, QueryAssumption, StoreInv, SessionInv, [QueryNext]_queryVars
    PROVE  StoreInv'
<1>. USE DEF SessionInv
<1>1. MemoryLimit \in Nat /\ TotalRows \in Nat
  BY DEF StoreAssumption, QueryAssumption
<1>2. CASE ReadPages
  <2>1. CASE \E r \in Readers, i \in DOMAIN summaries : Get(r, i)
    BY <1>1, <2>1, ReadKeeps DEF Get
  <2>2. CASE \E r \in Readers : Materialize(r)
    BY <1>1, <2>2, ReadKeeps DEF Materialize
  <2>3. CASE \E is \in SUBSET DOMAIN summaries : Pin(is)
    BY <1>1, <2>3, PinKeeps
  <2>. QED BY <1>2, <2>1, <2>2, <2>3 DEF ReadPages
<1>3. CASE FilesRead
  BY <1>1, <1>3, FileReadKeeps DEF FilesRead
<1>4. CASE StoreStep
  BY <1>1, <1>4, DisposalKeeps DEF StoreStep
<1>5. CASE CloseDisposesStore
  BY <1>1, <1>5, DisposalKeeps DEF CloseDisposesStore
<1>6. CASE Converted
  <2>1. CASE PutInMemory(NextIndex, NextPage) /\ taken # << >> /\ ~IsClosing
    <3>1. /\ disposal = "no" /\ Fits(NextPage)
          /\ UNCHANGED <<persistent, pinned, disposal, reading>>
      <4>1. at = "convert" /\ Fetching /\ UNCHANGED <<persistent, pinned, disposal, reading>>
        BY <1>6 DEF Converted, Fetching
      <4>. QED BY <2>1, <4>1, StoreIsOpen, PageFacts
    <3>2. NextIndex \in 1..TotalRows /\ NextPage.rows \in Seq(1..TotalRows)
      BY <3>1, PageFacts
    <3>3. /\ ~persistent /\ NextIndex \notin DOMAIN pages /\ Accept(NextIndex, NextPage)
          /\ ~(storedBytes + Size(NextPage) > MemoryLimit)
      BY <2>1 DEF PutInMemory, PutRefused
    <3>4. storedBytes + Size(NextPage) <= MemoryLimit
      <4>1. storedBytes \in Nat /\ Size(NextPage) \in Nat
        BY <1>1, <3>2, PagesAreFinite DEF StoreInv, Size
      <4>. QED BY <1>1, <3>3, <4>1
    <3>. QED BY <1>1, <3>1, <3>2, <3>3, <3>4, AcceptKeeps
  <2>2. CASE UNCHANGED <<persistent, pages, decoded, usedBefore, decodedBytes, storedBytes, pinned,
                         pending, files, disposal, reading>>
    BY <2>2, StoreIsLeft
  <2>. QED BY <1>6, <2>1, <2>2 DEF Converted, pageVars
<1>7. CASE PageWritten
  <2>1. /\ disposal = "no" /\ Fits(NextPage) /\ persistent /\ NextIndex \notin DOMAIN pages
        /\ UNCHANGED <<persistent, pinned, disposal, reading>>
    <3>1. at = "write" /\ Fetching /\ UNCHANGED <<persistent, pinned, disposal, reading>>
      BY <1>7 DEF PageWritten, Fetching
    <3>2. taken # << >> /\ persistent /\ disposal = "no"
      BY <3>1, StoreIsOpen DEF RowsInv, CallInv
    <3>3. NextIndex \notin DOMAIN pages
      BY <3>1 DEF PublishedInv
    <3>. QED BY <3>1, <3>2, <3>3, PageFacts
  <2>2. NextIndex \in 1..TotalRows /\ NextPage.rows \in Seq(1..TotalRows)
    BY <2>1, PageFacts
  <2>3. CASE PutWritten(NextIndex, NextPage)
    BY <1>1, <2>1, <2>2, <2>3, AcceptKeeps DEF PutWritten
  <2>4. CASE \E quota \in BOOLEAN : PutFails(NextIndex, NextPage, quota)
    BY <2>1, <2>4, FileIsLeft DEF PutFails
  <2>. QED BY <1>7, <2>3, <2>4 DEF PageWritten
<1>8. CASE PageRewritten
  <2>1. /\ disposal = "no" /\ Fits(pending) /\ persistent /\ NextIndex \notin DOMAIN pages
        /\ UNCHANGED <<persistent, pinned, disposal, reading>>
    <3>1. at = "rewrite" /\ UNCHANGED <<persistent, pinned, disposal, reading>>
      BY <1>8 DEF PageRewritten
    <3>2. pending # NoPage /\ disposal = "no"
      BY <3>1, StoreIsOpen DEF CallInv
    <3>3. NextIndex \notin DOMAIN pages
      BY <3>1 DEF PublishedInv
    <3>. QED BY <3>1, <3>2, <3>3 DEF StateInv, RowsInv
  <2>2. NextIndex \in 1..TotalRows /\ pending.rows \in Seq(1..TotalRows)
    BY <2>1, PageFacts
  <2>3. CASE RetryWritten(NextIndex)
    BY <1>1, <2>1, <2>2, <2>3, AcceptKeeps DEF RetryWritten
  <2>4. CASE /\ files' = With(files, NextIndex, << >>)
             /\ UNCHANGED <<pages, storedBytes, decoded, usedBefore, decodedBytes, pending>>
    BY <2>1, <2>4, FileIsLeft
  <2>. QED BY <1>8, <2>3, <2>4 DEF PageRewritten
<1>9. CASE UNCHANGED <<persistent, pages, decoded, usedBefore, decodedBytes, storedBytes, pinned,
                       pending, files, disposal, reading>>
  BY <1>9, StoreIsLeft
<1>10. CASE \/ DemandPage \/ Pulled \/ CloseQuery \/ CursorAnswers \/ Rest
            \/ CloseJoinsTail \/ CloseReturnsReader \/ Closed \/ UNCHANGED queryVars
  BY <1>9, <1>10 DEF DemandPage, Pulled, BatchPulled, EndPulled, PullFails, CloseQuery, CursorAnswers, CancelAnswers,
                     ReturnAnswers, Rest, CloseJoinsTail, CloseReturnsReader, Closed, pageVars, queryVars
<1>11. CASE \/ DemandRefused \/ FetchStarts \/ RetryStarts \/ ConversionFails \/ PageStored
            \/ PageRestored \/ CancelledTerminal \/ ReturnedTerminal
  BY <1>9, <1>11 DEF DemandRefused, FetchStarts, RetryStarts, ConversionFails, PageStored, PageRestored,
                     CancelledTerminal, ReturnedTerminal, pageVars
<1>. QED BY <1>2, <1>3, <1>4, <1>5, <1>6, <1>7, <1>8, <1>10, <1>11 DEF QueryNext, PageDemandStep, CloseQueryStep

-----------------------------------------------------------------------------
(* Every step keeps the session's invariant.                               *)

\* Steps that change only what readers see of the store: its cache, and its disposal.
LEMMA ReadsKeepSession ==
    ASSUME QueryAssumption, StoreInv, SessionInv, ReadPages \/ FilesRead \/ StoreStep
    PROVE  SessionInv'
<1>. USE DEF SessionInv
<1>1. othersUnchanged
  BY DEF ReadPages, FilesRead, StoreStep
<1>. USE DEF othersUnchanged, cursorVars, signalVars, pagingVars, publicVars, fetchVars
<1>2. CASE ReadPages \/ FilesRead
  <2>1. /\ UNCHANGED <<persistent, pages, storedBytes, pending, storeComplete, disposal, files>>
        /\ pinned' \subseteq 1..TotalRows
    <3>1. DOMAIN summaries \subseteq 1..TotalRows
      <4>1. DOMAIN summaries = 1..Len(summaries) /\ Len(summaries) \in Nat
        BY DEF SessionTypes, CursorTypes, PublicTypes, FetchTypes
      <4>2. Len(summaries) <= TotalRows /\ TotalRows \in Nat
        BY <4>1 DEF PublishedInv, SessionTypes, CursorTypes, PublicTypes, FetchTypes, QueryAssumption
      <4>. QED BY <4>1, <4>2
    <3>. QED BY <1>2, <3>1 DEF ReadPages, FilesRead, FileRead, Get, Materialize, Read, Pin, SessionTypes, CursorTypes, PublicTypes, FetchTypes
  <2>2. SessionTypes'
    BY <1>1, <2>1 DEF SessionTypes, CursorTypes, PublicTypes, FetchTypes
  <2>3. CallInv' /\ StateInv' /\ CloseInv'
    BY <1>1, <2>1 DEF CallInv, StateInv, CloseInv, Fetching, Retrying, Ending
  <2>4. RowsInv' /\ EndInv'
    BY <1>1, <2>1 DEF RowsInv, EndInv, Fetching, Fits, IsRun
  <2>5. PublishedInv'
    BY <1>1, <2>1 DEF PublishedInv, Released, NextIndex, Fits, IsRun, IsClosing, Size
  <2>. QED BY <2>2, <2>3, <2>4, <2>5
<1>3. CASE StoreStep
  <2>1. /\ disposal \in {"waiting", "removing"} /\ disposal' \in {"removing", "done"}
        /\ disposal = "waiting" => pages' = << >> /\ pending' = NoPage /\ pinned' = {} /\ files' = files
        /\ disposal = "removing" =>
              /\ UNCHANGED <<pages, pending, pinned>> /\ files' \in {<< >>, files}
        /\ UNCHANGED <<persistent, storeComplete>>
    BY <1>3 DEF StoreStep, StoreClears, StoreRemoves
  <2>2. pages' = << >> /\ pending' = NoPage /\ pinned' = {}
    BY <2>1 DEF StoreInv, DisposalInv
  <2>3. closing = "store" /\ at = "idle" /\ demandState = "closing"
    BY <2>1 DEF CloseInv, SessionTypes, CursorTypes, PublicTypes, FetchTypes
  <2>4. SessionTypes'
    <3>1. DOMAIN files' \subseteq 1..TotalRows
      BY <2>1 DEF SessionTypes, CursorTypes, PublicTypes, FetchTypes
    <3>. QED BY <1>1, <2>1, <2>2, <3>1 DEF SessionTypes, CursorTypes, PublicTypes, FetchTypes
  <2>5. CallInv' /\ StateInv' /\ CloseInv'
    BY <1>1, <2>1, <2>2, <2>3 DEF CallInv, StateInv, CloseInv, Fetching, Retrying, Ending
  <2>6. RowsInv' /\ EndInv'
    BY <1>1, <2>2, <2>3 DEF RowsInv, EndInv, Fetching, Fits, IsRun
  <2>7. PublishedInv'
    <3>1. DOMAIN pages' = {} /\ Released' /\ NextIndex' \notin DOMAIN pages'
      BY <2>1, <2>2 DEF Released
    <3>. QED BY <1>1, <2>3, <3>1 DEF PublishedInv
  <2>. QED BY <2>4, <2>5, <2>6, <2>7
<1>. QED BY <1>2, <1>3

\* Steps that change how far close() is, or what its cursor answers.
LEMMA CloseKeepsSession ==
    ASSUME StoreInv, SessionInv, CloseQuery \/ CloseQueryStep \/ CursorAnswers
    PROVE  SessionInv'
<1>. USE DEF SessionInv
<1>1. /\ UNCHANGED <<persistent, pages, decoded, usedBefore, decodedBytes, storedBytes, pinned, pending,
                     storeComplete, files, reading, cursorVars, publicVars, pendingEof, remainder,
                     fetchVars, asked>>
      /\ demandState' \in {demandState, "closing", "closed"}
  BY DEF CloseQuery, CloseQueryStep, CursorAnswers, CloseJoinsTail, CloseReturnsReader, CloseDisposesStore, Closed,
         CancelAnswers, ReturnAnswers, pageVars, pagingVars, publicVars
<1>. USE DEF cursorVars, signalVars, pagingVars, publicVars, fetchVars
<1>2. SessionTypes'
  BY <1>1 DEF SessionTypes, CursorTypes, PublicTypes, FetchTypes, CloseQuery, CloseQueryStep, CursorAnswers, CloseJoinsTail, CloseReturnsReader, CloseDisposesStore,
         Closed, CancelAnswers, ReturnAnswers, Signals, Returns
<1>3. at # "idle" => readerReturn' = readerReturn \/ readerReturn # "none"
  BY DEF CloseQuery, CloseQueryStep, CursorAnswers, CloseJoinsTail, CloseReturnsReader, CloseDisposesStore, Closed,
         CancelAnswers, ReturnAnswers, TailSettled, CallInv
<1>4. demandState' = demandState \/ demandState' = "closing" \/ (demandState' = "closed" /\ at = "idle")
  BY <1>1 DEF CloseQuery, CloseQueryStep, CursorAnswers, CloseJoinsTail, CloseReturnsReader, CloseDisposesStore, Closed,
         CancelAnswers, ReturnAnswers, CloseInv
<1>5. CallInv'
  BY <1>1, <1>3, <1>4 DEF CallInv, Fetching, Retrying, Ending, SessionTypes, CursorTypes, PublicTypes, FetchTypes
<1>6. demandState' \in {"open", "retry"} => demandState' = demandState /\ readerReturn' = readerReturn
  BY <1>1, <1>4 DEF CloseQuery, CloseQueryStep, CursorAnswers, CloseJoinsTail, CloseReturnsReader, CloseDisposesStore, Closed,
         CancelAnswers, ReturnAnswers, CloseInv, StateInv, SessionTypes, CursorTypes, PublicTypes, FetchTypes
<1>7. StateInv'
  BY <1>1, <1>4, <1>6 DEF StateInv
<1>8. CloseInv'
  BY <1>1 DEF CloseInv, CloseQuery, CloseQueryStep, CursorAnswers, CloseJoinsTail, CloseReturnsReader, CloseDisposesStore, Closed,
         CancelAnswers, ReturnAnswers, Signals, Returns, StoreDisposes, StoreDisposed, SessionTypes, CursorTypes, PublicTypes, FetchTypes,
         TailSettled, CallInv, pageVars
<1>9. RowsInv' /\ EndInv'
  BY <1>1, <1>4 DEF RowsInv, EndInv, Fetching, Fits, IsRun
<1>10. PublishedInv'
  <2>1. /\ IsClosing => IsClosing'
        /\ Released => Released'
    BY <1>1 DEF IsClosing, Released, CloseQuery, CloseQueryStep, CursorAnswers, CloseJoinsTail, CloseReturnsReader,
         CloseDisposesStore, Closed, CancelAnswers, ReturnAnswers, StoreDisposes, CloseInv, pageVars
  <2>2. Released' => Released
    BY <1>1 DEF Released, CloseQuery, CloseQueryStep, CursorAnswers, CloseJoinsTail, CloseReturnsReader,
         CloseDisposesStore, Closed, CancelAnswers, ReturnAnswers, StoreDisposes, pageVars
  <2>. QED BY <1>1, <2>1, <2>2 DEF PublishedInv, NextIndex, Fits, IsRun, Size
<1>. QED BY <1>2, <1>5, <1>7, <1>8, <1>9, <1>10

\* What the end of a call leaves of the chain.
LEMMA SettledChain ==
    ASSUME SessionInv, at # "idle", Settles
    PROVE  demands' \in Seq(PageCalls) /\ at' = "idle" /\ taken' = << >> /\ eof' = FALSE
<1>1. demands \in Seq(PageCalls) /\ demands # << >>
  BY DEF SessionInv, SessionTypes, CursorTypes, PublicTypes, FetchTypes, CallInv
<1>. QED BY <1>1, HeadTailProperties DEF Settles

LEMMA DemandKeepsSession ==
    ASSUME QueryAssumption, SessionInv, DemandPage
    PROVE  SessionInv'
<1>. USE DEF SessionInv
<1>1. UNCHANGED <<pageVars, cursorVars, signalVars, pagingVars, at, taken, eof, closing>>
  BY DEF DemandPage
<1>. USE DEF pageVars, cursorVars, signalVars, pagingVars, publicVars
<1>2. PICK call \in PageCalls : demands' = Append(demands, call)
  BY DEF DemandPage, PageCalls
<1>3. /\ demands' \in Seq(PageCalls) /\ demands' # << >>
      /\ demands # << >> => Head(demands') = Head(demands)
  <2>1. demands \in Seq(PageCalls)
    BY DEF SessionTypes, CursorTypes, PublicTypes, FetchTypes
  <2>2. /\ Append(demands, call) \in Seq(PageCalls) /\ Len(Append(demands, call)) = Len(demands) + 1
        /\ \A k \in 1..Len(demands) : Append(demands, call)[k] = demands[k]
    BY <2>1, AppendProperties
  <2>3. demands # << >> => Len(demands) >= 1
    BY <2>1, EmptySeq
  <2>. QED BY <1>2, <2>1, <2>2, <2>3
<1>4. asked' \in 0..MaxPageDemands
  BY DEF DemandPage, SessionTypes, CursorTypes, PublicTypes, FetchTypes, QueryAssumption
<1>5. SessionTypes'
  BY <1>1, <1>3, <1>4 DEF SessionTypes, CursorTypes, PublicTypes, FetchTypes
<1>6. CallInv' /\ StateInv' /\ CloseInv'
  BY <1>1, <1>3 DEF CallInv, StateInv, CloseInv, Fetching, Retrying, Ending
<1>7. RowsInv' /\ EndInv' /\ PublishedInv'
  BY <1>1 DEF RowsInv, EndInv, PublishedInv, Fetching, Fits, IsRun, Released, NextIndex, IsClosing, Size
<1>. QED BY <1>5, <1>6, <1>7

\* A call that is refused, or whose cursor has been given back, settles.
LEMMA RefusalKeepsSession ==
    ASSUME QueryAssumption, SessionInv, DemandRefused \/ ReturnedTerminal
    PROVE  SessionInv'
<1>. USE DEF SessionInv
<1>1. /\ at \in {"idle", "returning"} /\ Settles /\ demands # << >>
      /\ UNCHANGED <<pageVars, cursorVars, signalVars, pagingVars, closing, asked>>
  BY DEF DemandRefused, ReturnedTerminal, CallInv
<1>2. demands' \in Seq(PageCalls) /\ at' = "idle" /\ taken' = << >> /\ eof' = FALSE
  BY <1>1, HeadTailProperties DEF Settles, SessionTypes, CursorTypes, PublicTypes, FetchTypes
<1>. USE DEF pageVars, cursorVars, signalVars, pagingVars, publicVars
<1>3. SessionTypes'
  <2>1. taken' \in Seq(1..TotalRows) /\ Len(taken') = 0
    BY <1>2
  <2>2. Len(taken') <= MaxTarget
    BY <2>1 DEF QueryAssumption
  <2>3. demands' \in Seq(PageCalls) /\ at' = "idle" /\ eof' = FALSE
    BY <1>2
  <2>4. CursorTypes' /\ PublicTypes'
    BY <1>1 DEF SessionTypes, CursorTypes, PublicTypes
  <2>5. FetchTypes'
    BY <1>1, <2>1, <2>2, <2>3 DEF SessionTypes, FetchTypes
  <2>. QED BY <2>4, <2>5 DEF SessionTypes
<1>4. CallInv' /\ StateInv' /\ CloseInv'
  BY <1>1, <1>2 DEF CallInv, StateInv, CloseInv, Fetching, Retrying, Ending, EndInv
<1>5. at = "returning" => demandState \in {"terminal", "closing"}
  BY DEF CallInv, Ending
<1>6. RowsInv'
  BY <1>1, <1>2, <1>5, EmptySeq DEF RowsInv, Fetching, Fits, IsRun
<1>7. EndInv'
  BY <1>1, <1>2, <1>5 DEF EndInv
<1>8. PublishedInv'
  BY <1>1, <1>2 DEF PublishedInv, Fits, IsRun, Released, NextIndex, IsClosing, Size
<1>. QED BY <1>3, <1>4, <1>6, <1>7, <1>8

\* A call that fails: it settles, for the caller to retry its page if the store has kept
\* it, or it ends the session.
LEMMA FailureKeepsSession ==
    ASSUME QueryAssumption, SessionInv, NEW cancel \in BOOLEAN, NEW kept \in BOOLEAN,
           at \in {"next", "probe", "convert", "write"}, PageFetchFails(cancel, kept, eof),
           kept => at = "write", pending' = IF kept THEN NextPage ELSE pending,
           DOMAIN files' \subseteq 1..TotalRows,
           UNCHANGED <<persistent, pages, storedBytes, pinned, storeComplete, disposal, cursorVars,
                       publicVars, remainder, closing, asked>>
    PROVE  SessionInv'
<1>. USE DEF SessionInv, cursorVars, signalVars, publicVars
<1>1. /\ at # "idle" /\ Fetching /\ demands # << >> /\ ~complete /\ Head(demands).op = "fetch"
      /\ demandState \in {"open", "closing"} /\ readerReturn = "none" /\ pending = NoPage
      /\ closing \notin {"return", "store", "done"} /\ disposal = "no"
  BY StoreIsOpen DEF CallInv, CloseInv, Fetching
<1>2. NextIndex \notin DOMAIN pages
  BY <1>1 DEF PublishedInv
<1>3. /\ at = "write" => taken # << >> /\ persistent
      /\ IsRun(taken, loadedRows) /\ pulled = loadedRows + Len(taken) + Len(remainder)
  BY <1>1 DEF RowsInv, CallInv
<1>4. kept => pending' = NextPage /\ Fits(NextPage)
  BY <1>3 DEF Fits, NextPage
<1>5. CASE Settles
  <2>1. demands' \in Seq(PageCalls) /\ at' = "idle" /\ taken' = << >> /\ eof' = FALSE
    BY <1>1, <1>5, SettledChain
  <2>2. /\ \/ demandState = "closing" /\ demandState' = demandState /\ pendingEof' = pendingEof
           \/ demandState = "open" /\ kept /\ demandState' = "retry" /\ pendingEof' = eof
        /\ UNCHANGED signalVars
    BY <1>1, <2>1 DEF PageFetchFails, IsClosing, Terminalizes, GoesTo
  <2>3. SessionTypes'
    <3>1. taken' \in Seq(1..TotalRows) /\ Len(taken') = 0
      BY <2>1
    <3>2. Len(taken') <= MaxTarget
      BY <3>1 DEF QueryAssumption
    <3>3. CursorTypes' /\ PublicTypes'
      BY <2>2 DEF SessionTypes, CursorTypes, PublicTypes, FetchTypes
    <3>4. FetchTypes'
      BY <2>1, <3>1, <3>2 DEF SessionTypes, FetchTypes
    <3>. QED BY <3>3, <3>4 DEF SessionTypes
  <2>4. kept => pending' # NoPage
    BY <1>4 DEF Fits, NoPage
  <2>5. CallInv' /\ CloseInv'
    BY <1>1, <2>1, <2>2 DEF CallInv, CloseInv, Fetching, Retrying, Ending
  <2>6. StateInv'
    BY <1>1, <1>3, <2>1, <2>2, <2>4 DEF StateInv, Fetching
  <2>7. RowsInv'
    <3>1. IsRun(taken', loadedRows') /\ IsRun(remainder', pulled' - Len(remainder'))
      BY <2>1 DEF RowsInv, IsRun
    <3>2. (pending # NoPage => Fits(pending))'
      BY <1>1, <1>4 DEF Fits, IsRun
    <3>3. demandState' # "open" /\ loadedRows' + Len(remainder') <= pulled'
      BY <2>2 DEF RowsInv
    <3>4. at' = "idle" /\ (at' \in {"idle", "rewrite", "restored"} => taken' = << >>)
      BY <2>1
    <3>. QED BY <3>1, <3>2, <3>3, <3>4 DEF RowsInv, Fetching
  <2>8. EndInv'
    BY <1>1, <1>3, <2>1, <2>2 DEF EndInv
  <2>9. PublishedInv'
    BY <1>1, <1>2, <2>1 DEF PublishedInv, Released, NextIndex, Size
  <2>. QED BY <2>3, <2>5, <2>6, <2>7, <2>8, <2>9
<1>6. CASE Terminalizes(cancel) /\ ~IsClosing /\ ~kept
  <2>1. /\ demandState = "open" /\ demandState' = "terminal" /\ closing = "no" /\ pending' = NoPage
        /\ at' \in {"cancelling", "returning"}
        /\ UNCHANGED <<demands, pendingEof, taken, eof>>
        /\ cancelSignal' \in {cancelSignal, "sent"} /\ readerReturn' \in {readerReturn, "sent"}
    BY <1>1, <1>6 DEF Terminalizes, IsClosing, GoesTo, Signals, Returns, CloseInv
  <2>2. SessionTypes'
    <3>1. CursorTypes' /\ PublicTypes'
      BY <2>1 DEF SessionTypes, CursorTypes, PublicTypes
    <3>2. FetchTypes'
      BY <2>1 DEF SessionTypes, FetchTypes
    <3>. QED BY <3>1, <3>2 DEF SessionTypes
  <2>3. CallInv' /\ StateInv' /\ CloseInv'
    BY <1>1, <2>1 DEF CallInv, StateInv, CloseInv, Fetching, Retrying, Ending
  <2>4. RowsInv'
    BY <1>1, <2>1 DEF RowsInv, Fetching, IsRun
  <2>5. EndInv'
    BY <1>1, <2>1 DEF EndInv
  <2>6. PublishedInv'
    BY <1>1, <1>2, <2>1 DEF PublishedInv, Released, NextIndex, Size
  <2>. QED BY <2>2, <2>3, <2>4, <2>5, <2>6
<1>. QED BY <1>5, <1>6 DEF PageFetchFails

LEMMA RetryKeepsSession ==
    ASSUME SessionInv, RetryStarts
    PROVE  SessionInv'
<1>. USE DEF SessionInv, pageVars, cursorVars, signalVars, pagingVars, publicVars
<1>1. /\ at = "idle" /\ at' = "rewrite" /\ demandState = "retry" /\ demands # << >>
      /\ UNCHANGED <<pageVars, cursorVars, signalVars, pagingVars, demands, taken, eof, closing, asked>>
  BY DEF RetryStarts, Refuses, GoesTo
<1>2. SessionTypes'
  BY <1>1 DEF SessionTypes, CursorTypes, PublicTypes, FetchTypes
<1>3. CallInv' /\ StateInv' /\ CloseInv'
  BY <1>1 DEF CallInv, StateInv, CloseInv, Fetching, Retrying, Ending
<1>4. RowsInv' /\ EndInv'
  BY <1>1 DEF RowsInv, EndInv, Fetching, Fits, IsRun
<1>5. PublishedInv'
  BY <1>1 DEF PublishedInv, Fits, IsRun, Released, NextIndex, IsClosing, Size
<1>. QED BY <1>2, <1>3, <1>4, <1>5

LEMMA ReturnKeepsSession ==
    ASSUME SessionInv, CancelledTerminal
    PROVE  SessionInv'
<1>. USE DEF SessionInv, pageVars, cursorVars, signalVars, pagingVars, publicVars
<1>1. /\ at = "cancelling" /\ at' = "returning" /\ readerReturn' \in {readerReturn, "sent"}
      /\ demandState \in {"terminal", "closing"} /\ disposal = "no"
      /\ UNCHANGED <<pageVars, cursorVars, cancelSignal, pagingVars, demands, taken, eof, closing, asked>>
  BY StoreIsOpen DEF CancelledTerminal, Returns, GoesTo, CallInv, Ending
<1>2. SessionTypes'
  BY <1>1 DEF SessionTypes, CursorTypes, PublicTypes, FetchTypes
<1>3. closing \notin {"return", "store", "done"}
  BY <1>1 DEF CloseInv
<1>4. CallInv' /\ StateInv' /\ CloseInv'
  BY <1>1, <1>3 DEF CallInv, StateInv, CloseInv, Fetching, Retrying, Ending
<1>5. RowsInv' /\ EndInv'
  BY <1>1 DEF RowsInv, EndInv, Fetching, Fits, IsRun
<1>6. PublishedInv'
  BY <1>1 DEF PublishedInv, Fits, IsRun, Released, NextIndex, IsClosing, Size
<1>. QED BY <1>2, <1>4, <1>5, <1>6

\* A closing session drops what its cursor answers.
LEMMA DroppedKeepsSession ==
    ASSUME QueryAssumption, SessionInv, at \in {"next", "probe"}, IsClosing, Settles,
           pulled' \in pulled..total, ended' \in BOOLEAN,
           UNCHANGED <<pageVars, total, signalVars, pagingVars, closing, asked>>
    PROVE  SessionInv'
<1>. USE DEF SessionInv, pageVars, signalVars, pagingVars, publicVars
<1>1. /\ at # "idle" /\ Fetching /\ disposal = "no" /\ demandState = "closing" /\ pending = NoPage
      /\ closing \notin {"return", "store", "done"}
  BY StoreIsOpen DEF Fetching, CallInv, IsClosing, CloseInv
<1>2. demands' \in Seq(PageCalls) /\ at' = "idle" /\ taken' = << >> /\ eof' = FALSE
  BY <1>1, SettledChain
<1>3. SessionTypes'
  <2>1. CursorTypes' /\ PublicTypes'
    BY DEF SessionTypes, CursorTypes, PublicTypes
  <2>2. taken' \in Seq(1..TotalRows) /\ Len(taken') = 0
    BY <1>2
  <2>3. Len(taken') <= MaxTarget
    BY <2>2 DEF QueryAssumption
  <2>4. FetchTypes'
    BY <1>2, <2>2, <2>3 DEF SessionTypes, FetchTypes
  <2>. QED BY <2>1, <2>4 DEF SessionTypes
<1>4. CallInv' /\ StateInv' /\ CloseInv'
  BY <1>1, <1>2 DEF CallInv, StateInv, CloseInv, Fetching, Retrying, Ending
<1>5. remainder = << >> /\ loadedRows <= pulled
  <2>1. remainder = << >> /\ loadedRows + Len(remainder) <= pulled /\ loadedRows \in Nat
    BY <1>1 DEF RowsInv, SessionTypes, PublicTypes
  <2>. QED BY <2>1
<1>6. RowsInv'
  <2>1. IsRun(taken, loadedRows)' /\ IsRun(remainder, pulled - Len(remainder))'
    BY <1>2, <1>5 DEF IsRun
  <2>2. loadedRows' + Len(remainder') <= pulled'
    BY <1>5 DEF SessionTypes, CursorTypes, PublicTypes
  <2>3. at' = "idle" /\ taken' = << >>
    BY <1>2
  <2>. QED BY <1>1, <2>1, <2>2, <2>3 DEF RowsInv, Fetching
<1>7. EndInv'
  BY <1>1, <1>2 DEF EndInv
<1>8. PublishedInv'
  BY <1>1, <1>2 DEF PublishedInv, Released, NextIndex, Size
<1>. QED BY <1>3, <1>4, <1>6, <1>7, <1>8

LEMMA EndKeepsSession ==
    ASSUME QueryAssumption, SessionInv, EndPulled
    PROVE  SessionInv'
<1>1. CASE IsClosing
  <2>1. /\ at \in {"next", "probe"} /\ Settles /\ pulled' \in pulled..total /\ ended' \in BOOLEAN
        /\ UNCHANGED <<pageVars, total, signalVars, pagingVars, closing, asked>>
    BY <1>1 DEF EndPulled, SessionInv, SessionTypes, CursorTypes
  <2>. QED BY <1>1, <2>1, DroppedKeepsSession
<1>2. CASE ~IsClosing
  <2>. USE DEF SessionInv, pageVars, signalVars, pagingVars, publicVars
  <2>1. /\ at \in {"next", "probe"} /\ pulled = total /\ ended' = TRUE /\ eof' = TRUE /\ at' = "convert"
        /\ UNCHANGED <<pageVars, total, pulled, signalVars, pagingVars, demands, taken, closing, asked>>
    BY <1>2 DEF EndPulled, GoesTo
  <2>2. Fetching /\ demandState = "open" /\ pending = NoPage /\ remainder = << >>
    BY <1>2, <2>1 DEF Fetching, CallInv, IsClosing, RowsInv
  <2>3. SessionTypes'
    BY <2>1 DEF SessionTypes, CursorTypes, PublicTypes, FetchTypes
  <2>4. CallInv' /\ StateInv' /\ CloseInv'
    BY <2>1, <2>2 DEF CallInv, StateInv, CloseInv, Fetching, Retrying, Ending
  <2>5. RowsInv'
    BY <2>1, <2>2 DEF RowsInv, Fetching, IsRun
  <2>6. EndInv'
    BY <2>1, <2>2 DEF EndInv, RowsInv
  <2>7. PublishedInv'
    BY <2>1, <2>2 DEF PublishedInv, Released, NextIndex, Size
  <2>. QED BY <2>3, <2>4, <2>5, <2>6, <2>7
<1>. QED BY <1>1, <1>2

\* Rows are cut at the target, and the order of the cursor is kept.
LEMMA CollectsCuts ==
    ASSUME QueryAssumption, NEW from \in Nat, NEW rows, IsRun(rows, from),
           Target \in 1..MaxTarget, Collects(rows)
    PROVE  /\ IsRun(taken', from) /\ Len(taken') <= MaxTarget
           /\ IsRun(remainder', from + Len(taken'))
           /\ Len(taken') + Len(remainder') = Len(rows)
           /\ at' \in {"next", "probe", "convert"} /\ demands' = demands
           /\ at' = "convert" <=> remainder' # << >>
           /\ at' # "next" \/ rows # << >> => taken' # << >>
<1>. DEFINE cut == IF Len(rows) < Target THEN Len(rows) ELSE Target
<1>1. /\ rows \in Seq(1..TotalRows) /\ Len(rows) \in Nat
      /\ \A k \in 1..Len(rows) : rows[k] = from + k /\ rows[k] \in 1..TotalRows
  <2>1. rows \in Seq(1..TotalRows) /\ \A k \in 1..Len(rows) : rows[k] = from + k
    BY DEF IsRun
  <2>2. Len(rows) \in Nat /\ rows \in [1..Len(rows) -> 1..TotalRows]
    BY <2>1, LenProperties
  <2>. QED BY <2>1, <2>2
<1>2. /\ MaxTarget \in Nat /\ Target \in Nat \ {0} /\ Target <= MaxTarget
      /\ cut \in 0..Len(rows) /\ cut <= MaxTarget
  BY <1>1 DEF QueryAssumption
<1>3. /\ taken' = SubSeq(rows, 1, cut) /\ remainder' = SubSeq(rows, Target + 1, Len(rows))
      /\ demands' = demands
      /\ at' = IF Len(rows) > Target THEN "convert" ELSE IF Len(rows) = Target THEN "probe" ELSE "next"
  BY DEF Collects, UpToTarget, GoesTo
<1>. HIDE DEF cut
<1>4. /\ taken' \in Seq(1..TotalRows) /\ Len(taken') = cut
      /\ \A k \in 1..cut : taken'[k] = from + k
  <2>1. \A k \in 1..cut : rows[k] \in 1..TotalRows
    BY <1>1, <1>2
  <2>2. /\ SubSeq(rows, 1, cut) \in Seq(1..TotalRows)
        /\ Len(SubSeq(rows, 1, cut)) = IF 1 <= cut THEN cut - 1 + 1 ELSE 0
        /\ \A k \in 1..(cut - 1 + 1) : SubSeq(rows, 1, cut)[k] = rows[1 + k - 1]
    BY <1>2, <2>1, SubSeqProperties
  <2>3. Len(taken') = cut
    BY <1>2, <1>3, <2>2
  <2>4. ASSUME NEW k \in 1..cut PROVE taken'[k] = from + k
    BY <1>1, <1>2, <1>3, <2>2
  <2>. QED BY <1>3, <2>2, <2>3, <2>4
<1>5. /\ remainder' \in Seq(1..TotalRows)
      /\ Len(remainder') = IF Target < Len(rows) THEN Len(rows) - Target ELSE 0
      /\ \A k \in 1..(Len(rows) - Target) : remainder'[k] = from + Target + k
  <2>1. \A k \in (Target + 1)..Len(rows) : rows[k] \in 1..TotalRows
    BY <1>1, <1>2
  <2>2. /\ SubSeq(rows, Target + 1, Len(rows)) \in Seq(1..TotalRows)
        /\ Len(SubSeq(rows, Target + 1, Len(rows)))
             = IF Target + 1 <= Len(rows) THEN Len(rows) - (Target + 1) + 1 ELSE 0
        /\ \A k \in 1..(Len(rows) - (Target + 1) + 1) :
               SubSeq(rows, Target + 1, Len(rows))[k] = rows[Target + 1 + k - 1]
    BY <1>1, <1>2, <2>1, SubSeqProperties
  <2>3. Len(remainder') = IF Target < Len(rows) THEN Len(rows) - Target ELSE 0
    BY <1>1, <1>2, <1>3, <2>2
  <2>4. ASSUME NEW k \in 1..(Len(rows) - Target) PROVE remainder'[k] = from + Target + k
    <3>1. k \in 1..(Len(rows) - (Target + 1) + 1) /\ Target + 1 + k - 1 = Target + k
          /\ Target + k \in 1..Len(rows)
      BY <1>1, <1>2
    <3>2. remainder'[k] = rows[Target + k]
      BY <1>3, <2>2, <3>1
    <3>3. rows[Target + k] = from + (Target + k)
      BY <1>1, <3>1
    <3>. QED BY <1>2, <3>2, <3>3
  <2>. QED BY <1>3, <2>2, <2>3, <2>4
<1>6. Len(taken') + Len(remainder') = Len(rows) /\ Len(taken') <= MaxTarget
  <2>1. /\ Len(taken') = cut
        /\ Len(remainder') = IF Target < Len(rows) THEN Len(rows) - Target ELSE 0
    BY <1>4, <1>5
  <2>2. CASE Len(rows) < Target
    BY <1>1, <1>2, <2>1, <2>2 DEF cut
  <2>3. CASE ~(Len(rows) < Target)
    BY <1>1, <1>2, <2>1, <2>3 DEF cut
  <2>. QED BY <2>2, <2>3
<1>7. IsRun(taken', from)
  BY <1>4 DEF IsRun
<1>8. IsRun(remainder', from + Len(taken'))
  <2>1. ASSUME NEW k \in 1..Len(remainder') PROVE remainder'[k] = from + Len(taken') + k
    <3>1. Target < Len(rows) /\ Len(taken') = Target /\ k \in 1..(Len(rows) - Target)
      BY <1>1, <1>2, <1>4, <1>5 DEF cut
    <3>. QED BY <1>5, <3>1
  <2>. QED BY <1>5, <2>1 DEF IsRun
<1>9. at' = "convert" <=> remainder' # << >>
  <2>1. remainder' # << >> <=> Len(remainder') # 0
    BY <1>5, EmptySeq
  <2>. QED BY <1>1, <1>2, <1>3, <1>5, <2>1
<1>10. at' # "next" \/ rows # << >> => taken' # << >>
  <2>1. (taken' # << >> <=> Len(taken') # 0) /\ (rows # << >> => Len(rows) # 0)
    BY <1>1, <1>4, EmptySeq
  <2>. QED BY <1>1, <1>2, <1>3, <1>4, <2>1 DEF cut
<1>. QED BY <1>3, <1>6, <1>7, <1>8, <1>9, <1>10

LEMMA CollectsKeepsSession ==
    ASSUME QueryAssumption, SessionInv, NEW rows, IsRun(rows, loadedRows), Collects(rows),
           at \in {"idle", "next"}, disposal = "no", demandState = "open", ~complete, ~ended, ~eof,
           demands # << >>, Head(demands).op = "fetch", summaries # << >> => rows # << >>,
           eof' = eof, pulled' \in 0..total, pulled' = loadedRows + Len(rows),
           UNCHANGED <<pageVars, total, ended, signalVars, demandState, publicVars, pendingEof,
                       closing, asked>>
    PROVE  SessionInv'
<1>. USE DEF SessionInv, pageVars, signalVars, publicVars
<1>1. /\ loadedRows \in Nat /\ Target \in 1..MaxTarget /\ pending = NoPage /\ readerReturn = "none"
      /\ Len(rows) \in Nat
  <2>1. Head(demands) \in PageCalls
    BY HeadTailProperties DEF SessionTypes, FetchTypes
  <2>2. Target \in 1..MaxTarget
    BY <2>1 DEF PageCalls, Target
  <2>. QED BY <2>2 DEF StateInv, SessionTypes, PublicTypes, QueryAssumption, IsRun
<1>2. /\ IsRun(taken', loadedRows) /\ Len(taken') <= MaxTarget
      /\ IsRun(remainder', loadedRows + Len(taken'))
      /\ Len(taken') + Len(remainder') = Len(rows)
      /\ at' \in {"next", "probe", "convert"} /\ demands' = demands
      /\ at' = "convert" <=> remainder' # << >>
      /\ at' # "next" \/ rows # << >> => taken' # << >>
  BY <1>1, CollectsCuts
<1>3. SessionTypes'
  <2>1. CursorTypes' /\ PublicTypes'
    BY DEF SessionTypes, CursorTypes, PublicTypes
  <2>2. FetchTypes'
    BY <1>2 DEF SessionTypes, FetchTypes, IsRun
  <2>. QED BY <2>1, <2>2 DEF SessionTypes
<1>4. CallInv' /\ StateInv' /\ CloseInv'
  BY <1>1, <1>2 DEF CallInv, StateInv, CloseInv, Fetching, Retrying, Ending
<1>5. /\ Len(taken') \in Nat /\ Len(remainder') \in Nat
      /\ pulled' = loadedRows + Len(taken') + Len(remainder')
      /\ pulled' - Len(remainder') = loadedRows + Len(taken')
  <2>1. Len(taken') \in Nat /\ Len(remainder') \in Nat
    BY <1>2 DEF IsRun
  <2>. QED BY <1>1, <1>2, <2>1
<1>6. RowsInv'
  <2>1. IsRun(taken, loadedRows)'
    BY <1>2
  <2>2. IsRun(remainder, pulled - Len(remainder))'
    BY <1>2, <1>5
  <2>3. (loadedRows + Len(remainder) <= pulled)' /\ pending' = NoPage
    BY <1>1, <1>5
  <2>. QED BY <1>2, <1>5, <2>1, <2>2, <2>3 DEF RowsInv, Fetching
<1>7. EndInv'
  BY <1>1, <1>2 DEF EndInv
<1>8. PublishedInv'
  <2>1. NextIndex \notin DOMAIN pages
    BY <1>1 DEF PublishedInv, IsClosing
  <2>. QED BY <1>2, <2>1 DEF PublishedInv, Released, NextIndex, Size
<1>. QED BY <1>3, <1>4, <1>6, <1>7, <1>8

LEMMA FetchKeepsSession ==
    ASSUME QueryAssumption, SessionInv, FetchStarts
    PROVE  SessionInv'
<1>. USE DEF SessionInv
<1>1. /\ at = "idle" /\ demands # << >> /\ Head(demands).op = "fetch" /\ demandState = "open" /\ ~complete
      /\ Collects(remainder) /\ eof' = eof
      /\ UNCHANGED <<pageVars, cursorVars, signalVars, demandState, publicVars, pendingEof, closing, asked>>
  BY DEF FetchStarts, Refuses
<1>2. ~ended /\ ~eof
  BY <1>1 DEF StateInv, EndInv
<1>3. disposal = "no"
  BY <1>1 DEF CloseInv
<1>4. pulled = loadedRows + Len(remainder) /\ pulled \in 0..total
  BY <1>1 DEF RowsInv, SessionTypes, CursorTypes
<1>5. IsRun(remainder, loadedRows)
  <2>1. remainder \in Seq(1..TotalRows) /\ loadedRows \in Nat
    BY DEF SessionTypes, FetchTypes, PublicTypes
  <2>2. Len(remainder) \in Nat
    BY <2>1
  <2>3. pulled - Len(remainder) = loadedRows
    BY <1>4, <2>1, <2>2
  <2>4. IsRun(remainder, pulled - Len(remainder))
    BY DEF RowsInv
  <2>. QED BY <2>3, <2>4
<1>6. summaries # << >> => remainder # << >>
  BY <1>1 DEF EndInv
<1>. QED BY <1>1, <1>2, <1>3, <1>4, <1>5, <1>6, CollectsKeepsSession DEF cursorVars

LEMMA BatchIsRun ==
    ASSUME QueryAssumption, SessionTypes, NEW n \in 1..(total - pulled)
    PROVE  /\ IsRun(Batch(n), pulled) /\ Len(Batch(n)) = n /\ Batch(n) # << >>
           /\ pulled + n \in 0..total /\ n \in Nat \ {0}
<1>1. total \in Nat /\ total <= TotalRows /\ TotalRows \in Nat /\ pulled \in Nat /\ n \in Nat \ {0}
      /\ pulled + n <= total
  BY DEF SessionTypes, CursorTypes, QueryAssumption
<1>2. \A i \in 1..n : pulled + i \in 1..TotalRows
  BY <1>1
<1>3. Batch(n) \in Seq(1..TotalRows) /\ Len(Batch(n)) = n /\ \A i \in 1..n : Batch(n)[i] = pulled + i
  <2>1. Batch(n) = [i \in 1..n |-> pulled + i]
    BY DEF Batch
  <2>2. Batch(n) \in [1..n -> 1..TotalRows]
    BY <1>2, <2>1
  <2>. QED BY <1>1, <2>1, <2>2, IsASeq, LenProperties
<1>. QED BY <1>1, <1>3 DEF IsRun

LEMMA BatchKeepsSession ==
    ASSUME QueryAssumption, SessionInv, BatchPulled
    PROVE  SessionInv'
<1>. USE DEF SessionInv
<1>1. PICK n \in 1..(total - pulled) :
         /\ pulled' = pulled + n
         /\ \/ IsClosing /\ Settles /\ UNCHANGED remainder
            \/ ~IsClosing /\ at = "next" /\ Collects(taken \o Batch(n)) /\ UNCHANGED eof
            \/ /\ ~IsClosing /\ at = "probe"
               /\ remainder' = Batch(n) /\ GoesTo("convert")
               /\ UNCHANGED <<taken, eof>>
  BY DEF BatchPulled
<1>2. /\ at \in {"next", "probe"} /\ Fetching
      /\ UNCHANGED <<pageVars, total, ended, signalVars, demandState, publicVars, pendingEof, closing, asked>>
  BY DEF BatchPulled, Fetching
<1>3. /\ IsRun(Batch(n), pulled) /\ Len(Batch(n)) = n /\ Batch(n) # << >>
      /\ pulled + n \in 0..total /\ n \in Nat \ {0}
  BY BatchIsRun
<1>4. /\ pulled \in Nat /\ total \in Nat /\ loadedRows \in Nat /\ taken \in Seq(1..TotalRows) /\ Len(taken) \in Nat
      /\ remainder = << >> /\ pulled = loadedRows + Len(taken)
  <2>1. /\ pulled \in Nat /\ total \in Nat /\ loadedRows \in Nat /\ taken \in Seq(1..TotalRows)
        /\ Len(taken) \in Nat
    BY DEF SessionTypes, CursorTypes, PublicTypes, FetchTypes, QueryAssumption
  <2>2. remainder = << >> /\ pulled = loadedRows + Len(taken) + Len(remainder)
    BY <1>2 DEF RowsInv
  <2>. QED BY <2>1, <2>2
<1>5. CASE IsClosing /\ Settles /\ UNCHANGED remainder
  <2>1. pulled' \in pulled..total /\ ended' \in BOOLEAN
    BY <1>1, <1>2, <1>3, <1>4 DEF SessionTypes, CursorTypes
  <2>. QED BY <1>2, <1>5, <2>1, DroppedKeepsSession DEF pagingVars
<1>6. /\ ~IsClosing => demandState = "open"
      /\ demands # << >> /\ Head(demands).op = "fetch" /\ ~complete /\ ~ended /\ ~eof
      /\ disposal = "no" /\ pending = NoPage /\ readerReturn = "none" /\ IsRun(taken, loadedRows)
  BY <1>2, StoreIsOpen DEF CallInv, IsClosing, EndInv, RowsInv
<1>7. CASE ~IsClosing /\ at = "next" /\ Collects(taken \o Batch(n)) /\ UNCHANGED eof
  <2>1. /\ taken \o Batch(n) \in Seq(1..TotalRows) /\ Len(taken \o Batch(n)) = Len(taken) + n
        /\ \A k \in 1..(Len(taken) + n) :
               (taken \o Batch(n))[k] = IF k <= Len(taken) THEN taken[k] ELSE Batch(n)[k - Len(taken)]
    BY <1>3, <1>4, ConcatProperties DEF IsRun
  <2>2. ASSUME NEW k \in 1..(Len(taken) + n) PROVE (taken \o Batch(n))[k] = loadedRows + k
    <3>1. CASE k <= Len(taken)
      BY <1>4, <1>6, <2>1, <3>1 DEF IsRun
    <3>2. CASE ~(k <= Len(taken))
      <4>1. k - Len(taken) \in 1..Len(Batch(n))
        BY <1>3, <1>4, <3>2
      <4>2. Batch(n)[k - Len(taken)] = pulled + (k - Len(taken))
        BY <1>3, <4>1 DEF IsRun
      <4>. QED BY <1>4, <2>1, <3>2, <4>2
    <3>. QED BY <3>1, <3>2
  <2>3. IsRun(taken \o Batch(n), loadedRows)
    BY <2>1, <2>2 DEF IsRun
  <2>4. Len(taken \o Batch(n)) # 0 /\ pulled' = loadedRows + Len(taken \o Batch(n)) /\ pulled' \in 0..total
    BY <1>1, <1>3, <1>4, <2>1
  <2>5. taken \o Batch(n) # << >>
    BY <2>4
  <2>. QED BY <1>2, <1>6, <1>7, <2>3, <2>4, <2>5, CollectsKeepsSession
<1>8. CASE /\ ~IsClosing /\ at = "probe" /\ remainder' = Batch(n) /\ GoesTo("convert")
           /\ UNCHANGED <<taken, eof>>
  <2>. USE DEF pageVars, signalVars, publicVars
  <2>1. /\ at' = "convert" /\ demands' = demands /\ taken' = taken /\ eof' = eof /\ remainder' # << >>
        /\ remainder' \in Seq(1..TotalRows) /\ Len(remainder') = n /\ taken # << >>
    BY <1>2, <1>3, <1>8 DEF GoesTo, IsRun, RowsInv
  <2>2. SessionTypes'
    <3>1. CursorTypes' /\ PublicTypes'
      BY <1>1, <1>2, <1>3 DEF SessionTypes, CursorTypes, PublicTypes
    <3>2. FetchTypes'
      BY <2>1 DEF SessionTypes, FetchTypes
    <3>. QED BY <3>1, <3>2 DEF SessionTypes
  <2>3. CallInv' /\ StateInv' /\ CloseInv'
    BY <1>2, <1>6, <1>8, <2>1 DEF CallInv, StateInv, CloseInv, Fetching, Retrying, Ending
  <2>4. RowsInv'
    <3>1. pulled' = loadedRows + Len(taken) + Len(remainder') /\ pulled' - Len(remainder') = pulled
      BY <1>1, <1>3, <1>4, <2>1
    <3>2. IsRun(remainder, pulled - Len(remainder))'
      BY <1>3, <1>8, <3>1
    <3>3. IsRun(taken, loadedRows)' /\ pending' = NoPage
      BY <1>2, <1>6, <2>1
    <3>4. (loadedRows + Len(remainder) <= pulled)'
      BY <1>2, <1>3, <1>4, <2>1, <3>1
    <3>. QED BY <1>2, <2>1, <3>1, <3>2, <3>3, <3>4 DEF RowsInv, Fetching
  <2>5. EndInv'
    BY <1>2, <1>6, <1>8, <2>1 DEF EndInv
  <2>6. PublishedInv'
    <3>1. NextIndex \notin DOMAIN pages
      BY <1>2 DEF PublishedInv
    <3>. QED BY <1>2, <2>1, <3>1 DEF PublishedInv, Released, NextIndex, Size
  <2>. QED BY <2>2, <2>3, <2>4, <2>5, <2>6
<1>. QED BY <1>1, <1>5, <1>7, <1>8

\* The page being made, or the one to be retried, enters the store.
LEMMA StoringKeepsSession ==
    ASSUME QueryAssumption, StoreInv, SessionInv, NEW page, Fits(page), NextIndex \notin DOMAIN pages,
           \/ /\ at \in {"convert", "write"} /\ page = NextPage /\ taken # << >>
              /\ at' = "stored" /\ pending' = pending
           \/ at = "rewrite" /\ page = pending /\ at' = "restored" /\ pending' = NoPage,
           pages' = With(pages, NextIndex, page), storedBytes' = storedBytes + Size(page),
           DOMAIN files' \subseteq 1..TotalRows,
           UNCHANGED <<persistent, pinned, storeComplete, disposal, cursorVars, signalVars, publicVars,
                       demandState, pendingEof, remainder, demands, taken, eof, closing, asked>>
    PROVE  SessionInv'
<1>. USE DEF SessionInv, cursorVars, signalVars, publicVars
<1>1. /\ at # "idle" /\ at' \in {"stored", "restored"} /\ disposal = "no"
      /\ at' = "stored" => Fetching
  BY StoreIsOpen DEF Fetching
<1>2. SessionTypes'
  BY <1>1 DEF SessionTypes, CursorTypes, PublicTypes, FetchTypes
<1>3. CallInv'
  BY <1>1 DEF CallInv, Fetching, Retrying, Ending
<1>4. StateInv' /\ CloseInv'
  BY <1>1, <1>3 DEF CallInv, StateInv, CloseInv, Fetching, Retrying
<1>5. RowsInv'
  BY <1>1 DEF RowsInv, Fetching, Fits, IsRun, CallInv
<1>6. EndInv'
  BY <1>1 DEF EndInv
<1>7. PublishedInv'
  <2>1. /\ DOMAIN pages' = DOMAIN pages \cup {NextIndex} /\ pages'[NextIndex] = page
        /\ \A i \in DOMAIN pages : pages'[i] = pages[i]
    BY DEF With
  <2>2. NextIndex' = NextIndex /\ ~Released /\ ~Released'
    BY <1>1 DEF NextIndex, Released
  <2>3. storedBytes = loadedRows
    BY <2>2 DEF PublishedInv
  <2>4. /\ 1..Len(summaries) \subseteq DOMAIN pages /\ NextIndex \notin 1..Len(summaries)
        /\ \A i \in 1..Len(summaries) : Size(pages'[i]) = summaries[i].count
    BY <2>1, <2>2 DEF PublishedInv, SessionTypes, PublicTypes, Size
  <2>5. Fits(page)'
    BY DEF Fits
  <2>6. at' = "stored" => page.rows = taken
    BY <1>1 DEF NextPage
  <2>7. (storedBytes = loadedRows + Size(pages[NextIndex]))'
    BY <2>1, <2>2, <2>3 DEF Size
  <2>8. (Fits(pages[NextIndex]))'
    BY <2>1, <2>2, <2>5 DEF Fits
  <2>9. /\ DOMAIN pages' \subseteq 1..NextIndex /\ 1..Len(summaries) \subseteq DOMAIN pages'
        /\ NextIndex \in DOMAIN pages'
    <3>1. NextIndex \in 1..NextIndex
      BY DEF SessionTypes, PublicTypes, NextIndex
    <3>. QED BY <2>1, <2>4, <3>1 DEF PublishedInv
  <2>10. /\ loadedRows = IF summaries = << >> THEN 0
                         ELSE summaries[Len(summaries)].start + summaries[Len(summaries)].count
         /\ Len(summaries) <= loadedRows
    BY DEF PublishedInv
  <2>. QED BY <1>1, <2>1, <2>2, <2>4, <2>6, <2>7, <2>8, <2>9, <2>10 DEF PublishedInv
<1>. QED BY <1>2, <1>3, <1>4, <1>5, <1>6, <1>7

\* What the page that is published next holds, and whether it is the last.
LEMMA PublishFacts ==
    ASSUME QueryAssumption, SessionInv, at \in {"stored", "restored"}
    PROVE  /\ Fits(pages[NextIndex]) /\ Size(pages[NextIndex]) \in Nat \ {0}
           /\ loadedRows + Size(pages[NextIndex]) \in 1..total
           /\ loadedRows \in Nat /\ total \in Nat /\ remainder \in Seq(1..TotalRows)
           /\ pulled = loadedRows + Size(pages[NextIndex]) + Len(remainder)
           /\ NextIndex \in DOMAIN pages /\ storedBytes = loadedRows + Size(pages[NextIndex])
           /\ ~Released
           /\ ~IsClosing /\ at = "stored" =>
                 demandState = "open" /\ (eof <=> loadedRows + Size(pages[NextIndex]) = total)
           /\ ~IsClosing /\ at = "restored" =>
                 demandState = "retry" /\ (pendingEof <=> loadedRows + Size(pages[NextIndex]) = total)
           /\ ~IsClosing => ((IF at = "stored" THEN eof ELSE pendingEof) <=> remainder = << >>)
<1>. USE DEF SessionInv
<1>1. /\ NextIndex \in DOMAIN pages /\ Fits(pages[NextIndex])
      /\ storedBytes = loadedRows + Size(pages[NextIndex])
  BY DEF PublishedInv
<1>2. /\ Size(pages[NextIndex]) \in Nat \ {0}
      /\ pulled = loadedRows + Size(pages[NextIndex]) + Len(remainder)
  BY <1>1, PageFacts DEF Fits, Size
<1>3. /\ total \in Nat /\ pulled \in 0..total /\ loadedRows \in Nat /\ remainder \in Seq(1..TotalRows)
      /\ Len(remainder) \in Nat
  BY DEF SessionTypes, CursorTypes, PublicTypes, FetchTypes, QueryAssumption
<1>4. loadedRows + Size(pages[NextIndex]) \in 1..total
  BY <1>2, <1>3
<1>5. /\ at = "stored" => demandState \in {"open", "closing"}
      /\ at = "restored" => demandState \in {"retry", "closing"}
  BY DEF CallInv, Fetching, Retrying
<1>6. /\ ~IsClosing /\ at = "stored" => demandState = "open"
      /\ ~IsClosing /\ at = "restored" => demandState = "retry"
  BY <1>5 DEF IsClosing
<1>7. /\ at = "stored" => (eof <=> remainder = << >>) /\ (eof => pulled = total)
      /\ demandState = "retry" => (pendingEof <=> remainder = << >>) /\ (pendingEof => pulled = total)
  BY DEF EndInv
<1>8. /\ remainder = << >> => pulled = loadedRows + Size(pages[NextIndex])
      /\ remainder # << >> => loadedRows + Size(pages[NextIndex]) < total
  <2>1. remainder # << >> => Len(remainder) # 0
    BY <1>3, EmptySeq
  <2>2. remainder = << >> => Len(remainder) = 0
    OBVIOUS
  <2>. QED BY <1>2, <1>3, <2>1, <2>2
<1>9. ~Released
  <2>1. disposal = "no"
    BY StoreIsOpen
  <2>. QED BY <2>1 DEF Released
<1>10. /\ ~IsClosing /\ at = "stored" => (eof <=> loadedRows + Size(pages[NextIndex]) = total)
       /\ ~IsClosing /\ at = "restored" => (pendingEof <=> loadedRows + Size(pages[NextIndex]) = total)
  <2>1. remainder # << >> => loadedRows + Size(pages[NextIndex]) # total
    BY <1>2, <1>3, <1>8
  <2>. QED BY <1>6, <1>7, <1>8, <2>1
<1>11. ~IsClosing => ((IF at = "stored" THEN eof ELSE pendingEof) <=> remainder = << >>)
  BY <1>6, <1>7
<1>. QED BY <1>1, <1>2, <1>3, <1>4, <1>6, <1>9, <1>10, <1>11

\* A page is published: the rows it holds are loaded, and the session goes on, or is over
\* with the last of them.
LEMMA PublishKeepsSession ==
    ASSUME QueryAssumption, SessionInv, at \in {"stored", "restored"}, ~IsClosing,
           Publish(pages[NextIndex], IF at = "stored" THEN eof ELSE pendingEof),
           demandState' = "open", pendingEof' \in BOOLEAN, Settles,
           UNCHANGED <<persistent, pages, storedBytes, pinned, pending, disposal, files, cursorVars,
                       signalVars, remainder, closing, asked>>
    PROVE  SessionInv'
<1>. USE DEF SessionInv, cursorVars, signalVars
<1>. DEFINE page == pages[NextIndex]
            last == IF at = "stored" THEN eof ELSE pendingEof
            summary == [start |-> page.start, count |-> Size(page)]
<1>1. /\ Fits(page) /\ Size(page) \in Nat \ {0} /\ loadedRows + Size(page) \in 1..total
      /\ loadedRows \in Nat /\ total \in Nat /\ remainder \in Seq(1..TotalRows)
      /\ pulled = loadedRows + Size(page) + Len(remainder)
      /\ NextIndex \in DOMAIN pages /\ storedBytes = loadedRows + Size(page)
      /\ ~Released /\ demandState \in {"open", "retry"} /\ (last <=> remainder = << >>)
  BY PublishFacts
<1>2. /\ summaries' = Append(summaries, summary) /\ loadedRows' = loadedRows + Size(page)
      /\ complete' = last /\ storeComplete' = last
  BY DEF Publish
<1>. HIDE DEF page, last
<1>3. /\ at # "idle" /\ disposal = "no" /\ readerReturn = "none" /\ closing = "no"
      /\ NextIndex = Len(summaries) + 1 /\ Len(summaries) \in Nat /\ TotalRows \in Nat /\ total <= TotalRows
      /\ Len(remainder) \in Nat /\ pulled \in Nat /\ ~complete
  <2>1. at # "idle" /\ disposal = "no" /\ readerReturn = "none" /\ closing = "no" /\ ~complete
    BY <1>1, StoreIsOpen DEF StateInv, CallInv, CloseInv
  <2>2. /\ NextIndex = Len(summaries) + 1 /\ Len(summaries) \in Nat
        /\ Len(remainder) \in Nat
    BY DEF NextIndex, SessionTypes, PublicTypes, FetchTypes
  <2>3. TotalRows \in Nat /\ total <= TotalRows /\ pulled \in Nat
    BY DEF SessionTypes, CursorTypes, QueryAssumption
  <2>. QED BY <2>1, <2>2, <2>3
<1>4. last \in BOOLEAN
  BY DEF last, SessionTypes, PublicTypes, FetchTypes
<1>5. demands' \in Seq(PageCalls) /\ at' = "idle" /\ taken' = << >> /\ eof' = FALSE
  BY <1>3, SettledChain
<1>6. /\ summaries' \in Seq([start : 0..TotalRows, count : 1..TotalRows]) /\ summaries' # << >>
      /\ Len(summaries') = NextIndex
      /\ \A i \in 1..Len(summaries) : summaries'[i] = summaries[i]
      /\ summaries'[NextIndex] = summary
  <2>1. page.start = loadedRows
    BY <1>1 DEF Fits
  <2>2. summary \in [start : 0..TotalRows, count : 1..TotalRows]
    <3>1. loadedRows \in 0..TotalRows /\ Size(page) \in 1..TotalRows
      BY <1>1, <1>3, SMTT(30)
    <3>. QED BY <2>1, <3>1
  <2>3. summaries \in Seq([start : 0..TotalRows, count : 1..TotalRows])
    BY DEF SessionTypes, PublicTypes
  <2>. HIDE DEF summary
  <2>4. /\ Append(summaries, summary) \in Seq([start : 0..TotalRows, count : 1..TotalRows])
        /\ Append(summaries, summary) # << >> /\ Len(Append(summaries, summary)) = Len(summaries) + 1
        /\ \A i \in 1..Len(summaries) : Append(summaries, summary)[i] = summaries[i]
        /\ Append(summaries, summary)[Len(summaries) + 1] = summary
    <3>. DEFINE Summaries == [start : 0..TotalRows, count : 1..TotalRows]
    <3>1. summary \in Summaries /\ summaries \in Seq(Summaries)
      BY <2>2, <2>3
    <3>. HIDE DEF Summaries
    <3>2. /\ Append(summaries, summary) \in Seq(Summaries)
          /\ Append(summaries, summary) # << >> /\ Len(Append(summaries, summary)) = Len(summaries) + 1
          /\ \A i \in 1..Len(summaries) : Append(summaries, summary)[i] = summaries[i]
          /\ Append(summaries, summary)[Len(summaries) + 1] = summary
      BY <3>1, AppendProperties
    <3>. QED BY <3>2 DEF Summaries
  <2>5. summaries' = Append(summaries, summary)
    BY <1>2 DEF summary
  <2>. QED BY <1>3, <2>4, <2>5
<1>7. SessionTypes'
  <2>1. CursorTypes'
    BY DEF SessionTypes, CursorTypes
  <2>2. PublicTypes'
    <3>1. loadedRows' \in 0..TotalRows
      BY <1>1, <1>2, <1>3, SMTT(30)
    <3>2. storeComplete' \in BOOLEAN /\ complete' \in BOOLEAN
      BY <1>2, <1>4
    <3>. QED BY <1>6, <3>1, <3>2 DEF SessionTypes, PublicTypes
  <2>3. taken' \in Seq(1..TotalRows) /\ Len(taken') = 0
    BY <1>5
  <2>4. Len(taken') <= MaxTarget
    BY <2>3 DEF QueryAssumption
  <2>5. FetchTypes'
    BY <1>5, <2>3, <2>4 DEF SessionTypes, FetchTypes
  <2>. QED BY <2>1, <2>2, <2>5 DEF SessionTypes
<1>8. pending = NoPage
  BY <1>1 DEF CallInv, Fetching
<1>9. CallInv' /\ CloseInv'
  BY <1>1, <1>3, <1>5 DEF CallInv, CloseInv, Fetching, Retrying, Ending
<1>10. StateInv'
  <2>1. ended => last
    BY <1>1, <1>3 DEF StateInv, CallInv, last, Fetching, Retrying
  <2>. QED BY <1>2, <1>3, <1>8, <2>1 DEF StateInv
<1>11. RowsInv'
  <2>1. IsRun(taken, loadedRows)'
    BY <1>5 DEF IsRun
  <2>2. IsRun(remainder, pulled - Len(remainder))'
    BY DEF RowsInv
  <2>3. /\ (loadedRows + Len(remainder) <= pulled)'
        /\ (pulled = loadedRows + Len(remainder))'
    BY <1>1, <1>2, <1>3
  <2>4. pending' = NoPage /\ at' = "idle" /\ (at' \in {"idle", "rewrite", "restored"} => taken' = << >>)
    BY <1>5, <1>8
  <2>. QED BY <2>1, <2>2, <2>3, <2>4 DEF RowsInv, Fetching
<1>12. EndInv'
  BY <1>1, <1>2, <1>5 DEF EndInv
<1>13. PublishedInv'
  <2>1. NextIndex' = NextIndex + 1 /\ Len(summaries') = NextIndex /\ ~Released'
    BY <1>1, <1>3, <1>6 DEF NextIndex, Released
  <2>2. loadedRows' = summaries'[Len(summaries')].start + summaries'[Len(summaries')].count
    <3>1. page.start = loadedRows
      BY <1>1 DEF Fits
    <3>2. summaries'[Len(summaries')] = summary
      BY <1>6
    <3>. QED BY <1>2, <3>1, <3>2
  <2>3. Len(summaries') <= loadedRows'
    <3>1. Len(summaries) <= loadedRows
      BY DEF PublishedInv
    <3>2. loadedRows' >= loadedRows + 1
      BY <1>1, <1>2, SMTT(30)
    <3>. QED BY <1>1, <1>2, <1>3, <2>1, <3>1, <3>2, SMTT(30)
  <2>4. 1..Len(summaries) \subseteq DOMAIN pages /\ DOMAIN pages \subseteq 1..NextIndex
        /\ \A i \in 1..Len(summaries) : Size(pages[i]) = summaries[i].count
    BY <1>1 DEF PublishedInv
  <2>5. (1..Len(summaries) \subseteq DOMAIN pages /\ DOMAIN pages \subseteq 1..NextIndex)'
    <3>1. 1..Len(summaries') \subseteq DOMAIN pages
      <4>1. ASSUME NEW i \in 1..NextIndex PROVE i \in DOMAIN pages
        <5>1. CASE i = NextIndex
          BY <1>1, <5>1
        <5>2. CASE i # NextIndex
          <6>1. i \in 1..Len(summaries)
            BY <1>3, <5>2
          <6>. QED BY <2>4, <6>1
        <5>. QED BY <5>1, <5>2
      <4>. QED BY <2>1, <4>1
    <3>2. DOMAIN pages \subseteq 1..(NextIndex + 1)
      <4>1. 1..NextIndex \subseteq 1..(NextIndex + 1)
        BY <1>3
      <4>. QED BY <2>4, <4>1
    <3>. QED BY <2>1, <3>1, <3>2
  <2>6. (\A i \in 1..Len(summaries) : Size(pages[i]) = summaries[i].count)'
    <3>1. ASSUME NEW i \in 1..NextIndex PROVE Size(pages[i]) = summaries'[i].count
      <4>1. CASE i = NextIndex
        BY <1>6, <4>1 DEF page
      <4>2. CASE i # NextIndex
        <5>1. i \in 1..Len(summaries)
          BY <1>3, <4>2
        <5>. QED BY <1>6, <2>4, <5>1
      <4>. QED BY <4>1, <4>2
    <3>. QED BY <2>1, <3>1 DEF Size
  <2>7. NextIndex' \notin DOMAIN pages'
    BY <1>3, <2>1, <2>4
  <2>8. (storedBytes = loadedRows)'
    BY <1>1, <1>2
  <2>9. summaries' # << >> /\ at' = "idle"
    BY <1>5, <1>6
  <2>. QED BY <2>2, <2>3, <2>5, <2>6, <2>7, <2>8, <2>9 DEF PublishedInv
<1>. QED BY <1>7, <1>9, <1>10, <1>11, <1>12, <1>13

\* A rewrite that fails again, and a page stored while the session closes.
LEMMA SettlesKeepsSession ==
    ASSUME QueryAssumption, SessionInv, at = "rewrite" \/ (at \in {"stored", "restored"} /\ IsClosing),
           Settles, DOMAIN files' \subseteq 1..TotalRows,
           UNCHANGED <<persistent, pages, storedBytes, pinned, pending, storeComplete, disposal, cursorVars,
                       signalVars, pagingVars, closing, asked>>
    PROVE  SessionInv'
<1>. USE DEF SessionInv, cursorVars, signalVars, pagingVars, publicVars
<1>1. /\ at # "idle" /\ disposal = "no" /\ ~Released /\ demandState \in {"retry", "closing"}
      /\ at # "rewrite" => demandState = "closing"
  <2>1. disposal = "no" /\ closing # "done"
    BY StoreIsOpen DEF CloseInv
  <2>2. demandState # "closed"
    BY <2>1 DEF CloseInv
  <2>. QED BY <2>1, <2>2 DEF CallInv, Retrying, IsClosing, Released
<1>2. demands' \in Seq(PageCalls) /\ at' = "idle" /\ taken' = << >> /\ eof' = FALSE
  BY <1>1, SettledChain
<1>3. SessionTypes'
  <2>1. CursorTypes' /\ PublicTypes'
    BY DEF SessionTypes, CursorTypes, PublicTypes
  <2>2. taken' \in Seq(1..TotalRows) /\ Len(taken') = 0
    BY <1>2
  <2>3. Len(taken') <= MaxTarget
    BY <2>2 DEF QueryAssumption
  <2>4. FetchTypes'
    BY <1>2, <2>2, <2>3 DEF SessionTypes, FetchTypes
  <2>. QED BY <2>1, <2>4 DEF SessionTypes
<1>4. CallInv' /\ CloseInv'
  BY <1>1, <1>2 DEF CallInv, CloseInv, Fetching, Retrying, Ending
<1>5. StateInv'
  BY <1>1, <1>2 DEF StateInv, CallInv
<1>6. RowsInv'
  <2>1. IsRun(taken, loadedRows)' /\ IsRun(remainder, pulled - Len(remainder))'
    BY <1>2 DEF RowsInv, IsRun
  <2>2. (loadedRows + Len(remainder) <= pulled)' /\ (pending # NoPage => Fits(pending))'
    BY DEF RowsInv, Fits
  <2>3. at' = "idle" /\ (at' \in {"idle", "rewrite", "restored"} => taken' = << >>) /\ demandState' # "open"
    BY <1>1, <1>2
  <2>. QED BY <2>1, <2>2, <2>3 DEF RowsInv, Fetching
<1>7. EndInv'
  BY <1>1, <1>2 DEF EndInv
<1>8. PublishedInv'
  <2>1. NextIndex \in DOMAIN pages => demandState = "closing"
    BY <1>1 DEF PublishedInv
  <2>2. (NextIndex \in DOMAIN pages => at = "idle" /\ IsClosing)'
    BY <1>2, <2>1 DEF NextIndex, IsClosing
  <2>3. (NextIndex \in DOMAIN pages => Fits(pages[NextIndex]))'
    BY DEF PublishedInv, NextIndex, Fits
  <2>. QED BY <1>1, <1>2, <2>2, <2>3 DEF PublishedInv, Released, NextIndex, Size
<1>. QED BY <1>3, <1>4, <1>5, <1>6, <1>7, <1>8

\* A result without rows is complete, and none of its pages is.
LEMMA EmptyKeepsSession ==
    ASSUME QueryAssumption, SessionInv, at = "convert", taken = << >>,
           complete' = TRUE, storeComplete' = TRUE, Settles,
           UNCHANGED <<persistent, pages, storedBytes, pinned, pending, disposal, files, cursorVars, signalVars,
                       summaries, loadedRows, demandState, pendingEof, remainder, closing, asked>>
    PROVE  SessionInv' /\ summaries = << >> /\ total = 0 /\ disposal = "no"
<1>. USE DEF SessionInv, cursorVars, signalVars
<1>1. /\ at # "idle" /\ Fetching /\ disposal = "no" /\ demandState \in {"open", "closing"} /\ pending = NoPage
      /\ readerReturn = "none"
  BY StoreIsOpen DEF CallInv, Fetching
<1>2. eof /\ pulled = total /\ remainder = << >> /\ summaries = << >>
  BY DEF EndInv
<1>3. loadedRows = 0 /\ total = 0
  <2>1. loadedRows = 0
    BY <1>2 DEF PublishedInv
  <2>2. pulled = loadedRows + Len(taken) + Len(remainder)
    BY <1>1 DEF RowsInv
  <2>. QED BY <1>2, <2>1, <2>2
<1>4. demands' \in Seq(PageCalls) /\ at' = "idle" /\ taken' = << >> /\ eof' = FALSE
  BY <1>1, SettledChain
<1>5. SessionTypes'
  <2>1. CursorTypes' /\ PublicTypes'
    BY DEF SessionTypes, CursorTypes, PublicTypes
  <2>2. FetchTypes'
    BY <1>4 DEF SessionTypes, FetchTypes
  <2>. QED BY <2>1, <2>2 DEF SessionTypes
<1>6. CallInv' /\ CloseInv' /\ StateInv'
  BY <1>1, <1>4 DEF CallInv, CloseInv, StateInv, Fetching, Retrying, Ending
<1>7. RowsInv'
  <2>1. IsRun(taken, loadedRows)' /\ IsRun(remainder, pulled - Len(remainder))'
    BY <1>4 DEF RowsInv, IsRun
  <2>2. (loadedRows + Len(remainder) <= pulled)' /\ pending' = NoPage
        /\ (pulled = loadedRows + Len(remainder))'
    BY <1>1, <1>2, <1>3
  <2>3. at' = "idle" /\ (at' \in {"idle", "rewrite", "restored"} => taken' = << >>)
    BY <1>4
  <2>. QED BY <2>1, <2>2, <2>3 DEF RowsInv, Fetching
<1>8. EndInv'
  BY <1>1, <1>2, <1>4 DEF EndInv
<1>9. PublishedInv'
  <2>1. NextIndex \notin DOMAIN pages
    BY <1>1 DEF PublishedInv
  <2>. QED BY <1>4, <2>1 DEF PublishedInv, Released, NextIndex, Size
<1>. QED BY <1>1, <1>2, <1>3, <1>5, <1>6, <1>7, <1>8, <1>9

\* What a step that converts the rows and puts their page does to the session.
LEMMA ConvertedKeepsSession ==
    ASSUME QueryAssumption, StoreInv, SessionInv, Converted
    PROVE  SessionInv'
<1>1. /\ at = "convert" /\ pending = NoPage /\ SessionTypes
      /\ UNCHANGED <<persistent, pinned, disposal, reading, cursorVars, remainder, closing, asked>>
  BY DEF Converted, SessionInv, CallInv, Fetching
<1>2. CASE /\ taken = << >> /\ complete' = TRUE /\ storeComplete' = TRUE /\ Settles
           /\ UNCHANGED <<pages, storedBytes, decoded, usedBefore, decodedBytes, pending, files,
                          summaries, loadedRows, demandState, pendingEof, signalVars>>
  BY <1>1, <1>2, EmptyKeepsSession
<1>3. CASE /\ taken # << >> /\ ~IsClosing /\ persistent /\ ~PutRefused(NextIndex, NextPage) /\ GoesTo("write")
           /\ UNCHANGED <<pageVars, publicVars, demandState, pendingEof, signalVars, taken, eof>>
  <2>. USE DEF SessionInv, pageVars, cursorVars, signalVars, publicVars
  <2>1. at' = "write" /\ demands' = demands
    BY <1>3 DEF GoesTo
  <2>2. SessionTypes'
    BY <1>1, <1>3, <2>1 DEF SessionTypes, CursorTypes, PublicTypes, FetchTypes
  <2>3. CallInv' /\ StateInv' /\ CloseInv'
    BY <1>1, <1>3, <2>1 DEF CallInv, StateInv, CloseInv, Fetching, Retrying, Ending
  <2>4. RowsInv' /\ EndInv'
    BY <1>1, <1>3, <2>1 DEF RowsInv, EndInv, Fetching, Fits, IsRun
  <2>5. PublishedInv'
    <3>1. NextIndex \notin DOMAIN pages
      BY <1>1 DEF PublishedInv
    <3>. QED BY <1>1, <1>3, <2>1, <3>1 DEF PublishedInv, Released, NextIndex, Size
  <2>. QED BY <2>2, <2>3, <2>4, <2>5
<1>4. CASE /\ taken # << >> /\ ~IsClosing /\ PutInMemory(NextIndex, NextPage) /\ GoesTo("stored")
           /\ UNCHANGED <<storeComplete, publicVars, demandState, pendingEof, signalVars, taken, eof>>
  <2>1. Fits(NextPage)
    BY <1>1, <1>4, PageFacts DEF Fetching
  <2>2. /\ NextIndex \notin DOMAIN pages
        /\ pages' = With(pages, NextIndex, NextPage) /\ storedBytes' = storedBytes + Size(NextPage)
        /\ pending' = pending /\ DOMAIN files' \subseteq 1..TotalRows
    BY <1>1, <1>4 DEF PutInMemory, PutRefused, Accept, SessionTypes, PublicTypes
  <2>3. at' = "stored" /\ demands' = demands
    BY <1>4 DEF GoesTo
  <2>. QED BY <1>1, <1>4, <2>1, <2>2, <2>3, StoringKeepsSession
<1>5. CASE /\ taken # << >> /\ PageFetchFails(TRUE, pending # NoPage, eof)
           /\ UNCHANGED <<pageVars, publicVars>>
  <2>1. (pending # NoPage) = FALSE
    BY <1>1
  <2>2. PageFetchFails(TRUE, FALSE, eof)
    BY <1>5, <2>1, Zenon
  <2>3. DOMAIN files' \subseteq 1..TotalRows
    BY <1>1, <1>5 DEF pageVars, SessionTypes, PublicTypes
  <2>. QED BY <1>1, <1>5, <2>2, <2>3, FailureKeepsSession DEF pageVars
<1>. QED BY <1>2, <1>3, <1>4, <1>5 DEF Converted

\* What a step that writes the page's file does to it.
LEMMA WrittenKeepsSession ==
    ASSUME QueryAssumption, StoreInv, SessionInv, PageWritten
    PROVE  SessionInv'
<1>1. /\ at = "write" /\ pending = NoPage /\ taken # << >> /\ SessionTypes /\ NextIndex \notin DOMAIN pages
      /\ Fits(NextPage) /\ NextIndex \in 1..TotalRows
      /\ UNCHANGED <<persistent, pinned, storeComplete, disposal, reading, cursorVars, publicVars, remainder,
                     closing, asked>>
  BY PageFacts DEF PageWritten, SessionInv, CallInv, RowsInv, PublishedInv, Fetching
<1>2. \A rows : files' = With(files, NextIndex, rows) => DOMAIN files' \subseteq 1..TotalRows
  BY <1>1 DEF With, SessionTypes, PublicTypes
<1>3. CASE /\ PutWritten(NextIndex, NextPage) /\ GoesTo("stored")
           /\ UNCHANGED <<demandState, pendingEof, signalVars, taken, eof>>
  <2>1. /\ pages' = With(pages, NextIndex, NextPage) /\ storedBytes' = storedBytes + Size(NextPage)
        /\ pending' = pending /\ files' = With(files, NextIndex, NextPage.rows)
    BY <1>3 DEF PutWritten, Accept
  <2>2. DOMAIN files' \subseteq 1..TotalRows
    BY <1>2, <2>1
  <2>3. at' = "stored" /\ demands' = demands
    BY <1>3 DEF GoesTo
  <2>. QED BY <1>1, <1>3, <2>1, <2>2, <2>3, StoringKeepsSession
<1>4. CASE \E quota \in BOOLEAN : PutFails(NextIndex, NextPage, quota) /\ PageFetchFails(TRUE, quota, eof)
  <2>1. PICK quota \in BOOLEAN : PutFails(NextIndex, NextPage, quota) /\ PageFetchFails(TRUE, quota, eof)
    BY <1>4
  <2>2. /\ pending' = IF quota THEN NextPage ELSE pending
        /\ files' = With(files, NextIndex, << >>)
        /\ UNCHANGED <<pages, storedBytes>>
    BY <2>1 DEF PutFails
  <2>3. DOMAIN files' \subseteq 1..TotalRows
    BY <1>2, <2>2
  <2>. QED BY <1>1, <2>1, <2>2, <2>3, FailureKeepsSession
<1>. QED BY <1>3, <1>4 DEF PageWritten

LEMMA RewrittenKeepsSession ==
    ASSUME QueryAssumption, StoreInv, SessionInv, PageRewritten
    PROVE  SessionInv'
<1>1. /\ at = "rewrite" /\ SessionTypes /\ NextIndex \notin DOMAIN pages
      /\ Fits(pending) /\ NextIndex \in 1..TotalRows
      /\ UNCHANGED <<persistent, pinned, storeComplete, disposal, reading, cursorVars, signalVars, pagingVars,
                     closing, asked>>
  <2>1. at = "rewrite" /\ pending # NoPage
    BY DEF PageRewritten, SessionInv, CallInv
  <2>2. Fits(pending)
    BY <2>1 DEF SessionInv, RowsInv
  <2>. QED BY <2>1, <2>2, PageFacts DEF PageRewritten, SessionInv, PublishedInv
<1>2. \A rows : files' = With(files, NextIndex, rows) => DOMAIN files' \subseteq 1..TotalRows
  BY <1>1 DEF With, SessionTypes, PublicTypes
<1>3. CASE RetryWritten(NextIndex) /\ GoesTo("restored") /\ UNCHANGED <<taken, eof>>
  <2>1. /\ pages' = With(pages, NextIndex, pending) /\ storedBytes' = storedBytes + Size(pending)
        /\ pending' = NoPage /\ files' = With(files, NextIndex, pending.rows)
    BY <1>3 DEF RetryWritten, Accept
  <2>2. DOMAIN files' \subseteq 1..TotalRows
    BY <1>2, <2>1
  <2>3. at' = "restored" /\ demands' = demands
    BY <1>3 DEF GoesTo
  <2>. QED BY <1>1, <1>3, <2>1, <2>2, <2>3, StoringKeepsSession DEF pagingVars
<1>4. CASE /\ files' = With(files, NextIndex, << >>) /\ Settles
           /\ UNCHANGED <<pages, storedBytes, decoded, usedBefore, decodedBytes, pending>>
  <2>1. DOMAIN files' \subseteq 1..TotalRows
    BY <1>2, <1>4
  <2>. QED BY <1>1, <1>4, <2>1, SettlesKeepsSession
<1>. QED BY <1>3, <1>4 DEF PageRewritten

\* What happens to a stored page: it is published, unless the session closes.
LEMMA StoredKeepsSession ==
    ASSUME QueryAssumption, SessionInv, PageStored \/ PageRestored
    PROVE  SessionInv'
<1>1. /\ at \in {"stored", "restored"} /\ Settles
      /\ UNCHANGED <<persistent, pages, storedBytes, pinned, pending, disposal, files, cursorVars, signalVars,
                     remainder, closing, asked>>
  BY DEF PageStored, PageRestored
<1>2. CASE IsClosing
  <2>1. UNCHANGED <<storeComplete, pagingVars>>
    BY <1>2 DEF PageStored, PageRestored, pagingVars, publicVars
  <2>2. DOMAIN files' \subseteq 1..TotalRows
    BY <1>1 DEF SessionInv, SessionTypes, PublicTypes
  <2>. QED BY <1>1, <1>2, <2>1, <2>2, SettlesKeepsSession
<1>3. CASE ~IsClosing
  <2>1. pendingEof \in BOOLEAN
    BY DEF SessionInv, SessionTypes, PublicTypes
  <2>2. /\ Publish(pages[NextIndex], IF at = "stored" THEN eof ELSE pendingEof)
        /\ demandState' = "open" /\ pendingEof' \in BOOLEAN
    BY <1>3, <2>1, PublishFacts DEF PageStored, PageRestored
  <2>. QED BY <1>1, <1>3, <2>2, PublishKeepsSession
<1>. QED BY <1>2, <1>3

LEMMA UnchangedKeepsSession ==
    ASSUME SessionInv, UNCHANGED queryVars
    PROVE  SessionInv'
<1>. USE DEF SessionInv, queryVars, pageVars, cursorVars, signalVars, pagingVars, publicVars, fetchVars
<1>1. SessionTypes'
  BY DEF SessionTypes, CursorTypes, PublicTypes, FetchTypes
<1>2. CallInv' /\ StateInv' /\ CloseInv'
  BY DEF CallInv, StateInv, CloseInv, Fetching, Retrying, Ending
<1>3. RowsInv' /\ EndInv'
  BY DEF RowsInv, EndInv, Fetching, Fits, IsRun
<1>4. PublishedInv'
  BY DEF PublishedInv, Released, NextIndex, Fits, IsRun, IsClosing, Size
<1>. QED BY <1>1, <1>2, <1>3, <1>4

LEMMA SessionHolds ==
    ASSUME QueryAssumption, StoreInv, SessionInv, [QueryNext]_queryVars
    PROVE  SessionInv'
<1>1. CASE DemandPage
  BY <1>1, DemandKeepsSession
<1>2. CASE BatchPulled \/ EndPulled
  BY <1>2, BatchKeepsSession, EndKeepsSession
<1>3. CASE PullFails
  <2>1. PICK bad \in BOOLEAN : PageFetchFails(bad, FALSE, eof)
    BY <1>3 DEF PullFails
  <2>2. /\ at \in {"next", "probe"} /\ UNCHANGED <<pageVars, cursorVars, publicVars, remainder, closing, asked>>
    BY <1>3 DEF PullFails
  <2>3. DOMAIN files' \subseteq 1..TotalRows
    BY <2>2 DEF pageVars, SessionInv, SessionTypes, PublicTypes
  <2>. QED BY <2>1, <2>2, <2>3, FailureKeepsSession DEF pageVars
<1>4. CASE ConversionFails
  <2>1. /\ at = "convert" /\ PageFetchFails(TRUE, FALSE, eof)
        /\ UNCHANGED <<pageVars, cursorVars, publicVars, remainder, closing, asked>>
    BY <1>4 DEF ConversionFails
  <2>2. DOMAIN files' \subseteq 1..TotalRows
    BY <2>1 DEF pageVars, SessionInv, SessionTypes, PublicTypes
  <2>. QED BY <2>1, <2>2, FailureKeepsSession DEF pageVars
<1>5. CASE DemandRefused \/ ReturnedTerminal \/ FetchStarts \/ RetryStarts \/ CancelledTerminal
  BY <1>5, RefusalKeepsSession, FetchKeepsSession, RetryKeepsSession, ReturnKeepsSession
<1>6. CASE Converted \/ PageWritten \/ PageRewritten \/ PageStored \/ PageRestored
  BY <1>6, ConvertedKeepsSession, WrittenKeepsSession, RewrittenKeepsSession, StoredKeepsSession
<1>7. CASE ReadPages \/ FilesRead \/ StoreStep
  BY <1>7, ReadsKeepSession
<1>8. CASE CloseQuery \/ CloseQueryStep \/ CursorAnswers
  BY <1>8, CloseKeepsSession
<1>9. CASE Rest \/ UNCHANGED queryVars
  BY <1>9, UnchangedKeepsSession DEF Rest
<1>. QED BY <1>1, <1>2, <1>3, <1>4, <1>5, <1>6, <1>7, <1>8, <1>9 DEF QueryNext, Pulled, PageDemandStep

-----------------------------------------------------------------------------
(* The theorems.                                                           *)

LEMMA HoldsAtFirst ==
    ASSUME StoreAssumption, QueryAssumption, QueryInit
    PROVE  StoreInv /\ SessionInv
<1>. USE DEF QueryInit, StoreInit
<1>1. StoreInv
  <2>1. DOMAIN pages = {} /\ DOMAIN decoded = {} /\ DOMAIN RowsOfPages = {}
    BY DEF RowsOfPages
  <2>2. BytesOf(decoded, DOMAIN decoded) = 0 /\ BytesOf(RowsOfPages, DOMAIN pages) = 0
    BY <2>1, BytesOfNone
  <2>3. PagesInv
    BY <2>1, <2>2 DEF PagesInv
  <2>4. CacheInv
    BY <2>1, <2>2 DEF CacheInv, Orders, StoreAssumption
  <2>5. FilesInv
    BY <2>1 DEF FilesInv, StoreAssumption
  <2>6. DisposalInv
    BY DEF DisposalInv
  <2>. QED BY <2>3, <2>4, <2>5, <2>6 DEF StoreInv
<1>2. SessionTypes
  <2>1. CursorTypes /\ PublicTypes
    <3>1. DOMAIN files = {} /\ summaries \in Seq([start : 0..TotalRows, count : 1..TotalRows])
      OBVIOUS
    <3>2. total \in 0..TotalRows /\ pulled \in 0..total /\ loadedRows \in 0..TotalRows /\ asked \in 0..MaxPageDemands
      BY DEF QueryAssumption
    <3>. QED BY <3>1, <3>2 DEF CursorTypes, PublicTypes
  <2>2. FetchTypes
    <3>1. /\ remainder \in Seq(1..TotalRows) /\ taken \in Seq(1..TotalRows) /\ demands \in Seq(PageCalls)
          /\ Len(taken) <= MaxTarget
      BY EmptySeq DEF QueryAssumption
    <3>. QED BY <3>1 DEF FetchTypes
  <2>. QED BY <2>1, <2>2 DEF SessionTypes
<1>3. CallInv /\ StateInv /\ CloseInv
  BY DEF CallInv, StateInv, CloseInv, Fetching, Retrying, Ending
<1>4. RowsInv /\ EndInv
  BY DEF RowsInv, EndInv, Fetching, IsRun
<1>5. PublishedInv
  BY DEF PublishedInv, NextIndex, Released
<1>. QED BY <1>1, <1>2, <1>3, <1>4, <1>5 DEF SessionInv

\* The inductive invariant, of the store and of the session, holds in every behaviour.
THEOREM InvariantHolds ==
    ASSUME StoreAssumption, QueryAssumption PROVE QuerySpec => [](StoreInv /\ SessionInv)
<1>1. QueryInit => StoreInv /\ SessionInv
  BY HoldsAtFirst
<1>2. StoreInv /\ SessionInv /\ [QueryNext]_queryVars => (StoreInv /\ SessionInv)'
  BY StoreHolds, SessionHolds
<1>. QED BY <1>1, <1>2, PTL DEF QuerySpec

\* The state is well typed, and the cache's and the store's byte counts are those of their
\* pages, within the limit but for pinned pages: however reads of the same page, evictions,
\* pins, failed writes and the disposal overlap.
THEOREM CacheIsAccounted ==
    ASSUME StoreAssumption, QueryAssumption PROVE QuerySpec => []CacheAccounted
<1>1. StoreInv /\ SessionInv => CacheAccounted
  <2>. SUFFICES ASSUME StoreInv, SessionInv PROVE CacheAccounted
    OBVIOUS
  <2>. USE DEF StoreInv, SessionInv
  <2>1. /\ TotalRows \in Nat /\ storedBytes \in Nat /\ decodedBytes \in Nat /\ decodedBytes <= storedBytes
    BY PagesAreFinite, CacheIsPart DEF QueryAssumption
  <2>2. storedBytes <= TotalRows
    <3>1. /\ loadedRows \in Nat /\ pulled \in Nat /\ total \in Nat /\ pulled <= total /\ total <= TotalRows
          /\ Len(remainder) \in Nat /\ loadedRows + Len(remainder) <= pulled
      BY DEF SessionTypes, CursorTypes, PublicTypes, FetchTypes, QueryAssumption, RowsInv
    <3>2. CASE Released
      BY <2>1, <3>2 DEF Released, DisposalInv
    <3>3. CASE ~Released /\ NextIndex \in DOMAIN pages
      <4>1. /\ storedBytes = loadedRows + Size(pages[NextIndex])
            /\ pulled = loadedRows + Len(pages[NextIndex].rows) + Len(remainder)
        BY <3>3 DEF PublishedInv, Fits
      <4>2. Size(pages[NextIndex]) = Len(pages[NextIndex].rows) /\ Len(pages[NextIndex].rows) \in Nat
        BY <3>3, PagesAreFinite, <2>1 DEF Size
      <4>. QED BY <2>1, <3>1, <4>1, <4>2
    <3>4. CASE ~Released /\ NextIndex \notin DOMAIN pages
      BY <2>1, <3>1, <3>4 DEF PublishedInv
    <3>. QED BY <3>2, <3>3, <3>4
  <2>3. usedBefore \subseteq (DOMAIN decoded) \X (DOMAIN decoded)
    BY DEF CacheInv, Orders
  <2>4. reading \in [Readers -> SUBSET (1..TotalRows)]
    BY DEF PagesInv
  <2>5. QueryTypeOK
    <3>1. decodedBytes \in 0..TotalRows /\ storedBytes \in 0..TotalRows
      BY <2>1, <2>2
    <3>2. persistent \in BOOLEAN /\ DOMAIN pages \subseteq 1..TotalRows
          /\ disposal \in {"no", "waiting", "removing", "done"}
      BY DEF FilesInv, PagesInv, DisposalInv
    <3>. QED BY <2>3, <2>4, <3>1, <3>2 DEF QueryTypeOK, SessionTypes, CursorTypes, PublicTypes, FetchTypes
  <2>6. persistent \/ \A i \in DOMAIN pages : Cached(i)
    BY DEF FilesInv, Cached
  <2>. QED BY <2>5, <2>6 DEF CacheAccounted, CacheInv, PagesInv, RowsOfPages
<1>. QED BY <1>1, InvariantHolds, PTL

\* No row is lost between two pages, whatever batches the cursor answers with, whichever
\* writes fail and whenever pages are retried; and a page waits for a retry exactly while
\* the session offers it.
THEOREM NoRowIsLost ==
    ASSUME StoreAssumption, QueryAssumption PROVE QuerySpec => []RowsConserved
<1>1. StoreInv /\ SessionInv => RowsConserved
  <2>. SUFFICES ASSUME StoreInv, SessionInv, demandState \in {"open", "retry"}
                PROVE  /\ pulled = loadedRows
                                     + (IF pending # NoPage THEN Size(pending)
                                        ELSE IF at = "restored" THEN Size(pages[NextIndex]) ELSE Len(taken))
                                     + Len(remainder)
                       /\ (demandState = "retry") <=> (pending # NoPage \/ at = "restored")
    BY DEF RowsConserved
  <2>. USE DEF SessionInv
  <2>1. (demandState = "retry") <=> (pending # NoPage \/ at = "restored")
    BY DEF StateInv, CallInv, Retrying
  <2>2. CASE pending # NoPage
    BY <2>1, <2>2 DEF RowsInv, Fits, Size
  <2>3. CASE pending = NoPage /\ at = "restored"
    BY <2>1, <2>3, PublishFacts
  <2>4. CASE pending = NoPage /\ at # "restored"
    <3>1. demandState = "open" /\ (Fetching \/ at = "idle")
      BY <2>1, <2>4 DEF CallInv, Fetching, Retrying, Ending, SessionTypes, FetchTypes
    <3>2. at = "idle" => taken = << >>
      BY DEF RowsInv
    <3>3. loadedRows \in Nat /\ Len(remainder) \in Nat
      BY DEF SessionTypes, PublicTypes, FetchTypes
    <3>. QED BY <2>1, <2>4, <3>1, <3>2, <3>3 DEF RowsInv
  <2>. QED BY <2>1, <2>2, <2>3, <2>4
<1>. QED BY <1>1, InvariantHolds, PTL

\* The cursor is asked only while it has more to say and has not been given back, nothing
\* uses it or the store once close() has given it back, and a closed session has no read in
\* flight and keeps no page.
THEOREM ClosingReleases ==
    ASSUME StoreAssumption, QueryAssumption PROVE QuerySpec => []CloseReleases
<1>1. StoreInv /\ SessionInv => CloseReleases
  BY DEF StoreInv, SessionInv, DisposalInv, CallInv, CloseInv, Fetching, CloseReleases
<1>. QED BY <1>1, InvariantHolds, PTL

-----------------------------------------------------------------------------
(* The session implements PagedResult.                                     *)

\* What a reader is shown of the rows 1..total: the stored pages, read from the cache or
\* from their files.
Shown == [i \in 1..Len(summaries) |-> [start |-> summaries[i].start, rows |-> pages[i].rows]]
Source == [n \in 1..total |-> n]

LEMMA ReadersSeeThePages ==
    ASSUME StoreInv, SessionInv, ~Released
    PROVE  [i \in DOMAIN summaries |-> [start |-> summaries[i].start, rows |-> PageContents(i)]] = Shown
<1>1. \A i \in DOMAIN pages : PageContents(i) = pages[i].rows
  <2>. TAKE i \in DOMAIN pages
  <2>1. Cached(i) => decoded[i] = pages[i].rows
    BY DEF StoreInv, CacheInv, Cached
  <2>2. ~Cached(i) => i \in DOMAIN files /\ files[i] = pages[i].rows
    BY DEF StoreInv, FilesInv, Cached
  <2>. QED BY <2>1, <2>2 DEF PageContents
<1>2. DOMAIN summaries = 1..Len(summaries) /\ 1..Len(summaries) \subseteq DOMAIN pages
  BY DEF SessionInv, SessionTypes, PublicTypes, PublishedInv
<1>. QED BY <1>1, <1>2 DEF Shown

\* Every step shows the same, publishes one page, completes an empty result or releases it.
LEMMA StepShows ==
    ASSUME QueryAssumption, StoreInv, SessionInv, [QueryNext]_queryVars
    PROVE  /\ total' = total
           /\ \/ /\ UNCHANGED <<summaries, complete>> /\ Released' = Released
                 /\ ~Released => \A i \in 1..Len(summaries) : pages'[i] = pages[i]
              \/ /\ at \in {"stored", "restored"} /\ ~IsClosing /\ pages' = pages /\ Released' = Released
                 /\ Publish(pages[NextIndex], IF at = "stored" THEN eof ELSE pendingEof)
              \/ /\ summaries = << >> /\ total = 0 /\ ~Released /\ ~Released' /\ complete' = TRUE
                 /\ UNCHANGED summaries
              \/ ~Released /\ Released' /\ UNCHANGED <<summaries, complete>>
<1>. USE DEF Released, publicVars, cursorVars, pagingVars
<1>1. CASE ReadPages \/ FilesRead
  BY <1>1 DEF ReadPages, FilesRead, FileRead, Get, Materialize, Read, Pin, othersUnchanged
<1>2. CASE StoreStep
  BY <1>2 DEF StoreStep, StoreClears, StoreRemoves, othersUnchanged
<1>3. CASE PageStored \/ PageRestored
  <2>1. /\ at \in {"stored", "restored"} /\ UNCHANGED <<pages, disposal, cursorVars>>
    BY <1>3 DEF PageStored, PageRestored
  <2>2. CASE IsClosing
    BY <1>3, <2>1, <2>2 DEF PageStored, PageRestored
  <2>3. CASE ~IsClosing
    BY <1>3, <2>1, <2>3 DEF PageStored, PageRestored
  <2>. QED BY <2>2, <2>3
<1>4. ASSUME NEW page, NextIndex \notin 1..Len(summaries), Accept(NextIndex, page)
      PROVE  1..Len(summaries) \subseteq DOMAIN pages
                => \A i \in 1..Len(summaries) : pages'[i] = pages[i]
  BY <1>4 DEF Accept, With
<1>5. /\ NextIndex \notin 1..Len(summaries)
      /\ ~Released => 1..Len(summaries) \subseteq DOMAIN pages
  BY DEF NextIndex, SessionInv, SessionTypes, PublicTypes, PublishedInv
<1>6. CASE PageWritten
  <2>1. UNCHANGED <<disposal, cursorVars, publicVars>>
    BY <1>6 DEF PageWritten
  <2>2. (\E page : Accept(NextIndex, page)) \/ UNCHANGED pages
    BY <1>6 DEF PageWritten, PutWritten, PutFails
  <2>. QED BY <1>4, <1>5, <2>1, <2>2
<1>7. CASE PageRewritten
  <2>1. UNCHANGED <<disposal, cursorVars, publicVars>>
    BY <1>7 DEF PageRewritten
  <2>2. (\E page : Accept(NextIndex, page)) \/ UNCHANGED pages
    BY <1>7 DEF PageRewritten, RetryWritten
  <2>. QED BY <1>4, <1>5, <2>1, <2>2
<1>8. CASE Converted
  <2>1. at = "convert" /\ UNCHANGED <<persistent, pinned, disposal, reading, cursorVars, remainder, closing, asked>>
    BY <1>8 DEF Converted
  <2>2. CASE /\ taken = << >> /\ complete' = TRUE /\ storeComplete' = TRUE /\ Settles
             /\ UNCHANGED <<pages, storedBytes, decoded, usedBefore, decodedBytes, pending, files,
                            summaries, loadedRows, demandState, pendingEof, signalVars>>
    BY <2>1, <2>2, EmptyKeepsSession
  <2>3. CASE UNCHANGED publicVars /\ (PutInMemory(NextIndex, NextPage) \/ UNCHANGED pages)
    <3>1. (\E page : Accept(NextIndex, page)) \/ UNCHANGED pages
      BY <2>3 DEF PutInMemory
    <3>. QED BY <1>4, <1>5, <2>1, <2>3, <3>1
  <2>. QED BY <1>8, <2>2, <2>3 DEF Converted, pageVars
<1>9. CASE \/ DemandPage \/ Pulled \/ CloseQuery \/ CursorAnswers \/ Rest \/ CloseQueryStep
           \/ DemandRefused \/ FetchStarts \/ RetryStarts \/ ConversionFails
           \/ CancelledTerminal \/ ReturnedTerminal \/ UNCHANGED queryVars
  <2>1. UNCHANGED <<pages, total, summaries, complete>>
    BY <1>9 DEF DemandPage, Pulled, BatchPulled, EndPulled, PullFails, CloseQuery, CursorAnswers, CancelAnswers, ReturnAnswers,
                Rest, CloseQueryStep, CloseJoinsTail, CloseReturnsReader, CloseDisposesStore, Closed, DemandRefused,
                FetchStarts, RetryStarts, ConversionFails, CancelledTerminal, ReturnedTerminal, pageVars, queryVars
  <2>2. disposal' = disposal \/ (disposal = "no" /\ disposal' = "waiting")
    BY <1>9 DEF DemandPage, Pulled, BatchPulled, EndPulled, PullFails, CloseQuery, CursorAnswers, CancelAnswers, ReturnAnswers,
                Rest, CloseQueryStep, CloseJoinsTail, CloseReturnsReader, CloseDisposesStore, StoreDisposes, Closed,
                DemandRefused, FetchStarts, RetryStarts, ConversionFails, CancelledTerminal, ReturnedTerminal,
                pageVars, queryVars
  <2>. QED BY <2>1, <2>2
<1>. QED BY <1>1, <1>2, <1>3, <1>6, <1>7, <1>8, <1>9 DEF QueryNext, PageDemandStep

Published == IF Released THEN << >>
             ELSE [i \in DOMAIN summaries |-> [start |-> summaries[i].start, rows |-> PageContents(i)]]

PublishedPages == [start : 0..TotalRows, rows : Seq(1..TotalRows)]

LEMMA FunctionIsSeq ==
    ASSUME NEW S, NEW n \in Nat, NEW f \in [1..n -> S]
    PROVE  f \in Seq(S) /\ Len(f) = n
  OBVIOUS

LEMMA PublishedIsShown ==
    ASSUME QueryAssumption, StoreInv, SessionInv, ~Released
    PROVE  /\ Published = Shown /\ Shown \in Seq(PublishedPages) /\ Len(Shown) = Len(summaries)
           /\ Shown = << >> <=> summaries = << >>
           /\ Result!Loaded = loadedRows
<1>. USE DEF SessionInv
<1>1. Published = Shown
  BY ReadersSeeThePages DEF Published
<1>2. /\ summaries \in Seq([start : 0..TotalRows, count : 1..TotalRows]) /\ Len(summaries) \in Nat
      /\ \A i \in 1..Len(summaries) : summaries[i].start \in 0..TotalRows
      /\ \A i \in 1..Len(summaries) : pages[i].rows \in Seq(1..TotalRows)
      /\ \A i \in 1..Len(summaries) : Len(pages[i].rows) = summaries[i].count
  <2>1. summaries \in Seq([start : 0..TotalRows, count : 1..TotalRows])
    BY DEF SessionTypes, PublicTypes
  <2>2. 1..Len(summaries) \subseteq DOMAIN pages
        /\ \A i \in 1..Len(summaries) : Len(pages[i].rows) = summaries[i].count
    BY DEF PublishedInv, Size
  <2>3. \A i \in 1..Len(summaries) : summaries[i] \in [start : 0..TotalRows, count : 1..TotalRows]
    BY <2>1, ElementOfSeq
  <2>4. \A i \in 1..Len(summaries) : pages[i].rows \in Seq(1..TotalRows)
    BY <2>2 DEF StoreInv, PagesInv
  <2>. QED BY <2>1, <2>2, <2>3, <2>4
<1>3. Shown \in Seq(PublishedPages) /\ Len(Shown) = Len(summaries)
  <2>1. Shown \in [1..Len(summaries) -> PublishedPages]
    BY <1>2 DEF Shown, PublishedPages
  <2>. QED BY <1>2, <2>1, Zenon, FunctionIsSeq
<1>4. Shown = << >> <=> summaries = << >>
  BY <1>2, <1>3, EmptySeq
<1>5. Result!Loaded = IF Published = << >> THEN 0
                      ELSE Published[Len(Published)].start + Len(Published[Len(Published)].rows)
  BY DEF Result!Loaded, Published
<1>6. CASE summaries = << >>
  BY <1>1, <1>4, <1>5, <1>6 DEF PublishedInv
<1>7. CASE summaries # << >>
  <2>1. Len(summaries) \in 1..Len(summaries)
    BY <1>2, <1>7, EmptySeq
  <2>2. /\ Shown[Len(summaries)].start = summaries[Len(summaries)].start
        /\ Shown[Len(summaries)].rows = pages[Len(summaries)].rows
    BY <2>1 DEF Shown
  <2>3. Len(pages[Len(summaries)].rows) = summaries[Len(summaries)].count
    BY <1>2, <2>1
  <2>. QED BY <1>1, <1>3, <1>4, <1>5, <1>7, <2>2, <2>3 DEF PublishedInv
<1>. QED BY <1>1, <1>3, <1>4, <1>6, <1>7

LEMMA SourceIsRun ==
    ASSUME NEW n \in Nat, NEW from \in Nat, NEW rows, IsRun(rows, from), from + Len(rows) <= total, total \in Nat
    PROVE  Len(Source) = total /\ SubSeq(Source, from + 1, from + Len(rows)) = rows
<1>1. Source \in Seq(Nat) /\ Len(Source) = total /\ \A k \in 1..total : Source[k] = k
  <2>1. Source \in [1..total -> Nat] /\ Source = [k \in 1..total |-> k]
    BY DEF Source
  <2>. QED BY <2>1, LenProperties
<1>2. rows \in Seq(1..TotalRows) /\ Len(rows) \in Nat /\ \A k \in 1..Len(rows) : rows[k] = from + k
  BY DEF IsRun
<1>3. \A k \in (from + 1)..(from + Len(rows)) : Source[k] \in Nat
  BY <1>1, <1>2
<1>4. /\ SubSeq(Source, from + 1, from + Len(rows)) \in Seq(Nat)
      /\ Len(SubSeq(Source, from + 1, from + Len(rows)))
           = IF from + 1 <= from + Len(rows) THEN from + Len(rows) - (from + 1) + 1 ELSE 0
      /\ \A k \in 1..(from + Len(rows) - (from + 1) + 1) :
             SubSeq(Source, from + 1, from + Len(rows))[k] = Source[from + 1 + k - 1]
  BY <1>2, <1>3, SubSeqProperties
<1>. DEFINE cut == SubSeq(Source, from + 1, from + Len(rows))
<1>5. Len(cut) = Len(rows)
  BY <1>2, <1>4
<1>6. \A k \in 1..Len(rows) : cut[k] = rows[k]
  <2>. TAKE k \in 1..Len(rows)
  <2>1. k \in 1..(from + Len(rows) - (from + 1) + 1) /\ from + 1 + k - 1 = from + k /\ from + k \in 1..total
    BY <1>2
  <2>2. cut[k] = Source[from + k]
    BY <1>4, <2>1
  <2>. QED BY <1>1, <1>2, <2>1, <2>2
<1>7. rows \in Seq(Nat)
  <2>1. rows \in [1..Len(rows) -> 1..TotalRows]
    BY <1>2, LenProperties
  <2>. QED BY <1>2, <2>1
<1>8. cut \in Seq(Nat)
  BY <1>4
<1>. HIDE DEF cut
<1>9. cut = rows
  BY <1>5, <1>6, <1>7, <1>8, SeqEqual
<1>. QED BY <1>1, <1>9 DEF cut

\* The session's Publish is PagedResult's: the page follows those published, holds the next
\* rows of the cursor, and is published as the last one exactly when it is.
LEMMA PublishIsPaged ==
    ASSUME QueryAssumption, StoreInv, SessionInv, StoreInv', SessionInv',
           at \in {"stored", "restored"}, ~IsClosing, total' = total, pages' = pages, Released' = Released,
           Publish(pages[NextIndex], IF at = "stored" THEN eof ELSE pendingEof)
    PROVE  Result!Publish
<1>. DEFINE page == pages[NextIndex]
            last == IF at = "stored" THEN eof ELSE pendingEof
            shownPage == [start |-> loadedRows, rows |-> page.rows]
<1>1. /\ Fits(page) /\ Size(page) \in Nat \ {0} /\ loadedRows + Size(page) \in 1..total
      /\ loadedRows \in Nat /\ total \in Nat /\ ~Released /\ ~complete
      /\ last <=> loadedRows + Size(page) = total
  <2>1. ~complete
    BY DEF SessionInv, CallInv
  <2>2. at = "stored" \/ at = "restored"
    OBVIOUS
  <2>. QED BY <2>1, <2>2, PublishFacts
<1>2. /\ summaries' = Append(summaries, [start |-> page.start, count |-> Size(page)])
      /\ loadedRows' = loadedRows + Size(page) /\ complete' = last
  BY DEF Publish
<1>3. last \in BOOLEAN
  BY DEF SessionInv, SessionTypes, PublicTypes, FetchTypes
<1>. HIDE DEF page, last
<1>4. page.start = loadedRows /\ IsRun(page.rows, loadedRows) /\ Len(page.rows) = Size(page)
  BY <1>1 DEF Fits, Size
<1>5. page.rows \in Seq(1..TotalRows)
  BY <1>4 DEF IsRun
<1>6. Len(Source) = total /\ SubSeq(Source, loadedRows + 1, loadedRows + Size(page)) = page.rows
  <2>1. loadedRows + Len(page.rows) <= total
    BY <1>1, <1>4, SMTT(30)
  <2>. QED BY <1>1, <1>4, <2>1, SourceIsRun
<1>7. /\ Published = Shown /\ Shown \in Seq(PublishedPages) /\ Len(Shown) = Len(summaries)
      /\ Result!Loaded = loadedRows
  BY <1>1, PublishedIsShown
<1>8. /\ Published' = Shown' /\ Shown' \in Seq(PublishedPages) /\ Len(Shown') = Len(summaries')
      /\ Result!Loaded' = loadedRows'
  <2>1. ~Released'
    BY <1>1
  <2>2. (/\ Published = Shown /\ Shown \in Seq(PublishedPages) /\ Len(Shown) = Len(summaries)
         /\ Result!Loaded = loadedRows)'
    BY <2>1, PublishedIsShown, PTL
  <2>. QED BY <2>2
<1>9. Published' = Append(Published, shownPage)
  <2>1. /\ Len(summaries) \in Nat /\ NextIndex = Len(summaries) + 1 /\ Len(summaries') = NextIndex
        /\ \A i \in 1..Len(summaries) : summaries'[i] = summaries[i]
        /\ summaries'[NextIndex] = [start |-> page.start, count |-> Size(page)]
    <3>1. summaries \in Seq([start : 0..TotalRows, count : 1..TotalRows])
          /\ TotalRows \in Nat /\ total \in 0..TotalRows
      BY DEF SessionInv, SessionTypes, CursorTypes, PublicTypes, QueryAssumption
    <3>2. [start |-> page.start, count |-> Size(page)] \in [start : 0..TotalRows, count : 1..TotalRows]
      BY <1>1, <1>4, <3>1
    <3>. QED BY <1>2, <3>1, <3>2, AppendProperties DEF NextIndex
  <2>2. shownPage \in PublishedPages
    <3>1. loadedRows \in 0..TotalRows
      BY DEF SessionInv, SessionTypes, PublicTypes
    <3>. QED BY <1>5, <3>1 DEF PublishedPages
  <2>3. /\ Append(Shown, shownPage) \in Seq(PublishedPages)
        /\ Len(Append(Shown, shownPage)) = Len(Shown) + 1
        /\ \A i \in 1..Len(Shown) : Append(Shown, shownPage)[i] = Shown[i]
        /\ Append(Shown, shownPage)[Len(Shown) + 1] = shownPage
    <3>. HIDE DEF shownPage
    <3>. QED BY <1>7, <2>2, AppendProperties
  <2>4. ASSUME NEW i \in 1..Len(Shown') PROVE Shown'[i] = Append(Shown, shownPage)[i]
    <3>1. Shown'[i] = [start |-> summaries'[i].start, rows |-> pages[i].rows]
      BY <1>8, <2>4 DEF Shown
    <3>2. CASE i = NextIndex
      BY <1>4, <1>7, <2>1, <2>3, <3>1, <3>2 DEF page
    <3>3. CASE i # NextIndex
      <4>1. i \in 1..Len(summaries)
        BY <1>8, <2>1, <2>4, <3>3
      <4>2. Shown[i] = [start |-> summaries[i].start, rows |-> pages[i].rows]
        BY <4>1 DEF Shown
      <4>. QED BY <1>7, <2>1, <2>3, <3>1, <4>1, <4>2
    <3>. QED BY <3>2, <3>3
  <2>5. Len(Shown') = Len(Append(Shown, shownPage))
    BY <1>7, <1>8, <2>1, <2>3
  <2>. HIDE DEF shownPage
  <2>6. Shown' = Append(Shown, shownPage)
    BY <1>8, <2>3, <2>4, <2>5, SeqEqual
  <2>. QED BY <1>7, <1>8, <2>6
<1>10. \E n \in 1..(Len(Source) - Result!Loaded) :
          Published' = Append(Published, [start |-> Result!Loaded,
                                          rows |-> SubSeq(Source, Result!Loaded + 1, Result!Loaded + n)])
  <2>1. Size(page) \in 1..(Len(Source) - Result!Loaded)
    BY <1>1, <1>6, <1>7
  <2>2. Published' = Append(Published, [start |-> Result!Loaded,
                        rows |-> SubSeq(Source, Result!Loaded + 1, Result!Loaded + Size(page))])
    BY <1>6, <1>7, <1>9
  <2>. QED BY <2>1, <2>2
<1>11. complete' = (Result!Loaded' = Len(Source))
  BY <1>1, <1>2, <1>3, <1>6, <1>8
<1>12. Source' = Source
  BY DEF Source
<1>. QED BY <1>1, <1>10, <1>11, <1>12 DEF Result!Publish, Source, Published

LEMMA StepIsPaged ==
    ASSUME QueryAssumption, StoreInv, SessionInv, StoreInv', SessionInv', [QueryNext]_queryVars
    PROVE  [Result!Next]_(Result!vars)
<1>1. total' = total /\ Source' = Source
  BY StepShows DEF Source
<1>2. CASE /\ UNCHANGED <<summaries, complete>> /\ Released' = Released
           /\ ~Released => \A i \in 1..Len(summaries) : pages'[i] = pages[i]
  <2>1. Published' = Published
    <3>1. CASE Released
      BY <1>2, <3>1 DEF Published
    <3>2. CASE ~Released
      <4>1. Shown' = Shown
        BY <1>2, <3>2 DEF Shown
      <4>2. Published = Shown
        BY <3>2, PublishedIsShown
      <4>3. ~Released'
        BY <1>2, <3>2
      <4>4. (Published = Shown)'
        BY <4>3, PublishedIsShown, PTL
      <4>. QED BY <4>1, <4>2, <4>4
    <3>. QED BY <3>1, <3>2
  <2>. QED BY <1>1, <1>2, <2>1 DEF Result!vars, Source, Published
<1>3. CASE /\ at \in {"stored", "restored"} /\ ~IsClosing /\ pages' = pages /\ Released' = Released
           /\ Publish(pages[NextIndex], IF at = "stored" THEN eof ELSE pendingEof)
  <2>1. Result!Publish
    BY <1>1, <1>3, PublishIsPaged
  <2>. QED BY <2>1 DEF Result!Next
<1>4. CASE /\ summaries = << >> /\ total = 0 /\ ~Released /\ ~Released' /\ complete' = TRUE
           /\ UNCHANGED summaries
  <2>1. Published = << >> /\ Published' = << >>
    <3>1. Published = << >>
      BY <1>4, PublishedIsShown
    <3>2. (~Released /\ summaries = << >> => Published = << >>)'
      <4>1. (~Released => Published = Shown /\ (Shown = << >> <=> summaries = << >>))'
        BY PublishedIsShown, PTL
      <4>. QED BY <4>1
    <3>. QED BY <1>4, <3>1, <3>2
  <2>2. Source = << >>
    <3>1. Source \in [1..0 -> Nat]
      BY <1>4 DEF Source
    <3>2. Source \in Seq(Nat) /\ Len(Source) = 0
      BY <3>1, FunctionIsSeq
    <3>. QED BY <3>2, EmptySeq
  <2>3. Result!CompleteEmpty
    <3>1. Released' = Released
      BY <1>4 DEF Released
    <3>2. Published' = Published /\ Source' = Source
      BY <1>1, <2>1
    <3>. QED BY <1>4, <2>1, <2>2, <3>1, <3>2, Zenon DEF Result!CompleteEmpty, Source, Published
  <2>. QED BY <2>3 DEF Result!Next
<1>5. CASE ~Released /\ Released' /\ UNCHANGED <<summaries, complete>>
  <2>1. Released' = TRUE
    BY <1>5 DEF Released
  <2>2. Published' = << >>
    BY <1>5 DEF Published
  <2>3. Result!Release
    BY <1>1, <1>5, <2>1, <2>2 DEF Result!Release, Source, Published
  <2>. QED BY <2>3 DEF Result!Next
<1>. QED BY <1>2, <1>3, <1>4, <1>5, StepShows

\* The session implements PagedResult: whatever pulls, writes and retries fail and whatever
\* the cache has evicted and read again, the pages its readers get hold the cursor's rows in
\* order, each once, and the last one is known to be the last when it is published.
THEOREM SessionIsPaged ==
    ASSUME StoreAssumption, QueryAssumption PROVE QuerySpec => ResultIsPaged
<1>1. QueryInit => Result!Init
  <2>. SUFFICES ASSUME QueryInit PROVE Result!Init
    OBVIOUS
  <2>1. StoreInv /\ SessionInv /\ ~Released /\ summaries = << >>
    BY HoldsAtFirst DEF Released, QueryInit, StoreInit
  <2>2. Published = << >>
    BY <2>1, PublishedIsShown
  <2>3. Released = FALSE /\ complete = FALSE
    BY <2>1 DEF QueryInit, Released
  <2>. QED BY <2>2, <2>3 DEF Result!Init, Published
<1>2. StoreInv /\ SessionInv /\ (StoreInv /\ SessionInv)' /\ [QueryNext]_queryVars => [Result!Next]_(Result!vars)
  BY StepIsPaged
<1>. QED BY <1>1, <1>2, InvariantHolds, PTL DEF QuerySpec, ResultIsPaged, Result!Spec
================================================================================
