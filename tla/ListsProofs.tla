---------------------------- MODULE ListsProofs ----------------------------
(***************************************************************************)
(* Theorems about a walk over the pages of a list, for tables, pages and   *)
(* walks of any size and any number of writes.                             *)
(***************************************************************************)
EXTENDS Lists, FiniteSetTheorems, TLAPS

-----------------------------------------------------------------------------
(* The inductive invariant.  Where a row stands in the list is the number  *)
(* of rows that precede it.                                                *)

Ahead(i) == {j \in Matching : Precedes(j, i)}
Rank(i) == Cardinality(Ahead(i))

\* No two rows of S compare equal.
Apart(S) == \A i, j \in S : i # j => Column(i) # Column(j)

\* Rows that kept their place, were not shown and stand on a page that was.
Passed == {i \in Steady : shown[i] = 0 /\ Rank(i) < Offset}

\* Rows that kept their place, were shown and stand on a page that was not.
Returned == {i \in Steady : shown[i] > 0 /\ Rank(i) >= Offset}

\* Every time a row was shown.
Shown == {p \in Id \X (1 .. page) : p[2] <= shown[p[1]]}

\* What the pages before this one hold of the table.
Covered == IF Offset < Cardinality(Matching) THEN Offset ELSE Cardinality(Matching)

CountsOK ==
    /\ pc # "done" => \A i \in Id : shown[i] < page
    /\ writes.gone <= writes.n /\ writes.come <= writes.n /\ writes.late <= writes.n
    /\ pc = "page" => Cardinality(Matching) <= total + writes.late

\* Rows that kept their place have been compared since the first page.
SteadyApart == (page > 1 /\ ~writes.tied) => Apart(Steady)

\* A row that leaves pulls at most one row over the edge of the pages shown, and one
\* that enters pushes at most one back.
Shifts ==
    (pc # "done" /\ ~writes.tied) =>
        /\ Cardinality(Passed) <= writes.gone
        /\ Cardinality(Repeats) + Cardinality(Returned) <= writes.come

\* Over a table that nobody writes.
Unwritten ==
    writes.n = 0 =>
        /\ writes.moved = {}
        /\ \A i \in Id : shown[i] > 0 => i \in Matching
        /\ pc \in {"page", "done"} => total = Cardinality(Matching)
        /\ pc # "done" => Cardinality(Shown) = Covered
        /\ pc = "done" => Cardinality(Shown) = Cardinality(Matching)

IInv ==
    /\ TypeOK /\ CountsOK /\ SteadyApart /\ Shifts /\ Unwritten
    /\ MissedOnlyByWrites /\ RepeatedOnlyByWrites

-----------------------------------------------------------------------------
(* The rows of the list and their order.                                   *)

\* A set of n ids is finite and has at most Size of them.
LEMMA IdsFinite ==
  /\ IsFiniteSet(Id) /\ Cardinality(Id) = Size
  /\ \A S \in SUBSET Id : IsFiniteSet(S) /\ Cardinality(S) \in 0 .. Size
  <1>1. IsFiniteSet(1 .. Size) /\ Cardinality(1 .. Size) = Size
    BY SizesAssumption, FS_Interval
  <1>2. ASSUME NEW S \in SUBSET Id
        PROVE  IsFiniteSet(S) /\ Cardinality(S) \in 0 .. Size
    <2>1. IsFiniteSet(S) /\ Cardinality(S) <= Size
      BY <1>1, FS_Subset DEF Id
    <2>2. Cardinality(S) \in Nat
      BY <2>1, FS_CardinalityType
    <2> QED
      BY <2>1, <2>2, SizesAssumption
  <1> QED
    BY <1>1, <1>2 DEF Id

\* The pages of a walk have at least one row, and the rows of the list a column.
LEMMA Typed ==
  ASSUME TypeOK
  PROVE  /\ params.page_size \in Nat \ {0} /\ page \in Nat \ {0}
         /\ Matching \in SUBSET Id /\ Steady \in SUBSET Matching
         /\ Cardinality(Matching) \in 0 .. Size
         /\ \A i \in Matching : Column(i) \in Nat
  <1>1. params \in Params /\ params.page_size \in Nat \ {0}
    BY AskedAssumption DEF TypeOK, Params
  <1>2. page \in Nat \ {0}
    BY DEF TypeOK
  <1>3. Matching \in SUBSET Id /\ Steady \in SUBSET Matching
    BY DEF Matching, Steady
  <1>4. ASSUME NEW i \in Matching
        PROVE  Column(i) \in Nat
    <2>1. i \in Id /\ rows[i] \in Rows /\ rows[i].state = "live"
      BY <1>4 DEF Matching, TypeOK
    <2>2. CASE params.sort_by = None
      BY <2>1, <2>2 DEF Column, Id
    <2>3. CASE params.sort_by # None
      <3>1. rows[i] \in Row
        BY <2>1 DEF Rows, NoRow
      <3>2. rows[i].field \in Value
        BY <2>3, <3>1 DEF Row
      <3> QED
        BY <2>3, <3>2, SizesAssumption DEF Column
    <2> QED
      BY <2>2, <2>3
  <1> QED
    BY <1>1, <1>2, <1>3, <1>4, IdsFinite

\* Precedes orders the rows of the list, except for rows that compare equal.
LEMMA Ordered ==
  ASSUME TypeOK
  PROVE  \A i, j, k \in Matching :
            /\ ~Precedes(i, i)
            /\ Precedes(i, j) /\ Precedes(j, k) => Precedes(i, k)
            /\ Column(i) # Column(j) => Precedes(i, j) \/ Precedes(j, i)
            /\ Precedes(i, j) => ~Precedes(j, i)
  <1> SUFFICES ASSUME NEW i \in Matching, NEW j \in Matching, NEW k \in Matching
               PROVE  /\ ~Precedes(i, i)
                      /\ Precedes(i, j) /\ Precedes(j, k) => Precedes(i, k)
                      /\ Column(i) # Column(j) => Precedes(i, j) \/ Precedes(j, i)
                      /\ Precedes(i, j) => ~Precedes(j, i)
    OBVIOUS
  <1>1. Column(i) \in Nat /\ Column(j) \in Nat /\ Column(k) \in Nat
    BY Typed
  <1> QED
    BY <1>1 DEF Precedes

\* The rows ahead of a row can be counted.
LEMMA AheadFinite ==
  ASSUME TypeOK, NEW i
  PROVE  Ahead(i) \in SUBSET Matching /\ IsFiniteSet(Ahead(i)) /\ Rank(i) \in Nat
  <1>1. Ahead(i) \in SUBSET Id
    BY DEF Ahead, Matching
  <1> QED
    BY <1>1, IdsFinite DEF Ahead, Rank

\* A row stands behind every row that precedes it.
LEMMA RanksGrow ==
  ASSUME TypeOK, NEW i \in Matching, NEW j \in Matching, Precedes(i, j)
  PROVE  Rank(i) < Rank(j)
  <1>1. i \notin Ahead(i) /\ Ahead(i) \cup {i} \in SUBSET Ahead(j)
    BY Ordered DEF Ahead
  <1>2. Cardinality(Ahead(i) \cup {i}) = Rank(i) + 1
    BY <1>1, AheadFinite, FS_AddElement DEF Rank
  <1>3. Cardinality(Ahead(i) \cup {i}) <= Rank(j)
    BY <1>1, AheadFinite, FS_Subset DEF Rank
  <1> QED
    BY <1>2, <1>3, AheadFinite

-----------------------------------------------------------------------------
(* A page.                                                                 *)

\* The first n rows are n, or all there are.
LEMMA FirstSize ==
  ASSUME TypeOK, NEW n \in Nat, NEW S \in First(n)
  PROVE  /\ S \in SUBSET Matching /\ IsFiniteSet(S) /\ Cardinality(S) \in Nat
         /\ Cardinality(S) = IF n < Cardinality(Matching) THEN n ELSE Cardinality(Matching)
  <1>1. /\ S \in SUBSET Matching
        /\ Cardinality(S) = IF n < Cardinality(Matching) THEN n ELSE Cardinality(Matching)
    BY DEF First
  <1>2. S \in SUBSET Id
    BY <1>1, Typed
  <1> QED
    BY <1>1, <1>2, IdsFinite

\* The first n rows stand in the first n places, however ties are broken.
LEMMA FirstStandFirst ==
  ASSUME TypeOK, NEW n \in Nat, NEW S \in First(n), NEW i \in S
  PROVE  Rank(i) < n
  <1>1. i \in Matching /\ \A j \in Matching \ S : ~Precedes(j, i)
    BY FirstSize DEF First
  <1>2. Ahead(i) \in SUBSET (S \ {i})
    BY <1>1, Ordered DEF Ahead
  <1>3. IsFiniteSet(S \ {i}) /\ Cardinality(S \ {i}) = Cardinality(S) - 1
    BY FirstSize, FS_RemoveElement
  <1>4. Rank(i) <= Cardinality(S \ {i})
    BY <1>2, <1>3, FS_Subset DEF Rank
  <1>5. Cardinality(S) <= n /\ Cardinality(S) \in Nat
    BY FirstSize, Typed
  <1> QED
    BY <1>3, <1>4, <1>5, AheadFinite

\* Where no rows compare equal, a row that is not among them stands behind them.
LEMMA OthersStandBehind ==
  ASSUME TypeOK, NEW n \in Nat, NEW S \in First(n), Apart(Matching), NEW i \in Matching \ S
  PROVE  Rank(i) >= n
  <1>1. S \in SUBSET Matching /\ \A s \in S : ~Precedes(i, s)
    BY FirstSize DEF First
  <1>2. S \in SUBSET Ahead(i)
    BY <1>1, Ordered DEF Ahead, Apart
  <1>3. Cardinality(S) <= Rank(i)
    BY <1>2, AheadFinite, FS_Subset DEF Rank
  <1>4. Cardinality(S) # Cardinality(Matching)
    <2>1. IsFiniteSet(Matching)
      BY Typed, IdsFinite
    <2> QED
      BY <1>1, <2>1, FS_Subset
  <1> QED
    BY <1>3, <1>4, FirstSize

\* A page holds the rows from one edge to the next.
LEMMA PageHolds ==
  ASSUME TypeOK, NEW S \in Pages
  PROVE  \E A \in First(Offset + params.page_size), B \in First(Offset) : B \subseteq A /\ S = A \ B
  BY DEF Pages, Slices

\* The offset of the next page is one page further.
LEMMA OffsetTyped ==
  ASSUME TypeOK
  PROVE  /\ Offset \in Nat /\ Offset + params.page_size \in Nat
         /\ page = 1 => Offset = 0
         /\ ((page + 1) - 1) * params.page_size = Offset + params.page_size
  <1>1. params.page_size \in Nat /\ page \in Nat /\ page >= 1
    BY Typed
  <1> DEFINE s == params.page_size
             p == page
  <1>2. s \in Nat /\ p \in Nat /\ p >= 1
    BY <1>1
  <1> HIDE DEF s, p
  <1>3. (p - 1) * s \in Nat /\ (p = 1 => (p - 1) * s = 0) /\ ((p + 1) - 1) * s = (p - 1) * s + s
    BY <1>2, SMT
  <1> QED
    BY <1>2, <1>3 DEF s, p, Offset

\* The last page the client asks for reaches the end of what was counted.
LEMMA LastPageReaches ==
  ASSUME TypeOK, ~HasNext
  PROVE  Offset + params.page_size >= total
  <1> DEFINE s == params.page_size
             p == page
             n == total
  <1>1. s \in Nat \ {0} /\ p \in Nat \ {0} /\ n \in Nat
    BY Typed DEF TypeOK
  <1>2. n = 0 \/ p >= (n + s - 1) \div s
    BY <1>1 DEF HasNext, TotalPages
  <1> HIDE DEF s, p, n
  <1>3. (p - 1) * s + s = p * s /\ p * s \in Nat
    BY <1>1, SMT
  <1>4. p >= (n + s - 1) \div s => p * s >= n
    <2> DEFINE q == (n + s - 1) \div s
               r == (n + s - 1) % s
    <2>1. n + s - 1 = s * q + r /\ r <= s - 1 /\ q \in Nat /\ r \in Nat
      BY <1>1, SMT
    <2> HIDE DEF q, r
    <2>2. p >= q => p * s >= s * q
      BY <1>1, <2>1, SMT
    <2> QED
      BY <1>1, <2>1, <2>2 DEF q
  <1>5. (p - 1) * s + s >= n
    BY <1>1, <1>2, <1>3, <1>4
  <1> QED
    BY <1>5 DEF s, p, n, Offset

-----------------------------------------------------------------------------
(* What is counted is finite.                                              *)

\* A part of two finite sets.
LEMMA PartOfTwo ==
  ASSUME NEW P, NEW Q, NEW U, IsFiniteSet(P), IsFiniteSet(Q), U \subseteq P \cup Q
  PROVE  /\ IsFiniteSet(U) /\ Cardinality(U) \in Nat
         /\ Cardinality(P) \in Nat /\ Cardinality(Q) \in Nat
         /\ Cardinality(U) <= Cardinality(P) + Cardinality(Q)
         /\ (U = P \cup Q /\ P \cap Q = {}) => Cardinality(U) = Cardinality(P) + Cardinality(Q)
  <1>1. Cardinality(P) \in Nat /\ Cardinality(Q) \in Nat
    BY FS_CardinalityType
  <1>2. IsFiniteSet(P \cap Q) /\ Cardinality(P \cap Q) \in Nat
    <2>1. IsFiniteSet(P \cap Q)
      BY FS_Intersection
    <2> QED
      BY <2>1, FS_CardinalityType
  <1>3. /\ IsFiniteSet(P \cup Q)
        /\ Cardinality(P \cup Q) = Cardinality(P) + Cardinality(Q) - Cardinality(P \cap Q)
    BY FS_Union
  <1>4. IsFiniteSet(U) /\ Cardinality(U) <= Cardinality(P \cup Q)
    BY <1>3, FS_Subset
  <1>5. Cardinality(U) \in Nat
    BY <1>4, FS_CardinalityType
  <1>6. P \cap Q = {} => Cardinality(P \cap Q) = 0
    BY FS_EmptySet
  <1>7. Cardinality(U) <= Cardinality(P) + Cardinality(Q)
    BY <1>1, <1>2, <1>3, <1>4, <1>5
  <1>8. ASSUME U = P \cup Q, P \cap Q = {}
        PROVE  Cardinality(U) = Cardinality(P) + Cardinality(Q)
    <2>1. Cardinality(P \cup Q) = Cardinality(P) + Cardinality(Q)
      BY <1>1, <1>3, <1>6, <1>8
    <2> QED
      BY <1>8, <2>1
  <1> QED
    BY <1>1, <1>4, <1>5, <1>7, <1>8

\* As many pairs as ids.
LEMMA PairUp ==
  ASSUME NEW X, IsFiniteSet(X), NEW g
  PROVE  LET T == {<<i, g[i]>> : i \in X}
         IN  IsFiniteSet(T) /\ Cardinality(T) = Cardinality(X)
  <1> DEFINE T == {<<i, g[i]>> : i \in X}
             f == [i \in X |-> <<i, g[i]>>]
  <1>1. f \in Bijection(X, T)
    <2>1. f \in [X -> T]
      OBVIOUS
    <2>2. \A i, j \in X : f[i] = f[j] => i = j
      OBVIOUS
    <2>3. \A t \in T : \E i \in X : f[i] = t
      OBVIOUS
    <2> QED
      BY <2>1, <2>2, <2>3 DEF Bijection, Injection, Surjection, IsInjective
  <1> QED
    BY <1>1, FS_Bijection DEF ExistsBijection

\* A set of ids and numbers.
LEMMA PairsFinite ==
  ASSUME NEW n \in Nat, NEW P \in SUBSET (Id \X (1 .. n))
  PROVE  IsFiniteSet(P) /\ Cardinality(P) \in Nat
  <1>1. IsFiniteSet(1 .. n)
    BY FS_Interval
  <1>2. IsFiniteSet(Id)
    BY IdsFinite
  <1>3. IsFiniteSet(Id \X (1 .. n))
    BY <1>1, <1>2, FS_Product
  <1> QED
    BY <1>3, FS_Subset, FS_CardinalityType

CountsAreFinite ==
    /\ Passed \in SUBSET Steady /\ IsFiniteSet(Passed) /\ Cardinality(Passed) \in Nat
    /\ Returned \in SUBSET Steady /\ IsFiniteSet(Returned) /\ Cardinality(Returned) \in Nat
    /\ Missed \in SUBSET Steady /\ IsFiniteSet(Missed) /\ Cardinality(Missed) \in Nat
    /\ IsFiniteSet(Repeats) /\ Cardinality(Repeats) \in Nat
    /\ IsFiniteSet(Shown) /\ Cardinality(Shown) \in Nat

\* The sets that the invariant counts are finite.
LEMMA CountsFinite == TypeOK => CountsAreFinite
  <1> SUFFICES ASSUME TypeOK PROVE CountsAreFinite
    OBVIOUS
  <1>1. \A S \in SUBSET Steady : S \in SUBSET Id
    BY Typed
  <1>2. Passed \in SUBSET Steady /\ Returned \in SUBSET Steady /\ Missed \in SUBSET Steady
    BY DEF Passed, Returned, Missed
  <1>3. page \in Nat
    BY Typed
  <1>4. Repeats \in SUBSET (Id \X (1 .. page)) /\ Shown \in SUBSET (Id \X (1 .. page))
    <2>1. Shown \in SUBSET (Id \X (1 .. page))
      BY DEF Shown
    <2>2. Steady \subseteq Id /\ (2 .. page) \subseteq (1 .. page)
      BY <1>1, <1>3
    <2>3. Repeats \subseteq (Id \X (1 .. page))
      BY <2>2 DEF Repeats
    <2> QED
      BY <2>1, <2>3
  <1> QED
    BY <1>1, <1>2, <1>3, <1>4, IdsFinite, PairsFinite DEF CountsAreFinite

\* So are they after a step.
LEMMA CountsFiniteNext == TypeOK' => CountsAreFinite'
  BY CountsFinite, PTL

-----------------------------------------------------------------------------
(* The two statements.                                                     *)

\* The counters of the writes during the walk are numbers.
LEMMA WritesTyped ==
  ASSUME TypeOK
  PROVE  /\ writes \in Writes
         /\ writes.n \in 0 .. MaxWrites /\ writes.gone \in 0 .. MaxWrites
         /\ writes.come \in 0 .. MaxWrites /\ writes.late \in 0 .. MaxWrites
         /\ writes.moved \in SUBSET Id /\ writes.tied \in BOOLEAN
  BY DEF TypeOK, Writes

\* A statement reads: the list stays as it is.
LEMMA SameList ==
  ASSUME rows' = rows, params' = params, writes'.moved = writes.moved
  PROVE  /\ Matching' = Matching /\ Steady' = Steady
         /\ \A i : Column(i)' = Column(i)
         /\ \A i : Ahead(i)' = Ahead(i) /\ Rank(i)' = Rank(i)
  <1>1. Matching' = Matching /\ Steady' = Steady
    BY DEF Matching, Steady
  <1>2. \A i : Column(i)' = Column(i)
    BY DEF Column
  <1>3. \A i, j : Precedes(i, j)' = Precedes(i, j)
    BY <1>2 DEF Precedes
  <1>4. \A i : Ahead(i)' = Ahead(i)
    BY <1>1, <1>3 DEF Ahead
  <1> QED
    BY <1>1, <1>2, <1>4 DEF Rank

\* SELECT count(*) reads the table and shows nothing.
LEMMA CountSteps ==
  ASSUME IInv, Count
  PROVE  IInv'
  <1> USE DEF IInv
  <1>1. /\ writes' = [writes EXCEPT !.late = 0]
        /\ pc = "count" /\ pc' = "page" /\ total' = Cardinality(Matching)
        /\ UNCHANGED <<rows, params, page, shown>>
    BY DEF Count
  <1>2. /\ writes' \in Writes /\ writes'.late = 0
        /\ writes'.n = writes.n /\ writes'.gone = writes.gone /\ writes'.come = writes.come
        /\ writes'.moved = writes.moved /\ writes'.tied = writes.tied
    BY <1>1, WritesTyped, SizesAssumption DEF Writes
  <1>3. /\ Matching' = Matching /\ Steady' = Steady
        /\ \A i : Column(i)' = Column(i) /\ Rank(i)' = Rank(i)
    BY <1>1, <1>2, SameList
  <1>4. Cardinality(Matching) \in 0 .. Size
    BY Typed
  <1>5. TypeOK'
    BY <1>1, <1>2, <1>4 DEF TypeOK, Rows, Row, NoRow, TotalPages
  <1>6. CountsOK'
    BY <1>1, <1>2, <1>3, <1>4, WritesTyped DEF CountsOK
  <1>7. SteadyApart'
    BY <1>1, <1>2, <1>3 DEF SteadyApart, Apart
  <1>8. Offset' = Offset
    BY <1>1 DEF Offset
  <1>9. Passed' = Passed /\ Returned' = Returned /\ Repeats' = Repeats /\ Shown' = Shown
    BY <1>1, <1>3, <1>8 DEF Passed, Returned, Repeats, Shown
  <1>10. Shifts' /\ Unwritten'
    BY <1>1, <1>2, <1>3, <1>8, <1>9 DEF Shifts, Unwritten, Covered
  <1>11. MissedOnlyByWrites' /\ RepeatedOnlyByWrites'
    BY <1>1 DEF MissedOnlyByWrites, RepeatedOnlyByWrites
  <1> QED
    BY <1>5, <1>6, <1>7, <1>10, <1>11

\* What the SELECT of a page changes and what it leaves alone.
LEMMA PageFrame ==
  ASSUME TypeOK, Page
  PROVE  /\ UNCHANGED <<rows, params, total>> /\ pc = "page"
         /\ writes' \in Writes /\ writes'.n = writes.n /\ writes'.late = writes.late
         /\ writes'.gone = writes.gone /\ writes'.come = writes.come
         /\ writes'.moved = writes.moved
         /\ ~writes'.tied => ~writes.tied /\ Apart(Matching)
         /\ Matching' = Matching /\ Steady' = Steady
         /\ \A i : Column(i)' = Column(i) /\ Rank(i)' = Rank(i)
         /\ \/ HasNext /\ pc' = "count" /\ page' = page + 1
                 /\ Offset' = Offset + params.page_size
            \/ ~HasNext /\ pc' = "done" /\ page' = page
  <1> DEFINE tie == writes.tied \/ \E i, j \in Matching : i # j /\ Column(i) = Column(j)
  <1>1. /\ UNCHANGED <<rows, params, total>> /\ pc = "page"
        /\ writes' = [writes EXCEPT !.tied = tie]
        /\ \/ HasNext /\ pc' = "count" /\ page' = page + 1
           \/ ~HasNext /\ pc' = "done" /\ page' = page
    BY DEF Page
  <1>2. tie \in BOOLEAN /\ (~tie => ~writes.tied /\ Apart(Matching))
    BY WritesTyped DEF Apart
  <1> HIDE DEF tie
  <1>3. /\ writes' \in Writes /\ writes'.n = writes.n /\ writes'.late = writes.late
        /\ writes'.gone = writes.gone /\ writes'.come = writes.come
        /\ writes'.moved = writes.moved /\ writes'.tied = tie
    BY <1>1, <1>2, WritesTyped DEF Writes
  <1>4. /\ Matching' = Matching /\ Steady' = Steady
        /\ \A i : Column(i)' = Column(i) /\ Rank(i)' = Rank(i)
    BY <1>1, <1>3, SameList
  <1>5. page' = page + 1 => Offset' = Offset + params.page_size
    BY <1>1, OffsetTyped DEF Offset
  <1> QED
    BY <1>1, <1>2, <1>3, <1>4, <1>5

\* Where no rows compare equal the page is what stands between its edges.
LEMMA PageExact ==
  ASSUME TypeOK, Apart(Matching), NEW S \in Pages, NEW i \in Matching
  PROVE  i \in S <=> (Rank(i) >= Offset /\ Rank(i) < Offset + params.page_size)
  <1>1. PICK A \in First(Offset + params.page_size), B \in First(Offset) :
           B \subseteq A /\ S = A \ B
    BY PageHolds
  <1>2. Offset \in Nat /\ Offset + params.page_size \in Nat
    BY OffsetTyped
  <1>3. i \in A => Rank(i) < Offset + params.page_size
    BY <1>2, FirstStandFirst
  <1>4. i \notin A => Rank(i) >= Offset + params.page_size
    BY <1>2, OthersStandBehind
  <1>5. i \in B => Rank(i) < Offset
    BY <1>2, FirstStandFirst
  <1>6. i \notin B => Rank(i) >= Offset
    BY <1>2, OthersStandBehind
  <1> QED
    BY <1>1, <1>2, <1>3, <1>4, <1>5, <1>6, AheadFinite, Typed

\* A page shows again, of the rows that kept their place, those that came back.
LEMMA PageRepeats ==
  ASSUME IInv, Page, Apart(Matching), NEW S \in Pages,
         shown' = [i \in Id |-> IF i \in S THEN shown[i] + 1 ELSE shown[i]]
  PROVE  Cardinality(Repeats') <= Cardinality(Repeats) + Cardinality(Returned \cap S)
  <1> USE DEF IInv
  <1> DEFINE X == Returned \cap S
             g == [i \in X |-> shown[i] + 1]
             T == {<<i, g[i]>> : i \in X}
  <1>1. IsFiniteSet(X) /\ Cardinality(X) \in Nat
    BY CountsFinite, FS_Intersection, FS_CardinalityType DEF CountsAreFinite
  <1>2. IsFiniteSet(T) /\ Cardinality(T) = Cardinality(X)
    BY <1>1, PairUp
  <1>3. Repeats' \subseteq Repeats \cup T
    <2> SUFFICES ASSUME NEW p \in Repeats', p \notin Repeats
                 PROVE  p \in T
      OBVIOUS
    <2>1. /\ p = <<p[1], p[2]>> /\ p[1] \in Steady /\ p[2] \in Nat /\ p[2] >= 2
          /\ p[2] <= shown'[p[1]]
      BY PageFrame DEF Repeats
    <2> DEFINE i == p[1]
               n == p[2]
    <2>2. i \in Id /\ i \in Matching /\ shown[i] \in Nat /\ shown[i] < page
      BY <2>1, Typed, PageFrame DEF TypeOK, CountsOK
    <2>3. ~(n <= shown[i])
      BY <2>1, <2>2, Typed DEF Repeats
    <2>4. i \in S /\ n = shown[i] + 1
      BY <2>1, <2>2, <2>3
    <2>5. i \in Returned
      BY <2>1, <2>2, <2>4, PageExact DEF Returned
    <2> QED
      BY <2>1, <2>4, <2>5
  <1> HIDE DEF T, X
  <1>4. IsFiniteSet(Repeats) /\ Cardinality(Repeats) \in Nat
    BY CountsFinite DEF CountsAreFinite
  <1>5. Cardinality(Repeats') <= Cardinality(Repeats) + Cardinality(T)
    BY <1>2, <1>3, <1>4, PartOfTwo
  <1> QED
    BY <1>2, <1>5 DEF X

\* The rows that came back and are shown leave the debt of the walk.
LEMMA ReturnedSplit ==
  ASSUME TypeOK, NEW S
  PROVE  /\ IsFiniteSet(Returned \ S) /\ Cardinality(Returned \ S) \in Nat
         /\ Cardinality(Returned \cap S) \in Nat
         /\ Cardinality(Returned \ S) = Cardinality(Returned) - Cardinality(Returned \cap S)
  <1>1. IsFiniteSet(Returned)
    BY CountsFinite DEF CountsAreFinite
  <1>2. IsFiniteSet(Returned \ S) /\ IsFiniteSet(Returned \cap S)
          /\ Cardinality(Returned \ S) = Cardinality(Returned) - Cardinality(Returned \cap S)
    BY <1>1, FS_Difference, FS_Intersection
  <1> QED
    BY <1>2, FS_CardinalityType

\* A page shows the rows between its offset and the next: those that kept their place
\* and were passed, or come back, were so before.
LEMMA PageShifts ==
  ASSUME IInv, Page, TypeOK'
  PROVE  Shifts' /\ MissedOnlyByWrites' /\ RepeatedOnlyByWrites'
  <1> USE DEF IInv
  <1> SUFFICES ASSUME ~writes'.tied
               PROVE  Shifts' /\ MissedOnlyByWrites' /\ RepeatedOnlyByWrites'
    BY DEF Shifts, MissedOnlyByWrites, RepeatedOnlyByWrites
  <1>0. Apart(Matching) /\ ~writes.tied /\ pc = "page"
    BY PageFrame
  <1>1. PICK S \in Pages :
           shown' = [i \in Id |-> IF i \in S THEN shown[i] + 1 ELSE shown[i]]
    BY DEF Page
  <1>2. Cardinality(Passed) <= writes.gone
          /\ Cardinality(Repeats) + Cardinality(Returned) <= writes.come
    BY <1>0 DEF Shifts
  <1>3. Cardinality(Repeats') <= Cardinality(Repeats) + Cardinality(Returned \cap S)
    BY <1>0, <1>1, PageRepeats
  <1>4. /\ Cardinality(Repeats) \in Nat /\ Cardinality(Returned) \in Nat
        /\ Cardinality(Passed) \in Nat /\ Cardinality(Repeats') \in Nat
        /\ IsFiniteSet(Passed)
    BY CountsFinite, CountsFiniteNext DEF CountsAreFinite
  <1>5. /\ \A i : Rank(i)' = Rank(i)
        /\ Steady' = Steady /\ Steady \in SUBSET Matching /\ Matching \in SUBSET Id
        /\ \A i \in Steady : Rank(i) \in Nat
        /\ Offset \in Nat /\ params.page_size \in Nat
        /\ writes'.gone = writes.gone /\ writes'.come = writes.come /\ writes'.late = writes.late
    BY PageFrame, Typed, AheadFinite, OffsetTyped
  <1>6. \A i \in Steady :
           /\ shown[i] \in Nat
           /\ i \in S <=> (Rank(i) >= Offset /\ Rank(i) < Offset + params.page_size)
           /\ shown'[i] = IF i \in S THEN shown[i] + 1 ELSE shown[i]
    BY <1>0, <1>1, <1>5, PageExact DEF TypeOK
  <1>7. /\ Cardinality(Returned \ S) \in Nat /\ Cardinality(Returned \cap S) \in Nat
        /\ Cardinality(Returned \ S) = Cardinality(Returned) - Cardinality(Returned \cap S)
        /\ writes.gone \in Nat /\ writes.come \in Nat /\ writes.late \in Nat
    <2>1. writes.gone \in Nat /\ writes.come \in Nat /\ writes.late \in Nat
      BY WritesTyped, SizesAssumption
    <2> QED
      BY <2>1, ReturnedSplit
  <1>8. CASE HasNext
    <2>1. pc' # "done" /\ Offset' = Offset + params.page_size
      BY <1>8, PageFrame
    <2>2. Passed' \subseteq Passed
      BY <1>5, <1>6, <2>1 DEF Passed
    <2>3. Cardinality(Passed') <= Cardinality(Passed)
      BY <1>4, <2>2, FS_Subset
    <2>4. Returned' \subseteq Returned \ S
      BY <1>5, <1>6, <2>1 DEF Returned
    <2>5. Cardinality(Returned') <= Cardinality(Returned \ S)
      BY <2>4, ReturnedSplit, FS_Subset
    <2>6. Cardinality(Returned') \in Nat /\ Cardinality(Passed') \in Nat
      BY CountsFiniteNext DEF CountsAreFinite
    <2>7. Cardinality(Passed') <= writes'.gone
      BY <1>2, <1>4, <1>5, <2>3, <2>6, WritesTyped
    <2>8. Cardinality(Repeats') + Cardinality(Returned') <= writes'.come
      BY <1>2, <1>3, <1>4, <1>5, <1>7, <2>5, <2>6
    <2> QED
      BY <2>1, <2>7, <2>8 DEF Shifts, MissedOnlyByWrites, RepeatedOnlyByWrites
  <1>9. CASE ~HasNext
    <2>1. pc' = "done"
      BY <1>9, PageFrame
    <2>2. PICK A \in First(Offset + params.page_size), B \in First(Offset) :
             B \subseteq A /\ S = A \ B
      BY PageHolds
    <2>3. Offset + params.page_size \in Nat
      BY OffsetTyped
    <2>4. /\ A \in SUBSET Matching /\ IsFiniteSet(A) /\ Cardinality(A) \in Nat
          /\ Cardinality(A) = IF Offset + params.page_size < Cardinality(Matching)
                              THEN Offset + params.page_size ELSE Cardinality(Matching)
      BY <2>3, FirstSize
    <2>5. Missed' \subseteq Passed \cup (Matching \ A)
      <3> SUFFICES ASSUME NEW i \in Missed', i \notin Passed
                   PROVE  i \in Matching \ A
        OBVIOUS
      <3>1. i \in Steady /\ shown'[i] = 0
        BY <1>5 DEF Missed
      <3>2. shown[i] = 0 /\ i \notin S
        BY <1>6, <3>1
      <3>3. Rank(i) >= Offset
        BY <1>5, <3>1, <3>2 DEF Passed
      <3>4. ~(Rank(i) < Offset + params.page_size)
        BY <1>6, <3>1, <3>2, <3>3
      <3>5. i \notin A
        BY <2>3, <3>4, FirstStandFirst
      <3> QED
        BY <1>5, <3>1, <3>5
    <2>6. /\ IsFiniteSet(Matching \ A) /\ Cardinality(Matching \ A) <= writes.late
          /\ Cardinality(Matching \ A) \in Nat
      <3>1. IsFiniteSet(Matching) /\ Matching \cap A = A
        BY <2>4, Typed, IdsFinite
      <3>2. IsFiniteSet(Matching \ A)
              /\ Cardinality(Matching \ A) = Cardinality(Matching) - Cardinality(A)
        BY <3>1, FS_Difference
      <3>3. Cardinality(Matching) <= total + writes.late
              /\ Offset + params.page_size >= total /\ total \in Nat
        BY <1>0, <1>9, LastPageReaches DEF CountsOK, TypeOK
      <3>4. Cardinality(Matching \ A) \in Nat
        BY <3>2, FS_CardinalityType
      <3> QED
        BY <2>3, <2>4, <3>2, <3>3, <3>4, Typed, WritesTyped
    <2>7. Cardinality(Missed') <= Cardinality(Passed) + Cardinality(Matching \ A)
            /\ Cardinality(Missed') \in Nat
      BY <1>4, <2>5, <2>6, PartOfTwo
    <2>8. Cardinality(Missed') <= writes'.gone + writes'.late
      BY <1>2, <1>4, <1>5, <2>6, <2>7, WritesTyped
    <2>9. Cardinality(Repeats') <= writes'.come
      BY <1>2, <1>3, <1>4, <1>5, <1>7
    <2> QED
      BY <2>1, <2>8, <2>9 DEF Shifts, MissedOnlyByWrites, RepeatedOnlyByWrites
  <1> QED
    BY <1>8, <1>9

\* One page more is page_size rows more.
LEMMA OneTimesMore ==
  ASSUME NEW s \in Nat, NEW a \in Nat, NEW b \in Nat, a >= b + 1
  PROVE  s * a >= s * b + s
  <1>1. s * a = s * (b + 1) + s * (a - (b + 1)) /\ s * (a - (b + 1)) >= 0
    BY SMT
  <1>2. s * (b + 1) = s * b + s
    BY SMT
  <1> QED
    BY <1>1, <1>2, SMT

\* More rows need at least as many pages, and there is always one.
LEMMA TotalPagesGrow ==
  ASSUME TypeOK, NEW m \in Nat, NEW n \in Nat, m <= n
  PROVE  TotalPages(m) <= TotalPages(n) /\ TotalPages(n) \in Nat /\ TotalPages(m) \in Nat
         /\ TotalPages(n) >= 1
  <1> DEFINE s == params.page_size
             Q(k) == (k + s - 1) \div s
             R(k) == (k + s - 1) % s
  <1>1. s \in Nat \ {0}
    BY Typed
  <1>2. \A k \in Nat : TotalPages(k) = IF k = 0 THEN 1 ELSE Q(k)
    BY DEF TotalPages
  <1> HIDE DEF s
  <1>3. \A k \in Nat : /\ k + s - 1 = s * Q(k) + R(k)
                       /\ R(k) \in 0 .. (s - 1) /\ Q(k) \in Nat
    BY <1>1, SMT
  <1> HIDE DEF Q, R
  <1>4. Q(m) <= Q(n)
    <2> SUFFICES ASSUME Q(m) >= Q(n) + 1 PROVE FALSE
      BY <1>3
    <2>1. s * Q(m) >= s * Q(n) + s
      BY <1>1, <1>3, OneTimesMore
    <2>2. /\ m + s - 1 = s * Q(m) + R(m) /\ R(m) >= 0 /\ R(m) \in Int
          /\ n + s - 1 = s * Q(n) + R(n) /\ R(n) <= s - 1 /\ R(n) \in Int
          /\ s * Q(m) \in Int /\ s * Q(n) \in Int
      BY <1>1, <1>3
    <2> QED
      BY <1>1, <2>1, <2>2
  <1>5. ASSUME NEW k \in Nat, k # 0 PROVE Q(k) >= 1
    <2> SUFFICES ASSUME Q(k) = 0 PROVE FALSE
      BY <1>3
    <2>1. s * Q(k) = 0
      BY <1>1
    <2> QED
      BY <1>1, <1>3, <1>5, <2>1
  <1> QED
    BY <1>2, <1>3, <1>4, <1>5

\* A page shows a row once.
LEMMA PageTyped ==
  ASSUME IInv, Page
  PROVE  TypeOK' /\ CountsOK' /\ SteadyApart'
  <1> USE DEF IInv
  <1>1. PICK S \in Pages :
           shown' = [i \in Id |-> IF i \in S THEN shown[i] + 1 ELSE shown[i]]
    BY DEF Page
  <1>2. /\ page \in Nat \ {0} /\ total \in 0 .. Size
        /\ \A i \in Id : shown[i] \in Nat /\ shown[i] < page
    BY PageFrame, Typed DEF TypeOK, CountsOK
  <1>3. page' \in 1 .. TotalPages(Size)
    <2>1. TotalPages(total) <= TotalPages(Size) /\ TotalPages(Size) \in Nat /\ TotalPages(total) \in Nat
      BY <1>2, SizesAssumption, TotalPagesGrow
    <2>2. page < TotalPages(total) => page + 1 \in 1 .. TotalPages(Size)
      BY <1>2, <2>1
    <2>3. page' = page \/ (page < TotalPages(total) /\ page' = page + 1)
      BY PageFrame DEF HasNext
    <2> QED
      BY <2>2, <2>3 DEF TypeOK
  <1>4. shown' \in [Id -> 0 .. page']
    BY <1>1, <1>2, PageFrame
  <1>5. TypeOK'
    BY <1>3, <1>4, PageFrame DEF TypeOK, Rows, Row, NoRow, TotalPages
  <1>6. CountsOK'
    <2>1. pc' # "done" => \A i \in Id : shown'[i] < page'
      BY <1>1, <1>2, PageFrame
    <2> QED
      BY <2>1, PageFrame DEF CountsOK
  <1>7. SteadyApart'
    <2> SUFFICES ASSUME ~writes'.tied PROVE Apart(Steady)'
      BY DEF SteadyApart
    <2>1. Apart(Matching) /\ Steady' = Steady /\ \A i : Column(i)' = Column(i)
      BY PageFrame
    <2> QED
      BY <2>1, Typed DEF Apart
  <1> QED
    BY <1>5, <1>6, <1>7

\* A page shows as many rows more as it holds.
LEMMA PageShows ==
  ASSUME IInv, Page, TypeOK', NEW S \in Pages,
         shown' = [i \in Id |-> IF i \in S THEN shown[i] + 1 ELSE shown[i]]
  PROVE  /\ IsFiniteSet(S) /\ S \in SUBSET Matching
         /\ Cardinality(Shown') = Cardinality(Shown) + Cardinality(S)
  <1> USE DEF IInv
  <1> DEFINE g == [i \in S |-> shown[i] + 1]
             T == {<<i, g[i]>> : i \in S}
  <1>0. S \in SUBSET Matching /\ S \in SUBSET Id /\ IsFiniteSet(S)
    <2>1. S \in SUBSET Matching
      BY PageHolds, FirstSize, OffsetTyped
    <2> QED
      BY <2>1, Typed, IdsFinite
  <1>1. IsFiniteSet(T) /\ Cardinality(T) = Cardinality(S)
    BY <1>0, PairUp
  <1>2. /\ page \in Nat /\ page' \in {page, page + 1}
        /\ \A i \in Id : shown[i] \in Nat /\ shown[i] < page
    BY PageFrame, Typed DEF TypeOK, CountsOK
  <1>3. \A i \in Id, n \in Nat :
           /\ <<i, n>> \in Shown' <=> n >= 1 /\ n <= shown'[i]
           /\ <<i, n>> \in Shown <=> n >= 1 /\ n <= shown[i]
           /\ <<i, n>> \in T <=> i \in S /\ n = shown[i] + 1
    <2> SUFFICES ASSUME NEW i \in Id, NEW n \in Nat
                 PROVE  /\ <<i, n>> \in Shown' <=> n >= 1 /\ n <= shown'[i]
                        /\ <<i, n>> \in Shown <=> n >= 1 /\ n <= shown[i]
                        /\ <<i, n>> \in T <=> i \in S /\ n = shown[i] + 1
      OBVIOUS
    <2>1. shown'[i] \in Nat /\ shown'[i] <= page
      BY <1>1, <1>2
    <2>2. <<i, n>> \in Shown' <=> n >= 1 /\ n <= shown'[i]
      BY <1>2, <2>1 DEF Shown
    <2>3. <<i, n>> \in Shown <=> n >= 1 /\ n <= shown[i]
      BY <1>2 DEF Shown
    <2>4. <<i, n>> \in T <=> i \in S /\ n = shown[i] + 1
      OBVIOUS
    <2> QED
      BY <2>2, <2>3, <2>4
  <1>4. /\ \A p \in Shown \cup Shown' : p = <<p[1], p[2]>> /\ p[1] \in Id /\ p[2] \in Nat
        /\ \A p \in T : p = <<p[1], p[2]>> /\ p[1] \in Id /\ p[2] \in Nat
    <2>1. \A p \in T : p = <<p[1], p[2]>> /\ p[1] \in Id /\ p[2] \in Nat
      BY <1>0, <1>2
    <2>2. \A p \in Shown : p = <<p[1], p[2]>> /\ p[1] \in Id /\ p[2] \in Nat
      BY DEF Shown
    <2>3. \A p \in Shown' : p = <<p[1], p[2]>> /\ p[1] \in Id /\ p[2] \in Nat
      BY DEF Shown
    <2> QED
      BY <2>1, <2>2, <2>3
  <1>5. \A i \in Id, n \in Nat :
           (n >= 1 /\ n <= shown'[i]) <=>
               \/ n >= 1 /\ n <= shown[i]
               \/ i \in S /\ n = shown[i] + 1
    BY <1>2
  <1> HIDE DEF T
  <1>6. Shown' = Shown \cup T
    <2>1. \A p \in Shown' : p \in Shown \cup T
      BY <1>3, <1>4, <1>5
    <2>2. \A p \in Shown \cup T : p \in Shown'
      BY <1>3, <1>4, <1>5
    <2> QED
      BY <2>1, <2>2
  <1>7. Shown \cap T = {}
    BY <1>2, <1>3, <1>4
  <1>8. Cardinality(Shown \cup T) = Cardinality(Shown) + Cardinality(T)
    BY <1>1, <1>7, CountsFinite, PartOfTwo DEF CountsAreFinite
  <1> QED
    BY <1>0, <1>1, <1>6, <1>8

\* Over a table that nobody writes the pages shown hold what they cover, once.
LEMMA PageUnwritten ==
  ASSUME IInv, Page, TypeOK'
  PROVE  Unwritten'
  <1> USE DEF IInv
  <1> SUFFICES ASSUME writes.n = 0 PROVE Unwritten'
    BY PageFrame DEF Unwritten
  <1>1. PICK S \in Pages :
           shown' = [i \in Id |-> IF i \in S THEN shown[i] + 1 ELSE shown[i]]
    BY DEF Page
  <1>2. S \in SUBSET Matching /\ Cardinality(Shown') = Cardinality(Shown) + Cardinality(S)
    BY <1>1, PageShows
  <1>3. PICK A \in First(Offset + params.page_size), B \in First(Offset) :
           B \subseteq A /\ S = A \ B
    BY PageHolds
  <1>4. Offset \in Nat /\ Offset + params.page_size \in Nat /\ Cardinality(Matching) \in Nat
    BY OffsetTyped, Typed
  <1>5. /\ Cardinality(A) \in Nat /\ IsFiniteSet(A) /\ A \cap B = B
        /\ Cardinality(A) = IF Offset + params.page_size < Cardinality(Matching)
                            THEN Offset + params.page_size ELSE Cardinality(Matching)
    BY <1>3, <1>4, FirstSize
  <1>6. /\ Cardinality(B) \in Nat
        /\ Cardinality(B) = IF Offset < Cardinality(Matching)
                            THEN Offset ELSE Cardinality(Matching)
    BY <1>4, FirstSize
  <1>7. Cardinality(S) = Cardinality(A) - Cardinality(B)
    <2>1. Cardinality(A \ B) = Cardinality(A) - Cardinality(A \cap B)
      BY <1>5, FS_Difference
    <2> QED
      BY <1>3, <1>5, <2>1
  <1>8. /\ writes.moved = {} /\ \A i \in Id : shown[i] > 0 => i \in Matching
        /\ total = Cardinality(Matching) /\ Cardinality(Shown) = Cardinality(B)
    BY <1>6, PageFrame DEF Unwritten, Covered
  <1>9. Cardinality(Shown') = Cardinality(A)
    BY <1>2, <1>5, <1>6, <1>7, <1>8
  <1>10. \A i \in Id : shown'[i] > 0 => i \in Matching'
    BY <1>1, <1>2, <1>8, PageFrame
  <1>11. CASE HasNext
    <2>1. /\ pc' = "count" /\ Offset' = Offset + params.page_size /\ Matching' = Matching
          /\ writes'.moved = {}
      BY <1>8, <1>11, PageFrame
    <2>2. Cardinality(Shown') = Covered'
      BY <1>5, <1>9, <2>1 DEF Covered
    <2> QED
      BY <1>10, <2>1, <2>2 DEF Unwritten
  <1>12. CASE ~HasNext
    <2>1. pc' = "done" /\ total' = total /\ Matching' = Matching /\ writes'.moved = {}
      BY <1>8, <1>12, PageFrame
    <2>2. Cardinality(A) = Cardinality(Matching)
      BY <1>4, <1>5, <1>8, <1>12, LastPageReaches
    <2> QED
      BY <1>8, <1>9, <1>10, <2>1, <2>2 DEF Unwritten
  <1> QED
    BY <1>11, <1>12

-----------------------------------------------------------------------------
(* A commit of a writer.                                                   *)

\* The write of row k takes it to another place, off its place, or to its place.
Moves(k) == k \in Matching /\ k \in Matching' /\ Column(k)' # Column(k)
Left(k) == Moves(k) \/ k \in Matching \ Matching'
Came(k) == Moves(k) \/ k \in Matching' \ Matching

\* What a commit during the walk changes and how it is counted.
LEMMA WriteFrame ==
  ASSUME TypeOK, CountsOK, NEW k \in Id, NEW row \in Rows, Write(k, row)
  PROVE  /\ pc # "done" /\ UNCHANGED <<params, page, pc, total, shown>>
         /\ rows' \in [Id -> Rows] /\ \A i \in Id \ {k} : rows'[i] = rows[i]
         /\ writes' \in Writes /\ writes'.n = writes.n + 1 /\ writes'.tied = writes.tied
         /\ writes'.gone = IF Left(k) THEN writes.gone + 1 ELSE writes.gone
         /\ writes'.come = IF Came(k) THEN writes.come + 1 ELSE writes.come
         /\ writes'.late = IF Came(k) THEN writes.late + 1 ELSE writes.late
         /\ writes'.moved = IF Left(k) \/ Came(k) THEN writes.moved \cup {k} ELSE writes.moved
  <1> DEFINE gone == IF Left(k) THEN writes.gone + 1 ELSE writes.gone
             come == IF Came(k) THEN writes.come + 1 ELSE writes.come
             late == IF Came(k) THEN writes.late + 1 ELSE writes.late
             moved == IF Left(k) \/ Came(k) THEN writes.moved \cup {k} ELSE writes.moved
             n == writes.n + 1
  <1>1. /\ pc # "done" /\ UNCHANGED <<params, page, pc, total, shown>>
        /\ writes.n < MaxWrites /\ rows' = [rows EXCEPT ![k] = row]
        /\ writes' = [writes EXCEPT !.n = n, !.gone = gone, !.come = come, !.late = late,
                                    !.moved = moved]
    BY DEF Write, Left, Came, Moves
  <1>2. /\ n \in 0 .. MaxWrites /\ gone \in 0 .. MaxWrites /\ come \in 0 .. MaxWrites
        /\ late \in 0 .. MaxWrites /\ moved \in SUBSET Id
    <2>1. writes.gone <= writes.n /\ writes.come <= writes.n /\ writes.late <= writes.n
      BY DEF CountsOK
    <2> QED
      BY <1>1, <2>1, WritesTyped, SizesAssumption
  <1> HIDE DEF n, gone, come, late, moved
  <1>3. /\ writes' \in Writes /\ writes'.n = n /\ writes'.tied = writes.tied
        /\ writes'.gone = gone /\ writes'.come = come /\ writes'.late = late
        /\ writes'.moved = moved
    BY <1>1, <1>2, WritesTyped DEF Writes
  <1>4. rows' \in [Id -> Rows] /\ \A i \in Id \ {k} : rows'[i] = rows[i]
    BY <1>1 DEF TypeOK
  <1> QED
    BY <1>1, <1>3, <1>4 DEF n, gone, come, late, moved

\* The rows that are not written keep their place in the list or outside it.
LEMMA OthersStay ==
  ASSUME TypeOK, CountsOK, NEW k \in Id, NEW row \in Rows, Write(k, row), TypeOK'
  PROVE  /\ \A i \in Id \ {k} : Column(i)' = Column(i) /\ (i \in Matching' <=> i \in Matching)
         /\ Steady' \in SUBSET Steady
         /\ Left(k) \/ Came(k) => k \notin Steady'
         /\ \A i \in Steady' : Column(i)' = Column(i)
  <1> USE WriteFrame
  <1>1. \A i \in Id \ {k} : Column(i)' = Column(i) /\ (i \in Matching' <=> i \in Matching)
    BY DEF Column, Matching
  <1>2. Matching' \in SUBSET Id /\ Matching \in SUBSET Id
    BY DEF Matching
  <1>3. Left(k) \/ Came(k) => k \notin Steady'
    BY DEF Steady
  <1>4. ~Left(k) /\ ~Came(k) => /\ k \in Matching' <=> k \in Matching
                                /\ k \in Matching => Column(k)' = Column(k)
    BY DEF Left, Came, Moves
  <1>5. Steady' \in SUBSET Steady
    BY <1>1, <1>2, <1>3, <1>4 DEF Steady
  <1>6. \A i \in Steady' : Column(i)' = Column(i)
    BY <1>1, <1>2, <1>3, <1>4 DEF Steady
  <1> QED
    BY <1>1, <1>3, <1>5, <1>6

\* What a write does to the rows ahead of one that keeps its place: the written row
\* may join them when it came and be missing when it left.
LEMMA AheadChanges ==
  ASSUME TypeOK, CountsOK, NEW k \in Id, NEW row \in Rows, Write(k, row), TypeOK',
         NEW i \in Steady'
  PROVE  /\ Ahead(i)' \subseteq Ahead(i) \cup {k} /\ Ahead(i) \subseteq Ahead(i)' \cup {k}
         /\ ~Left(k) => Ahead(i) \subseteq Ahead(i)'
         /\ ~Came(k) => Ahead(i)' \subseteq Ahead(i)
  <1>1. Column(i)' = Column(i) /\ params' = params
    BY OthersStay, WriteFrame
  <1>2. \A j \in Id : Column(j)' = Column(j) => Precedes(j, i)' = Precedes(j, i)
    BY <1>1 DEF Precedes
  <1>3. \A j \in Id \ {k} : j \in Ahead(i)' <=> j \in Ahead(i)
    BY <1>2, OthersStay DEF Ahead
  <1>4. /\ ~Left(k) /\ k \in Ahead(i) => k \in Ahead(i)'
        /\ ~Came(k) /\ k \in Ahead(i)' => k \in Ahead(i)
    BY <1>2 DEF Ahead, Left, Came, Moves
  <1>5. Ahead(i) \in SUBSET Id /\ Ahead(i)' \in SUBSET Id
    BY DEF Ahead, Matching
  <1> QED
    BY <1>3, <1>4, <1>5

\* The rows ahead of a row can be counted after a step too.
LEMMA AheadFiniteNext ==
  ASSUME TypeOK', NEW i
  PROVE  IsFiniteSet(Ahead(i)') /\ Rank(i)' = Cardinality(Ahead(i)') /\ Rank(i)' \in Nat
  <1>1. Ahead(i)' \in SUBSET Id
    BY DEF Ahead, Matching
  <1> QED
    BY <1>1, IdsFinite DEF Rank

\* A row that keeps its place moves by at most one, forward only when the written
\* row left and back only when it came.
LEMMA RankChanges ==
  ASSUME TypeOK, CountsOK, NEW k \in Id, NEW row \in Rows, Write(k, row), TypeOK',
         NEW i \in Steady'
  PROVE  /\ Rank(i)' <= Rank(i) + 1 /\ Rank(i) <= Rank(i)' + 1
         /\ ~Left(k) => Rank(i) <= Rank(i)'
         /\ ~Came(k) => Rank(i)' <= Rank(i)
         /\ Rank(i) \in Nat /\ Rank(i)' \in Nat
  <1> DEFINE P == Ahead(i)
             Q == Ahead(i)'
  <1>1. /\ IsFiniteSet(P) /\ Rank(i) = Cardinality(P) /\ Rank(i) \in Nat
        /\ IsFiniteSet(Q) /\ Rank(i)' = Cardinality(Q) /\ Rank(i)' \in Nat
    BY AheadFinite, AheadFiniteNext DEF Rank
  <1>2. /\ Q \subseteq P \cup {k} /\ P \subseteq Q \cup {k}
        /\ ~Left(k) => P \subseteq Q
        /\ ~Came(k) => Q \subseteq P
    BY AheadChanges
  <1>3. IsFiniteSet({k}) /\ Cardinality({k}) = 1
    BY FS_Singleton
  <1> HIDE DEF P, Q
  <1>4. Cardinality(Q) <= Cardinality(P) + 1 /\ Cardinality(P) <= Cardinality(Q) + 1
    BY <1>1, <1>2, <1>3, PartOfTwo
  <1>5. /\ ~Left(k) => Cardinality(P) <= Cardinality(Q)
        /\ ~Came(k) => Cardinality(Q) <= Cardinality(P)
    BY <1>1, <1>2, FS_Subset
  <1> QED
    BY <1>1, <1>4, <1>5

\* At most one of the rows that keep their place stands in a place.
LEMMA OneInAPlace ==
  ASSUME TypeOK, Apart(Steady), NEW n, NEW E \in SUBSET Steady, \A i \in E : Rank(i) = n
  PROVE  IsFiniteSet(E) /\ Cardinality(E) \in Nat /\ Cardinality(E) <= 1
  <1>1. \A i, j \in E : i = j
    <2> SUFFICES ASSUME NEW i \in E, NEW j \in E, i # j PROVE FALSE
      OBVIOUS
    <2>1. i \in Matching /\ j \in Matching /\ (Precedes(i, j) \/ Precedes(j, i))
      BY Typed, Ordered DEF Apart
    <2>2. Rank(i) # Rank(j)
      BY <2>1, RanksGrow, AheadFinite
    <2> QED
      BY <2>2
  <1>2. E = {} \/ \E x : E = {x}
    BY <1>1
  <1>3. CASE E = {}
    BY <1>3, FS_EmptySet
  <1>4. CASE \E x : E = {x}
    <2>1. PICK x : E = {x}
      BY <1>4
    <2>2. IsFiniteSet({x}) /\ Cardinality({x}) = 1
      BY FS_Singleton
    <2> QED
      BY <2>1, <2>2
  <1> QED
    BY <1>2, <1>3, <1>4

\* A commit is counted, and takes its row from those that kept their place.
LEMMA WriteTyped ==
  ASSUME IInv, NEW k \in Id, NEW row \in Rows, Write(k, row)
  PROVE  TypeOK' /\ CountsOK' /\ SteadyApart' /\ Unwritten'
  <1> USE DEF IInv
  <1>0. /\ pc # "done" /\ UNCHANGED <<params, page, pc, total, shown>>
        /\ writes'.n = writes.n + 1 /\ writes'.tied = writes.tied
        /\ writes'.gone = IF Left(k) THEN writes.gone + 1 ELSE writes.gone
        /\ writes'.come = IF Came(k) THEN writes.come + 1 ELSE writes.come
        /\ writes'.late = IF Came(k) THEN writes.late + 1 ELSE writes.late
    BY WriteFrame
  <1>1. TypeOK'
    BY WriteFrame DEF TypeOK, Rows, Row, NoRow, TotalPages
  <1>2. CountsOK'
    <2>1. ASSUME pc = "page"
          PROVE  Cardinality(Matching') <= total + writes'.late
      <3>1. /\ IsFiniteSet(Matching) /\ Cardinality(Matching) \in Nat
            /\ IsFiniteSet({k}) /\ Cardinality({k}) = 1
        BY Typed, IdsFinite, FS_Singleton, FS_CardinalityType
      <3>2. Matching' \subseteq Matching \cup {k}
        <4>1. Matching' \in SUBSET Id
          BY DEF Matching
        <4> QED
          BY <1>1, <4>1, OthersStay
      <3>3. Cardinality(Matching') <= Cardinality(Matching) + 1 /\ Cardinality(Matching') \in Nat
        BY <3>1, <3>2, PartOfTwo
      <3>4. ~Came(k) => Cardinality(Matching') <= Cardinality(Matching)
        <4>1. ~Came(k) => Matching' \subseteq Matching
          BY <3>2 DEF Came
        <4> QED
          BY <3>1, <4>1, FS_Subset
      <3>5. Cardinality(Matching) <= total + writes.late /\ total \in Nat /\ writes.late \in Nat
        BY <2>1, WritesTyped, SizesAssumption DEF CountsOK, TypeOK
      <3>6. writes'.late = IF Came(k) THEN writes.late + 1 ELSE writes.late
        BY WriteFrame
      <3> QED
        BY <3>1, <3>3, <3>4, <3>5, <3>6
    <2>2. /\ writes'.gone <= writes'.n /\ writes'.come <= writes'.n /\ writes'.late <= writes'.n
          /\ pc' # "done" => \A i \in Id : shown'[i] < page'
      <3>1. /\ writes.gone \in Nat /\ writes.come \in Nat /\ writes.late \in Nat
            /\ writes.n \in Nat
            /\ writes.gone <= writes.n /\ writes.come <= writes.n /\ writes.late <= writes.n
        BY WritesTyped, SizesAssumption DEF CountsOK
      <3>2. pc' # "done" => \A i \in Id : shown'[i] < page'
        BY <1>0 DEF CountsOK
      <3> QED
        BY <1>0, <3>1, <3>2
    <2> QED
      BY <1>0, <2>1, <2>2 DEF CountsOK
  <1>3. SteadyApart'
    <2>1. Steady' \in SUBSET Steady /\ \A i \in Steady' : Column(i)' = Column(i)
      BY <1>1, OthersStay
    <2> QED
      BY <1>0, <2>1 DEF SteadyApart, Apart
  <1>4. Unwritten'
    <2>1. writes'.n # 0
      BY <1>0, WritesTyped, SizesAssumption
    <2> QED
      BY <2>1 DEF Unwritten
  <1> QED
    BY <1>1, <1>2, <1>3, <1>4

\* A row that leaves brings at most one row of those behind it forward over the offset;
\* one that enters puts at most one back.
LEMMA WriteShifts ==
  ASSUME IInv, NEW k \in Id, NEW row \in Rows, Write(k, row), TypeOK'
  PROVE  Shifts' /\ MissedOnlyByWrites' /\ RepeatedOnlyByWrites'
  <1> USE DEF IInv
  <1>0. /\ pc # "done" /\ pc' = pc /\ page' = page /\ shown' = shown /\ Offset' = Offset
        /\ writes'.tied = writes.tied
        /\ writes'.gone = IF Left(k) THEN writes.gone + 1 ELSE writes.gone
        /\ writes'.come = IF Came(k) THEN writes.come + 1 ELSE writes.come
    BY WriteFrame DEF Offset
  <1> SUFFICES ASSUME ~writes.tied
               PROVE  Cardinality(Passed') <= writes'.gone
                        /\ Cardinality(Repeats') + Cardinality(Returned') <= writes'.come
    BY <1>0 DEF Shifts, MissedOnlyByWrites, RepeatedOnlyByWrites
  <1>1. /\ Cardinality(Passed) <= writes.gone
        /\ Cardinality(Repeats) + Cardinality(Returned) <= writes.come
        /\ writes.gone \in Nat /\ writes.come \in Nat
    BY <1>0, WritesTyped, SizesAssumption DEF Shifts
  <1>2. /\ IsFiniteSet(Passed) /\ Cardinality(Passed) \in Nat
        /\ IsFiniteSet(Returned) /\ Cardinality(Returned) \in Nat
        /\ IsFiniteSet(Repeats) /\ Cardinality(Repeats) \in Nat
        /\ Cardinality(Passed') \in Nat /\ Cardinality(Returned') \in Nat
        /\ Cardinality(Repeats') \in Nat
    BY CountsFinite, CountsFiniteNext DEF CountsAreFinite
  <1>3. Steady' \in SUBSET Steady
    BY OthersStay
  <1>4. \A i \in Steady' :
           /\ Rank(i)' <= Rank(i) + 1 /\ Rank(i) <= Rank(i)' + 1
           /\ ~Left(k) => Rank(i) <= Rank(i)'
           /\ ~Came(k) => Rank(i)' <= Rank(i)
           /\ Rank(i) \in Nat /\ Rank(i)' \in Nat
    BY RankChanges
  <1>5. Offset \in Nat /\ (page = 1 => Offset = 0) /\ page \in Nat /\ page >= 1
    BY OffsetTyped, Typed
  <1>6. \A i \in Steady : shown[i] \in Nat /\ shown[i] < page
    BY <1>0, Typed DEF CountsOK, TypeOK
  <1>7. page > 1 => Apart(Steady)
    BY DEF SteadyApart
  <1>8. Cardinality(Repeats') <= Cardinality(Repeats)
    <2>1. Repeats' \subseteq Repeats
      BY <1>0, <1>3 DEF Repeats
    <2> QED
      BY <1>2, <2>1, FS_Subset
  <1>9. Cardinality(Passed') <= Cardinality(Passed) + (IF Left(k) THEN 1 ELSE 0)
    <2> DEFINE E == {i \in Steady' : Rank(i) = Offset /\ Rank(i)' < Offset}
    <2>1. \A i \in Passed' : i \in Steady' /\ shown[i] = 0 /\ Rank(i)' < Offset
      BY <1>0 DEF Passed
    <2>2. Passed' \subseteq Passed \cup E
      BY <1>3, <1>4, <1>5, <2>1 DEF Passed
    <2>3. ~Left(k) => E = {}
      BY <1>4, <1>5
    <2>4. page = 1 => E = {}
      BY <1>4, <1>5
    <2>5. page > 1 => IsFiniteSet(E) /\ Cardinality(E) \in Nat /\ Cardinality(E) <= 1
      <3>1. E \in SUBSET Steady /\ \A i \in E : Rank(i) = Offset
        BY <1>3
      <3> HIDE DEF E
      <3> QED
        BY <1>7, <3>1, OneInAPlace
    <2> HIDE DEF E
    <2>6. IsFiniteSet(E) /\ Cardinality(E) \in Nat /\ Cardinality(E) <= IF Left(k) THEN 1 ELSE 0
      <3>1. E = {} => IsFiniteSet(E) /\ Cardinality(E) = 0
        BY FS_EmptySet
      <3> QED
        BY <1>5, <2>3, <2>4, <2>5, <3>1
    <2>7. Cardinality(Passed') <= Cardinality(Passed) + Cardinality(E)
      BY <1>2, <2>2, <2>6, PartOfTwo
    <2> QED
      BY <1>2, <2>6, <2>7
  <1>10. Cardinality(Returned') <= Cardinality(Returned) + (IF Came(k) THEN 1 ELSE 0)
    <2> DEFINE E == {i \in Steady' : Rank(i) = Offset - 1 /\ Rank(i)' >= Offset}
    <2>1. \A i \in Returned' : i \in Steady' /\ shown[i] > 0 /\ Rank(i)' >= Offset
      BY <1>0 DEF Returned
    <2>2. Returned' \subseteq Returned \cup E
      BY <1>3, <1>4, <1>5, <2>1 DEF Returned
    <2>3. ~Came(k) => E = {}
      BY <1>4, <1>5
    <2>4. page = 1 => E = {}
      BY <1>4, <1>5
    <2>5. page > 1 => IsFiniteSet(E) /\ Cardinality(E) \in Nat /\ Cardinality(E) <= 1
      <3>1. E \in SUBSET Steady /\ \A i \in E : Rank(i) = Offset - 1
        BY <1>3
      <3> HIDE DEF E
      <3> QED
        BY <1>7, <3>1, OneInAPlace
    <2> HIDE DEF E
    <2>6. IsFiniteSet(E) /\ Cardinality(E) \in Nat /\ Cardinality(E) <= IF Came(k) THEN 1 ELSE 0
      <3>1. E = {} => IsFiniteSet(E) /\ Cardinality(E) = 0
        BY FS_EmptySet
      <3> QED
        BY <1>5, <2>3, <2>4, <2>5, <3>1
    <2>7. Cardinality(Returned') <= Cardinality(Returned) + Cardinality(E)
      BY <1>2, <2>2, <2>6, PartOfTwo
    <2> QED
      BY <1>2, <2>6, <2>7
  <1> QED
    BY <1>0, <1>1, <1>2, <1>8, <1>9, <1>10

-----------------------------------------------------------------------------
(* The theorems.                                                           *)

\* Before the first page nothing is shown and nothing written.
LEMMA InitIInv == Init => IInv
  <1> SUFFICES ASSUME Init PROVE IInv
    OBVIOUS
  <1> USE DEF Init
  <1>1. TypeOK
    <2>1. TotalPages(Size) \in Nat /\ TotalPages(Size) >= 1
      <3>1. params.page_size \in Nat \ {0}
        BY AskedAssumption DEF Params
      <3> DEFINE s == params.page_size
      <3>2. Size # 0 => (Size + s - 1) \div s \in Nat /\ (Size + s - 1) \div s >= 1
        <4>1. s \in Nat \ {0} /\ Size \in Nat
          BY <3>1, SizesAssumption
        <4> HIDE DEF s
        <4> QED
          BY <4>1, SMT
      <3> QED
        BY <3>2 DEF TotalPages
    <2>2. writes \in Writes
      BY SizesAssumption DEF Writes
    <2> QED
      BY <2>1, <2>2, SizesAssumption DEF TypeOK
  <1>2. CountsOK /\ SteadyApart
    BY DEF CountsOK, SteadyApart
  <1>3. Offset = 0
    BY <1>1, OffsetTyped
  <1>4. Passed = {} /\ Returned = {} /\ Repeats = {} /\ Shown = {}
    <2>1. \A i \in Steady : Rank(i) \in Nat /\ shown[i] = 0
      BY <1>1, AheadFinite, Typed
    <2>2. Passed = {} /\ Returned = {}
      BY <1>3, <2>1 DEF Passed, Returned
    <2>3. Repeats = {}
      BY <2>1 DEF Repeats
    <2>4. Shown = {}
      BY DEF Shown
    <2> QED
      BY <2>2, <2>3, <2>4
  <1>5. Cardinality({}) = 0
    BY FS_EmptySet
  <1>6. Shifts
    BY <1>4, <1>5 DEF Shifts
  <1>7. Unwritten
    <2>1. Cardinality(Matching) \in Nat
      BY <1>1, Typed
    <2> QED
      BY <1>3, <1>4, <1>5, <2>1 DEF Unwritten, Covered
  <1> QED
    BY <1>1, <1>2, <1>6, <1>7 DEF IInv, MissedOnlyByWrites, RepeatedOnlyByWrites

\* Every page, count and commit preserves IInv.
LEMMA NextIInv == IInv /\ [Next]_vars => IInv'
  <1> SUFFICES ASSUME IInv, [Next]_vars
               PROVE  IInv'
    OBVIOUS
  <1>1. CASE UNCHANGED vars
    <2>1. /\ rows' = rows /\ params' = params /\ writes' = writes /\ pc' = pc /\ page' = page
          /\ shown' = shown /\ total' = total
      BY <1>1 DEF vars
    <2>2. /\ Matching' = Matching /\ Steady' = Steady
          /\ \A i : Column(i)' = Column(i) /\ Rank(i)' = Rank(i)
      BY <2>1, SameList
    <2>3. Offset' = Offset
      BY <2>1 DEF Offset
    <2>4. Passed' = Passed /\ Returned' = Returned /\ Repeats' = Repeats /\ Shown' = Shown
            /\ Missed' = Missed
      BY <2>1, <2>2, <2>3 DEF Passed, Returned, Repeats, Shown, Missed
    <2>5. TypeOK' /\ CountsOK' /\ SteadyApart'
      BY <2>1, <2>2 DEF IInv, TypeOK, Rows, Row, NoRow, TotalPages, CountsOK, SteadyApart, Apart
    <2>6. Shifts' /\ Unwritten' /\ MissedOnlyByWrites' /\ RepeatedOnlyByWrites'
      BY <2>1, <2>2, <2>3, <2>4
      DEF IInv, Shifts, Unwritten, Covered, MissedOnlyByWrites, RepeatedOnlyByWrites
    <2> QED
      BY <2>5, <2>6 DEF IInv
  <1>2. CASE Count
    BY <1>2, CountSteps
  <1>3. CASE Page
    <2>1. TypeOK' /\ CountsOK' /\ SteadyApart'
      BY <1>3, PageTyped
    <2> QED
      BY <1>3, <2>1, PageShifts, PageUnwritten DEF IInv
  <1>4. ASSUME NEW k \in Id, Insert(k) \/ Update(k) \/ Delete(k)
        PROVE  IInv'
    <2>1. PICK row \in Rows : Write(k, row)
      BY <1>4 DEF Insert, Update, Delete, Rows
    <2>2. TypeOK' /\ CountsOK' /\ SteadyApart' /\ Unwritten'
      BY <2>1, WriteTyped
    <2> QED
      BY <2>1, <2>2, WriteShifts DEF IInv
  <1> QED
    BY <1>1, <1>2, <1>3, <1>4 DEF Next

\* The inductive invariant of a walk: how far the writes have pulled rows over the
\* edge between the pages that were shown and those that were not.
THEOREM SpecIInv == Spec => []IInv
  BY InitIInv, NextIInv, PTL DEF Spec

\* The client never asks for a page beyond the last, and a page it asks for has shown
\* no row more than once (PageMeta.build).
THEOREM TypeCorrect == Spec => []TypeOK
  <1>1. IInv => TypeOK
    BY DEF IInv
  <1> QED
    BY <1>1, SpecIInv, PTL

\* A walk by a column that orders the rows misses at most as many of the rows that
\* stayed as rows left the list, or came after the last count (list_paginated).
THEOREM FewMissed == Spec => []MissedOnlyByWrites
  <1>1. IInv => MissedOnlyByWrites
    BY DEF IInv
  <1> QED
    BY <1>1, SpecIInv, PTL

\* And it shows them again at most as often as rows entered the list (list_paginated).
THEOREM FewRepeated == Spec => []RepeatedOnlyByWrites
  <1>1. IInv => RepeatedOnlyByWrites
    BY DEF IInv
  <1> QED
    BY <1>1, SpecIInv, PTL

\* What an unwritten list has shown at the end: every row once, but for those that
\* took the place of others.
LEMMA ShownOnceOrAgain ==
  ASSUME IInv, pc = "done", writes.n = 0
  PROVE  /\ total = Cardinality(Matching)
         /\ Cardinality(Repeats) = Cardinality(Missed)
  <1> USE DEF IInv
  <1>1. /\ Steady = Matching /\ total = Cardinality(Matching)
        /\ \A i \in Id : shown[i] > 0 => i \in Matching
        /\ Cardinality(Shown) = Cardinality(Matching)
    BY DEF Unwritten, Steady
  <1> DEFINE X == Matching \ Missed
             g == [i \in X |-> 1]
             T == {<<i, g[i]>> : i \in X}
  <1>2. /\ IsFiniteSet(Matching) /\ Cardinality(Matching) \in Nat /\ Matching \cap Missed = Missed
        /\ Cardinality(Missed) \in Nat /\ Cardinality(Repeats) \in Nat /\ IsFiniteSet(Repeats)
    <2>1. Matching \cap Missed = Missed
      BY <1>1 DEF Missed
    <2> QED
      BY <2>1, Typed, IdsFinite, CountsFinite DEF CountsAreFinite
  <1>3. IsFiniteSet(X) /\ Cardinality(X) = Cardinality(Matching) - Cardinality(Missed)
    BY <1>2, FS_Difference
  <1>4. IsFiniteSet(T) /\ Cardinality(T) = Cardinality(X)
    BY <1>3, PairUp
  <1>5. \A i \in Id : shown[i] \in Nat /\ shown[i] <= page /\ page \in Nat
    BY Typed DEF TypeOK
  <1>6. \A i \in Id, n \in Nat :
           /\ <<i, n>> \in Shown <=> n >= 1 /\ n <= shown[i]
           /\ <<i, n>> \in T <=> i \in Matching /\ n = 1 /\ shown[i] # 0
           /\ <<i, n>> \in Repeats <=> i \in Matching /\ n >= 2 /\ n <= shown[i]
    <2> SUFFICES ASSUME NEW i \in Id, NEW n \in Nat
                 PROVE  /\ <<i, n>> \in Shown <=> n >= 1 /\ n <= shown[i]
                        /\ <<i, n>> \in T <=> i \in Matching /\ n = 1 /\ shown[i] # 0
                        /\ <<i, n>> \in Repeats <=> i \in Matching /\ n >= 2 /\ n <= shown[i]
      OBVIOUS
    <2>1. <<i, n>> \in Shown <=> n >= 1 /\ n <= shown[i]
      BY <1>5 DEF Shown
    <2>2. <<i, n>> \in T <=> i \in Matching /\ n = 1 /\ shown[i] # 0
      BY <1>1 DEF Missed
    <2>3. <<i, n>> \in Repeats <=> i \in Matching /\ n >= 2 /\ n <= shown[i]
      BY <1>1, <1>5 DEF Repeats
    <2> QED
      BY <2>1, <2>2, <2>3
  <1>7. /\ \A p \in Shown : p = <<p[1], p[2]>> /\ p[1] \in Id /\ p[2] \in Nat
        /\ \A p \in T : p = <<p[1], p[2]>> /\ p[1] \in Id /\ p[2] \in Nat
        /\ \A p \in Repeats : p = <<p[1], p[2]>> /\ p[1] \in Id /\ p[2] \in Nat
    <2>1. \A p \in Shown : p = <<p[1], p[2]>> /\ p[1] \in Id /\ p[2] \in Nat
      BY DEF Shown
    <2>2. \A p \in T : p = <<p[1], p[2]>> /\ p[1] \in Id /\ p[2] \in Nat
      BY Typed
    <2>3. \A p \in Repeats : p = <<p[1], p[2]>> /\ p[1] \in Id /\ p[2] \in Nat
      BY Typed DEF Repeats
    <2> QED
      BY <2>1, <2>2, <2>3
  <1> HIDE DEF T
  <1>8. Shown = T \cup Repeats
    <2>1. \A p \in Shown : p \in T \cup Repeats
      BY <1>1, <1>5, <1>6, <1>7
    <2>2. \A p \in T \cup Repeats : p \in Shown
      BY <1>5, <1>6, <1>7
    <2> QED
      BY <2>1, <2>2
  <1>9. T \cap Repeats = {}
    BY <1>6, <1>7
  <1>10. Cardinality(Shown) = Cardinality(T) + Cardinality(Repeats)
    BY <1>2, <1>4, <1>8, <1>9, PartOfTwo
  <1> QED
    BY <1>1, <1>2, <1>3, <1>4, <1>10

\* Over a list that nobody writes the pages hold as many rows as were counted, however
\* the database orders the rows that compare equal (list_paginated, ListParams.sort_by).
THEOREM AsManyShown == Spec => []AsManyAsCounted
  <1>1. IInv => AsManyAsCounted
    BY ShownOnceOrAgain DEF AsManyAsCounted
  <1> QED
    BY <1>1, SpecIInv, PTL
=============================================================================
