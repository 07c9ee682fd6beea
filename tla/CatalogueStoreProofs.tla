------------------------ MODULE CatalogueStoreProofs ------------------------
(***************************************************************************)
(* What the promise of the catalogue's endpoints implies, for any number   *)
(* of categories, products, variants, accessories and names: since         *)
(* Catalogue implements CatalogueStore, its rows are always consistent.    *)
(***************************************************************************)
EXTENDS CatalogueStore, TLAPS

RowsTyped == rows \in [Key -> [there : BOOLEAN, name : Name \cup {None},
                               parent : Key \cup {None}, flag : BOOLEAN]]
             /\ \A k \in Key : rows[k] \in RowOf(k) \cup {Gone}

\* The inductive invariant: a row that is not there refers to nothing and has
\* no name, so that what holds of the other rows survives its deletion.
Consistent == RowsTyped /\ ParentsKept /\ NamesDiffer

-----------------------------------------------------------------------------
(* Rows.                                                                   *)

\* A row refers to a row of another table: a product to its category, a variant
\* to its family, and nothing else to anything.
LEMMA ParentTables ==
  ASSUME NEW k \in Key, NEW row \in RowOf(k) \cup {Gone}
  PROVE  /\ row.parent \in Key \cup {None}
         /\ row.parent \in Category => k \in Product
         /\ row.parent \in Product => k \in Variant
         /\ row.parent \notin Variant \cup Accessory
         /\ row.name # None => row.there
         /\ row.parent # None => row.there
  <1>1. CASE row = Gone
    BY <1>1, KeysAssumption DEF Gone, Key
  <1>2. CASE row \in RowOf(k)
    <2>1. row.there /\ row.parent \in Parents(k)
      BY <1>2 DEF RowOf
    <2> HIDE DEF RowOf
    <2>2. /\ row.parent \in Key \cup {None}
          /\ row.parent \in Category => k \in Product
          /\ row.parent \in Product => k \in Variant
          /\ row.parent \notin Variant \cup Accessory
      BY <2>1, KeysAssumption DEF Parents, Key
    <2> QED
      BY <2>1, <2>2
  <1> QED
    BY <1>1, <1>2

\* Every row belongs to its own table.
LEMMA OwnTable == \A k \in Key : k \in Peers(k)
  BY DEF Peers, Key

LEMMA RowTyped ==
  \A k \in Key : \A row \in RowOf(k) \cup {Gone} :
      row \in [there : BOOLEAN, name : Name \cup {None}, parent : Key \cup {None}, flag : BOOLEAN]
  <1> SUFFICES ASSUME NEW k \in Key, NEW row \in RowOf(k) \cup {Gone}
               PROVE  row \in [there : BOOLEAN, name : Name \cup {None},
                               parent : Key \cup {None}, flag : BOOLEAN]
    OBVIOUS
  <1>1. /\ Names(k) \subseteq Name \cup {None} /\ Flags(k) \subseteq BOOLEAN
        /\ Parents(k) \subseteq Key \cup {None}
    BY DEF Names, Parents, Flags, Key
  <1>2. CASE row = Gone
    BY <1>2 DEF Gone
  <1>3. CASE row \in RowOf(k)
    <2>1. row \in [there : {TRUE}, name : Names(k), parent : Parents(k), flag : Flags(k)]
      BY <1>3 DEF RowOf
    <2> QED
      BY <2>1, <1>1
  <1> QED
    BY <1>2, <1>3

-----------------------------------------------------------------------------
(* Steps.                                                                  *)

\* A row that fits is put in place, and a family may be marked.
LEMMA PutConsistent ==
  ASSUME Consistent, NEW k \in Key, NEW row \in RowOf(k), Fits(k, row), NEW on \in BOOLEAN,
         rows' = [x \in Key |-> IF x = k THEN row
                                ELSE IF on /\ k \in Variant /\ x = row.parent
                                THEN [rows[x] EXCEPT !.flag = TRUE] ELSE rows[x]]
  PROVE  Consistent'
  <1> USE DEF Consistent, RowsTyped
  <1>0. row.there
    BY DEF RowOf
  <1>1. ASSUME NEW x \in Key
        PROVE  /\ rows'[x] \in RowOf(x) \cup {Gone}
               /\ x # k => /\ rows'[x].there = rows[x].there /\ rows'[x].name = rows[x].name
                           /\ rows'[x].parent = rows[x].parent
    <2>1. CASE x = k
      BY <2>1
    <2>2. CASE x # k /\ on /\ k \in Variant /\ x = row.parent
      <3>1. row.parent \in Product
        BY <2>2, KeysAssumption DEF RowOf, Parents, Key
      <3>2. rows[x].there
        BY <2>2, <3>1, KeysAssumption DEF Fits, Key
      <3>3. rows[x] \in RowOf(x) /\ Flags(x) = BOOLEAN
        BY <2>2, <3>1, <3>2 DEF Gone, Flags
      <3> QED
        BY <2>2, <3>3 DEF RowOf
    <2>3. CASE x # k /\ ~(on /\ k \in Variant /\ x = row.parent)
      BY <2>3
    <2> QED
      BY <2>1, <2>2, <2>3
  <1>2. RowsTyped'
    BY <1>1, RowTyped
  <1>3. ParentsKept'
    <2> SUFFICES ASSUME NEW x \in Key, rows'[x].parent # None
                 PROVE  rows'[rows'[x].parent].there
      BY DEF ParentsKept
    <2>1. CASE x = k
      <3>1. row.parent \in Key /\ rows[row.parent].there
        BY <2>1, ParentTables DEF Fits
      <3> QED
        BY <2>1, <3>1, <1>0, <1>1
    <2>2. CASE x # k
      <3>1. rows[x].parent \in Key /\ rows[rows[x].parent].there
        BY <2>2, <1>1, ParentTables DEF ParentsKept
      <3> QED
        BY <2>2, <3>1, <1>0, <1>1
    <2> QED
      BY <2>1, <2>2
  <1>4. NamesDiffer'
    <2> SUFFICES ASSUME NEW i \in Key, NEW j \in Key, i # j, rows'[i].name # None,
                        rows'[i].name = rows'[j].name, Peers(i) = Peers(j)
                 PROVE  FALSE
      BY DEF NamesDiffer
    <2>1. CASE i # k /\ j # k
      BY <2>1, <1>1 DEF NamesDiffer
    <2>2. ASSUME NEW x \in Key \ {k}, row.name # None, rows[x].name = row.name, Peers(x) = Peers(k)
          PROVE  FALSE
      <3>1. rows[x].there
        BY <2>2, ParentTables
      <3> QED
        BY <2>2, <3>1, OwnTable DEF Fits, NameFree
    <2> QED
      BY <2>1, <2>2, <1>1
  <1> QED
    BY <1>2, <1>3, <1>4

\* A row goes, and with a product its variants: nothing refers to them then.
LEMMA DeleteConsistent ==
  ASSUME Consistent, NEW k \in Key, Delete(k)
  PROVE  Consistent'
  <1> USE DEF Consistent, RowsTyped, Delete
  <1> DEFINE Left(x) == x = k \/ (k \in Product /\ rows[x].parent = k)
  <1>1. \A x \in Key : rows'[x] = IF Left(x) THEN Gone ELSE rows[x]
    OBVIOUS
  <1>2. RowsTyped'
    BY RowTyped
  <1>3. ParentsKept'
    <2> SUFFICES ASSUME NEW x \in Key, rows'[x].parent # None
                 PROVE  rows'[rows'[x].parent].there
      BY DEF ParentsKept
    <2>1. ~Left(x) /\ rows'[x] = rows[x]
      BY <1>1 DEF Gone
    <2> DEFINE p == rows[x].parent
    <2>2. p \in Key /\ rows[p].there
      BY <2>1, ParentTables DEF ParentsKept
    <2>3. ~Left(p)
      <3>1. p # k
        BY <2>1, <2>2, ParentTables DEF Key
      <3>2. ASSUME k \in Product, rows[p].parent = k PROVE FALSE
        <4>1. p \in Variant
          BY <3>2, <2>2, ParentTables
        <4> QED
          BY <4>1, ParentTables
      <3> QED
        BY <3>1, <3>2
    <2> QED
      BY <2>1, <2>2, <2>3, <1>1
  <1>4. NamesDiffer'
    BY <1>1 DEF NamesDiffer, Gone
  <1> QED
    BY <1>2, <1>3, <1>4

-----------------------------------------------------------------------------
(* Theorems.                                                               *)

\* At the start there are no rows.
LEMMA InitConsistent == Init => Consistent
  BY RowTyped DEF Init, Consistent, RowsTyped, ParentsKept, NamesDiffer, Gone

\* Every kind of request leaves the rows consistent.
LEMMA StepConsistent == Consistent /\ [Next]_store => Consistent'
  <1> SUFFICES ASSUME Consistent, [Next]_store PROVE Consistent'
    OBVIOUS
  <1>1. CASE UNCHANGED store \/ \E k \in Key : Vain(k)
    <2>1. rows' = rows
      BY <1>1 DEF store, Vain
    <2> QED
      BY <2>1 DEF Consistent, RowsTyped, ParentsKept, NamesDiffer
  <1>2. ASSUME NEW k \in Key, Create(k) PROVE Consistent'
    BY <1>2, PutConsistent DEF Create
  <1>3. ASSUME NEW k \in Key, Update(k) PROVE Consistent'
    <2>1. PICK row \in RowOf(k) : Fits(k, row) /\ rows' = [rows EXCEPT ![k] = row]
      BY <1>3 DEF Update
    <2>2. rows' = [x \in Key |-> IF x = k THEN row
                                 ELSE IF FALSE /\ k \in Variant /\ x = row.parent
                                 THEN [rows[x] EXCEPT !.flag = TRUE] ELSE rows[x]]
      BY <2>1 DEF Consistent, RowsTyped
    <2> QED
      BY <2>1, <2>2, PutConsistent
  <1>4. ASSUME NEW k \in Key, Delete(k) PROVE Consistent'
    BY <1>4, DeleteConsistent
  <1> QED
    BY <1>1, <1>2, <1>3, <1>4 DEF Next

\* Every answered request leaves the rows consistent, for any catalogue.
THEOREM StoreConsistent == Spec => []Consistent
  BY InitConsistent, StepConsistent, PTL DEF Spec
=============================================================================
