-------------------------- MODULE DeploymentProofs --------------------------
(***************************************************************************)
(* Theorems about the operator's tools: the migration of the variants, its *)
(* downgrade and the import of the seed files, for any number of variants, *)
(* codes and imports, whatever the files hold and clients change.          *)
(***************************************************************************)
EXTENDS Deployment, TLAPS

-----------------------------------------------------------------------------
(* The inductive invariant.                                                *)

\* What an import has inserted it has behind it, in the order of run(); past the
\* variants, or with their table found empty, it keeps migrations from committing.
InOrder ==
    \A i \in Importer :
        /\ \A n \in DOMAIN Tables : Tables[n] \in import[i].loads => n < import[i].at
        /\ import[i].at > 3 \/ (import[i].at = 3 /\ import[i].counted) => schema = "merged"

\* The rows that an import's own rows refer to stay until it commits.
RefersToRows ==
    \A i \in Importer :
        /\ "products" \in import[i].loads => "categories" \in filled \cup import[i].loads
        /\ "variants" \in import[i].loads => "products" \in filled \cup import[i].loads

\* Primary keys let one import insert at a time, and nobody else its keys.
KeysApart ==
    /\ \A i, k \in Importer : \A t \in Keyed :
          (t \in import[i].loads /\ t \in import[k].loads) => i = k
    /\ Loading("variants") => ~Clash

\* The import has the file of activities inserted, or found the table empty.
HistoryOf(job) == "activity" \in job.loads \/ (job.at = 6 /\ job.counted)
LoadsHistory(i) == HistoryOf(import[i])

\* As long as nobody has filled activity_log nobody has filled anything, so that
\* an import past the categories has inserted them; only one has.
HistoryInv ==
    /\ activity <= 1
    /\ activity = 1 => "activity" \in filled /\ \A i \in Importer : ~LoadsHistory(i)
    /\ \A i, k \in Importer : (LoadsHistory(i) /\ LoadsHistory(k)) => i = k
    /\ "activity" \notin filled =>
          /\ filled = {}
          /\ \A i \in Importer :
                /\ import[i].at > 1 => "categories" \in import[i].loads
                /\ import[i].at = 7 => "activity" \in import[i].loads

\* An upgrade has copied the tables as they are.
CopiedUp ==
    /\ alembic.at \in {"chassis", "merge"} =>
          /\ schema = "split"
          /\ \A v \in Variant : (alembic.at = "chassis" \/ chassis[v] = None) =>
                alembic.variants[v] =
                    IF jupiter[v] = None THEN None ELSE FromJupiter(jupiter[v])
    /\ alembic.at = "merge" =>
          \A v \in Variant : chassis[v] # None =>
              jupiter[v] = None /\ alembic.variants[v] = FromChassis(chassis[v])

\* A downgrade has copied every row that was not written meanwhile, and the
\* products it copied rows of are still there.
CopiedDown ==
    /\ alembic.at \in {"uncoded", "split"} =>
          /\ schema = "merged" /\ CodesUnique(alembic.jupiter)
          /\ Ids(alembic.jupiter) \cup Ids(alembic.chassis) # {} => "products" \in filled
          /\ \A v \in Variant \ alembic.late :
                /\ alembic.jupiter[v] = IF Coded(v) THEN ToJupiter(variants[v]) ELSE None
                /\ Coded(v) => variants[v].code \in Code
    /\ alembic.at = "split" =>
          \A v \in Variant \ alembic.late :
              /\ alembic.chassis[v] = IF Uncoded(v) THEN ToChassis(variants[v]) ELSE None
              /\ Uncoded(v) => ~variants[v].wide

IInv ==
    /\ TypeOK /\ ReferencesHold
    /\ InOrder /\ RefersToRows /\ KeysApart /\ HistoryInv
    /\ CopiedUp /\ CopiedDown
-----------------------------------------------------------------------------
(* Tables, rows and what the migration makes of them.                      *)

\* The order in which run() loads the tables.
LEMMA TableNames ==
  /\ DOMAIN Tables = 1 .. 6 /\ Len(Tables) = 6
  /\ Tables[1] = "categories" /\ Tables[2] = "products" /\ Tables[3] = "variants"
  /\ Tables[4] = "accessories" /\ Tables[5] = "enquiries" /\ Tables[6] = "activity"
  BY DEF Tables

\* Every table is named by its place.
LEMMA TablePlaces ==
  {Tables[n] : n \in DOMAIN Tables} =
      {"categories", "products", "variants", "accessories", "enquiries", "activity"}
  BY DEF Tables

\* The files hold variants.
LEMMA WrittenAreVariants == Ids(FileRows) \in SUBSET Variant
  BY DEF Ids

\* A row is what its columns are, and no row is None.
LEMMA RowsAre ==
  /\ \A row \in JupiterRow : row = [code |-> row.code, wide |-> row.wide] /\ row # None
  /\ \A row \in ChassisRow : row = [card |-> row.card] /\ row # None
  /\ \A row \in VariantRow :
        row = [code |-> row.code, wide |-> row.wide, card |-> row.card] /\ row # None
  BY FilesAssumption DEF JupiterRow, ChassisRow, VariantRow

\* What a row becomes in the other table is a row of it, and can be taken back.
LEMMA Upgraded ==
  /\ \A row \in JupiterRow :
        FromJupiter(row) \in VariantRow /\ FromJupiter(row).code = row.code
          /\ FromJupiter(row) # None /\ ToJupiter(FromJupiter(row)) = row
  /\ \A row \in ChassisRow :
        FromChassis(row) \in VariantRow /\ FromChassis(row).code = None
          /\ FromChassis(row) # None /\ ToChassis(FromChassis(row)) = row
  <1>1. ASSUME NEW row \in JupiterRow
        PROVE  FromJupiter(row) \in VariantRow /\ FromJupiter(row).code = row.code
                 /\ ToJupiter(FromJupiter(row)) = row
    <2>1. row.code \in Code /\ row.wide \in BOOLEAN
      BY DEF JupiterRow
    <2> QED
      BY <2>1, RowsAre DEF FromJupiter, ToJupiter, VariantRow
  <1>2. ASSUME NEW row \in ChassisRow
        PROVE  FromChassis(row) \in VariantRow /\ FromChassis(row).code = None
                 /\ ToChassis(FromChassis(row)) = row
    <2>1. row.card \in BOOLEAN
      BY DEF ChassisRow
    <2> QED
      BY <2>1, RowsAre DEF FromChassis, ToChassis, VariantRow
  <1> QED
    BY <1>1, <1>2, RowsAre

\* What a downgrade makes of a row; an upgrade gives it back, but for the card of a
\* Jupiter product.
LEMMA Downgraded ==
  ASSUME NEW row \in VariantRow
  PROVE  /\ row.code \in Code =>
               ToJupiter(row) \in JupiterRow /\ ToJupiter(row).code = row.code
                 /\ ToJupiter(row) # None
         /\ ToChassis(row) \in ChassisRow /\ ToChassis(row) # None
         /\ FromJupiter(ToJupiter(row)) = [row EXCEPT !.card = FALSE]
         /\ row.code = None /\ ~row.wide => FromChassis(ToChassis(row)) = row
  <1>1. /\ row.code \in Code \cup LongCode \cup {None}
        /\ row.wide \in BOOLEAN /\ row.card \in BOOLEAN
        /\ row = [code |-> row.code, wide |-> row.wide, card |-> row.card]
    BY RowsAre DEF VariantRow
  <1>2. row.code \in Code =>
           ToJupiter(row) \in JupiterRow /\ ToJupiter(row).code = row.code
    BY <1>1 DEF ToJupiter, JupiterRow
  <1>3. ToChassis(row) \in ChassisRow
    BY <1>1 DEF ToChassis, ChassisRow
  <1>4. FromJupiter(ToJupiter(row)) = [row EXCEPT !.card = FALSE]
    <2> DEFINE x == [row EXCEPT !.card = FALSE]
    <2>1. x \in VariantRow /\ x.code = row.code /\ x.wide = row.wide /\ x.card = FALSE
      BY DEF VariantRow
    <2> HIDE DEF x
    <2>2. x = [code |-> x.code, wide |-> x.wide, card |-> x.card]
      BY <2>1, RowsAre
    <2>3. x = [code |-> row.code, wide |-> row.wide, card |-> FALSE]
      BY <2>1, <2>2
    <2> QED
      BY <2>3 DEF x, FromJupiter, ToJupiter
  <1>5. row.code = None /\ ~row.wide => FromChassis(ToChassis(row)) = row
    BY <1>1 DEF FromChassis, ToChassis
  <1> QED
    BY <1>2, <1>3, <1>4, <1>5, RowsAre

\* Nobody reads variants: no import is past it, or has found it empty.
LEMMA NotReading ==
  ASSUME TypeOK, ~Reading("variants"), NEW i \in Importer
  PROVE  ~(import[i].at > 3 \/ (import[i].at = 3 /\ import[i].counted))
  <1>1. import[i].at \in 0 .. 7
    BY DEF TypeOK
  <1> SUFFICES ASSUME import[i].at > 3 \/ (import[i].at = 3 /\ import[i].counted)
               PROVE  FALSE
    OBVIOUS
  <1>2. 3 \in 1 .. import[i].at /\ Tables[3] = "variants"
          /\ (3 < import[i].at \/ import[i].counted) /\ import[i].at > 0
    BY <1>1, TableNames
  <1> QED
    BY <1>2 DEF Reading

-----------------------------------------------------------------------------
(* The steps of an import that only the import itself sees.                *)

ImportRow == [at : 0 .. 7, counted : BOOLEAN, loads : SUBSET {Tables[n] : n \in DOMAIN Tables}]

\* What import i may become without a change of anything else.
FitsIn(i, next) ==
    /\ next \in ImportRow
    /\ \A n \in DOMAIN Tables : Tables[n] \in next.loads => n < next.at
    /\ next.at > 3 \/ (next.at = 3 /\ next.counted) => schema = "merged"
    /\ "products" \in next.loads => "categories" \in filled \cup next.loads
    /\ "variants" \in next.loads => "products" \in filled \cup next.loads
    /\ \A k \in Importer \ {i} : \A t \in Keyed : t \in next.loads => t \notin import[k].loads
    /\ "variants" \in next.loads => ~Clash
    /\ HistoryOf(next) => activity = 0 /\ \A k \in Importer \ {i} : ~LoadsHistory(k)
    /\ "activity" \notin filled => /\ next.at > 1 => "categories" \in next.loads
                                   /\ next.at = 7 => "activity" \in next.loads

\* An import goes on to the next table.
LEMMA GoKeeps ==
  ASSUME IInv, NEW i \in Importer, NEW next, Go(i, next), FitsIn(i, next)
  PROVE  IInv'
  <1> USE DEF IInv, Go, FitsIn
  <1>0. /\ import'[i] = next
        /\ \A k \in Importer \ {i} : import'[k] = import[k]
        /\ import \in [Importer -> ImportRow] /\ import' \in [Importer -> ImportRow]
    BY DEF TypeOK, ImportRow
  <1>1. TypeOK'
    BY <1>0 DEF TypeOK, ImportRow
  <1>2. ReferencesHold'
    BY DEF ReferencesHold
  <1>3. InOrder'
    BY <1>0 DEF InOrder
  <1>4. RefersToRows'
    BY <1>0 DEF RefersToRows
  <1>5. KeysApart'
    <2>1. \A k, m \in Importer : \A t \in Keyed :
             (t \in import'[k].loads /\ t \in import'[m].loads) => k = m
      BY <1>0 DEF KeysApart
    <2>2. Loading("variants")' => Loading("variants") \/ "variants" \in next.loads
      BY <1>0 DEF Loading
    <2>3. Clash' = Clash
      BY DEF Clash
    <2> QED
      BY <2>1, <2>2, <2>3 DEF KeysApart
  <1>6. HistoryInv'
    <2>1. /\ LoadsHistory(i)' <=> HistoryOf(next)
          /\ \A k \in Importer \ {i} : LoadsHistory(k)' <=> LoadsHistory(k)
      BY <1>0 DEF LoadsHistory
    <2>2. activity' = 1 => "activity" \in filled' /\ \A k \in Importer : ~LoadsHistory(k)'
      BY <2>1 DEF HistoryInv
    <2>3. \A k, m \in Importer : (LoadsHistory(k)' /\ LoadsHistory(m)') => k = m
      BY <2>1 DEF HistoryInv
    <2>4. "activity" \notin filled' =>
             /\ filled' = {}
             /\ \A k \in Importer :
                   /\ import'[k].at > 1 => "categories" \in import'[k].loads
                   /\ import'[k].at = 7 => "activity" \in import'[k].loads
      BY <1>0 DEF HistoryInv
    <2> QED
      BY <2>2, <2>3, <2>4 DEF HistoryInv
  <1>7. CopiedUp' /\ CopiedDown'
    BY DEF CopiedUp, CopiedDown, Coded, Uncoded
  <1> QED
    BY <1>1, <1>2, <1>3, <1>4, <1>5, <1>6, <1>7

\* An import that has not begun, or is gone.
LEMMA NoImportFits ==
  ASSUME NEW i \in Importer
  PROVE  FitsIn(i, NoImport) /\ FitsIn(i, [NoImport EXCEPT !.at = 1])
  <1> DEFINE x == [NoImport EXCEPT !.at = 1]
  <1>1. NoImport \in ImportRow /\ NoImport.at = 0 /\ ~NoImport.counted /\ NoImport.loads = {}
    BY DEF NoImport, ImportRow
  <1>2. x \in ImportRow /\ x.at = 1 /\ ~x.counted /\ x.loads = {}
    BY <1>1 DEF ImportRow
  <1> HIDE DEF x
  <1>3. FitsIn(i, NoImport)
    BY <1>1, TableNames DEF FitsIn, HistoryOf
  <1>4. FitsIn(i, x)
    BY <1>2, TableNames DEF FitsIn, HistoryOf
  <1> QED
    BY <1>3, <1>4 DEF x

\* The import's SELECT count(*) of a table.
LEMMA CountRowsKeeps ==
  ASSUME IInv, NEW i \in Importer, CountRows(i)
  PROVE  IInv'
  <1> USE DEF IInv
  <1> DEFINE t == Tables[import[i].at]
             past == [import[i] EXCEPT !.at = @ + 1]
             free == [import[i] EXCEPT !.counted = TRUE]
  <1>0. import[i] \in ImportRow /\ import[i].at \in 1 .. 6 /\ ~import[i].counted
    BY TableNames DEF TypeOK, ImportRow, CountRows
  <1>1. /\ past \in ImportRow /\ past.at = import[i].at + 1
        /\ past.counted = FALSE /\ past.loads = import[i].loads
    BY <1>0 DEF ImportRow
  <1>2. /\ free \in ImportRow /\ free.at = import[i].at
        /\ free.counted = TRUE /\ free.loads = import[i].loads
    BY <1>0 DEF ImportRow
  <1>3. \/ HasRows(t) /\ Go(i, past)
        \/ ~HasRows(t) /\ Go(i, free)
    BY DEF CountRows
  <1>4. t = "variants" => schema = "merged"
    BY DEF CountRows
  <1> HIDE DEF past, free
  <1>5. CASE HasRows(t) /\ Go(i, past)
    <2>1. "activity" \notin filled => import[i].at = 3
      <3>1. "activity" \notin filled => filled = {}
        BY DEF HistoryInv
      <3> QED
        BY <1>5, <3>1 , <1>0, TableNames DEF HasRows
    <2>2. FitsIn(i, past)
      BY <1>0, <1>1, <1>4, <2>1, TableNames
      DEF FitsIn, InOrder, RefersToRows, KeysApart, HistoryInv, HistoryOf, LoadsHistory, Loading
    <2> QED
      BY <1>5, <2>2, GoKeeps
  <1>6. CASE ~HasRows(t) /\ Go(i, free)
    <2>1. FitsIn(i, free)
      BY <1>0, <1>2, <1>4, <1>6, TableNames
      DEF FitsIn, InOrder, RefersToRows, KeysApart, HistoryInv, HistoryOf, LoadsHistory, Loading,
          HasRows, Keyed, TypeOK
    <2> QED
      BY <1>6, <2>1, GoKeeps
  <1> QED
    BY <1>3, <1>5, <1>6

\* The import's INSERTs, which wait for the keys another import has inserted.
LEMMA InsertRowsKeeps ==
  ASSUME IInv, NEW i \in Importer, InsertRows(i)
  PROVE  IInv'
  <1> USE DEF IInv
  <1> DEFINE t == Tables[import[i].at]
             x == [import[i] EXCEPT !.at = @ + 1, !.counted = FALSE, !.loads = @ \cup {t}]
  <1>0. import[i] \in ImportRow /\ import[i].at \in 1 .. 6 /\ import[i].counted
    BY TableNames DEF TypeOK, ImportRow, InsertRows
  <1>1. /\ x \in ImportRow /\ x.at = import[i].at + 1
        /\ x.counted = FALSE /\ x.loads = import[i].loads \cup {t}
    <2> DEFINE Names == {Tables[n] : n \in DOMAIN Tables}
               L == import[i].loads \cup {t}
               a == import[i].at + 1
    <2>1. L \in SUBSET Names /\ a \in 0 .. 7
      BY <1>0, TableNames DEF ImportRow
    <2>2. x = [import[i] EXCEPT !.at = a, !.counted = FALSE, !.loads = L]
      OBVIOUS
    <2>3. import[i] \in [at : 0 .. 7, counted : BOOLEAN, loads : SUBSET Names]
      BY <1>0 DEF ImportRow
    <2> HIDE DEF L, a, Names, x
    <2>4. /\ x \in [at : 0 .. 7, counted : BOOLEAN, loads : SUBSET Names]
          /\ x.at = a /\ x.counted = FALSE /\ x.loads = L
      BY <2>1, <2>2, <2>3
    <2> QED
      BY <2>4 DEF L, a, Names, ImportRow
  <1>2. /\ Go(i, x)
        /\ t \in Keyed => ~Loading(t)
        /\ t = "variants" => ~Clash
        /\ \A s \in References(t) : s \in filled \cup import[i].loads
    BY DEF InsertRows
  <1> HIDE DEF x
  <1>3. \A n \in DOMAIN Tables : Tables[n] \in x.loads => n < x.at
    <2>1. \A n \in DOMAIN Tables : Tables[n] = t => n = import[i].at
      BY <1>0, TableNames
    <2> QED
      BY <1>0, <1>1, <2>1, TableNames DEF InOrder
  <1>4. x.at > 3 \/ (x.at = 3 /\ x.counted) => schema = "merged"
    BY <1>0, <1>1 DEF InOrder
  <1>5. /\ "products" \in x.loads => "categories" \in filled \cup x.loads
        /\ "variants" \in x.loads => "products" \in filled \cup x.loads
    BY <1>1, <1>2 DEF RefersToRows, References
  <1>6. /\ \A k \in Importer \ {i} : \A s \in Keyed : s \in x.loads => s \notin import[k].loads
        /\ "variants" \in x.loads => ~Clash
    BY <1>1, <1>2 DEF KeysApart, Loading
  <1>7. HistoryOf(x) => activity = 0 /\ \A k \in Importer \ {i} : ~LoadsHistory(k)
    <2>1. HistoryOf(x) => LoadsHistory(i)
      BY <1>0, <1>1, TableNames DEF HistoryOf, LoadsHistory
    <2> QED
      BY <2>1 DEF HistoryInv, TypeOK
  <1>8. "activity" \notin filled => /\ x.at > 1 => "categories" \in x.loads
                                    /\ x.at = 7 => "activity" \in x.loads
    BY <1>0, <1>1, TableNames DEF HistoryInv
  <1>9. FitsIn(i, x)
    BY <1>1, <1>3, <1>4, <1>5, <1>6, <1>7, <1>8 DEF FitsIn
  <1> QED
    BY <1>2, <1>9, GoKeeps

MigrationRow ==
    [at : {"idle", "chassis", "merge", "uncoded", "split"},
     jupiter : Rows(JupiterRow), chassis : Rows(ChassisRow),
     variants : Rows(VariantRow), late : SUBSET Variant]

\* Writers of variants leave the copies of a migration as they are; the rows of S
\* are written too late for it.
LEMMA CopiesStay ==
  ASSUME IInv, NEW S \in SUBSET Variant, schema = "merged",
         schema' = schema, jupiter' = jupiter, chassis' = chassis,
         \A v \in Variant \ S : variants'[v] = variants[v],
         alembic' = Late(S) \/ (S = {} /\ alembic' = alembic),
         alembic.at = "idle" \/ ("products" \in filled => "products" \in filled')
  PROVE  alembic' \in MigrationRow /\ CopiedUp' /\ CopiedDown'
  <1> USE DEF IInv
  <1>1. alembic \in MigrationRow
    BY DEF TypeOK, MigrationRow
  <1>2. /\ alembic' \in MigrationRow /\ alembic'.at = alembic.at
        /\ alembic'.jupiter = alembic.jupiter /\ alembic'.chassis = alembic.chassis
        /\ alembic.at \in {"uncoded", "split"} => alembic'.late = alembic.late \cup S
    <2>1. CASE alembic' = alembic /\ S = {}
      BY <1>1, <2>1
    <2>2. CASE alembic' = Late(S)
      <3> DEFINE L == IF alembic.at \in {"uncoded", "split"} THEN alembic.late \cup S
                                                           ELSE alembic.late
      <3>1. alembic' = [alembic EXCEPT !.late = L]
        BY <2>2 DEF Late
      <3>2. L \in SUBSET Variant
        BY <1>1 DEF MigrationRow
      <3>3. alembic.at \in {"uncoded", "split"} => L = alembic.late \cup S
        OBVIOUS
      <3> HIDE DEF L
      <3>4. /\ alembic' \in MigrationRow /\ alembic'.at = alembic.at
            /\ alembic'.jupiter = alembic.jupiter /\ alembic'.chassis = alembic.chassis
            /\ alembic'.late = L
        BY <1>1, <3>1, <3>2 DEF MigrationRow
      <3> QED
        BY <3>3, <3>4
    <2> QED
      BY <2>1, <2>2
  <1>3. \A v \in Variant \ S :
           variants'[v] = variants[v] /\ Coded(v)' = Coded(v) /\ Uncoded(v)' = Uncoded(v)
    BY DEF Coded, Uncoded
  <1>4. CopiedUp'
    BY <1>2 DEF CopiedUp
  <1>5. CopiedDown'
    BY <1>2, <1>3 DEF CopiedDown
  <1> QED
    BY <1>2, <1>4, <1>5

\* The transaction of an import that has done with all tables.
LEMMA CommitKeeps ==
  ASSUME IInv, NEW i \in Importer, Commit(i)
  PROVE  IInv'
  <1> USE DEF IInv
  <1> DEFINE loads == import[i].loads
  <1>0. /\ import'[i] = NoImport /\ \A k \in Importer \ {i} : import'[k] = import[k]
        /\ import[i] \in ImportRow /\ import[i].at = 7
        /\ import \in [Importer -> ImportRow] /\ import' \in [Importer -> ImportRow]
    BY TableNames DEF TypeOK, ImportRow, Commit, NoImport
  <1>1. /\ NoImport.at = 0 /\ ~NoImport.counted /\ NoImport.loads = {}
        /\ ~HistoryOf(NoImport)
    BY DEF NoImport, HistoryOf
  <1>2. /\ filled' = filled \cup (loads \ {"variants"})
        /\ schema' = schema /\ jupiter' = jupiter /\ chassis' = chassis
        /\ schema = "merged"
    BY <1>0 DEF Commit, InOrder
  <1>3. /\ variants' \in Rows(VariantRow) /\ CodesUnique(variants')
        /\ Ids(variants') # {} => Ids(variants) # {} \/ "variants" \in loads
    <2>1. CASE "variants" \notin loads
      BY <2>1 DEF Commit, TypeOK
    <2>2. CASE "variants" \in loads
      <3>1. variants' = [v \in Variant |-> IF FileRows[v] = None THEN variants[v] ELSE FileRows[v]]
        BY <2>2 DEF Commit
      <3>2. FileRows \in Rows(VariantRow) /\ CodesUnique(FileRows)
              /\ variants \in Rows(VariantRow) /\ CodesUnique(variants)
        BY FilesAssumption DEF TypeOK
      <3>3. ~Clash
        BY <2>2 DEF KeysApart, Loading
      <3>4. variants' \in Rows(VariantRow)
        BY <3>1, <3>2 DEF Rows
      <3>5. ASSUME NEW v \in Ids(variants'), NEW w \in Ids(variants'),
                   variants'[v].code = variants'[w].code, variants'[v].code # None
            PROVE  v = w
        BY <3>1, <3>2, <3>3, <3>5 DEF Ids, CodesUnique, Clash
      <3> QED
        BY <2>2, <3>4, <3>5 DEF CodesUnique
    <2> QED
      BY <2>1, <2>2
  <1>4. \/ "variants" \notin loads /\ alembic' = alembic /\ variants' = variants
        \/ /\ "variants" \in loads /\ alembic' = Late(Ids(FileRows))
           /\ \A v \in Variant \ Ids(FileRows) : variants'[v] = variants[v]
    BY DEF Commit, Ids
  <1>5. alembic' \in MigrationRow /\ CopiedUp' /\ CopiedDown'
    <2>1. "products" \in filled => "products" \in filled'
      BY <1>2
    <2>2. Ids(FileRows) \in SUBSET Variant
      BY WrittenAreVariants
    <2>3. CASE "variants" \notin loads
      <3>1. {} \in SUBSET Variant /\ \A v \in Variant \ {} : variants'[v] = variants[v]
        BY <1>4, <2>3
      <3>2. alembic' = alembic
        BY <1>4, <2>3
      <3> HIDE DEF IInv
      <3> QED
        BY <1>2, <2>1, <3>1, <3>2, CopiesStay
    <2>4. CASE "variants" \in loads
      BY <1>2, <1>4, <2>1, <2>2, <2>4, CopiesStay
    <2> QED
      BY <2>3, <2>4
  <1>6. TypeOK'
    <2>1. filled' \subseteq {Tables[n] : n \in DOMAIN Tables} \ {"variants"}
      BY <1>0, <1>2 DEF TypeOK, ImportRow
    <2>2. activity' \in 0 .. 2
      BY DEF TypeOK, Commit
    <2> QED
      BY <1>0, <1>2, <1>3, <1>5, <2>1, <2>2 DEF TypeOK, ImportRow, MigrationRow
  <1>7. ReferencesHold'
    BY <1>2, <1>3 DEF ReferencesHold, RefersToRows
  <1>8. InOrder' /\ RefersToRows'
    BY <1>0, <1>1, <1>2 DEF InOrder, RefersToRows
  <1>9. KeysApart'
    <2>1. \A k, m \in Importer : \A t \in Keyed :
             (t \in import'[k].loads /\ t \in import'[m].loads) => k = m
      BY <1>0, <1>1 DEF KeysApart
    <2>2. Loading("variants")' => /\ Loading("variants") /\ "variants" \notin loads
      BY <1>0, <1>1 DEF Loading, KeysApart, Keyed
    <2>3. variants' = variants => Clash' = Clash
      BY DEF Clash
    <2> QED
      BY <1>4, <2>1, <2>2, <2>3 DEF KeysApart
  <1>10. HistoryInv'
    <2>1. /\ ~LoadsHistory(i)'
          /\ \A k \in Importer \ {i} : LoadsHistory(k)' <=> LoadsHistory(k)
      BY <1>0, <1>1 DEF LoadsHistory
    <2>2. CASE "activity" \in loads
      <3>1. LoadsHistory(i) /\ activity = 0
        BY <2>2 DEF LoadsHistory, HistoryOf, HistoryInv, TypeOK
      <3>2. activity' = 1 /\ "activity" \in filled'
        BY <1>2, <2>2, <3>1 DEF Commit
      <3>3. \A k \in Importer : ~LoadsHistory(k)'
        BY <2>1, <3>1 DEF HistoryInv
      <3> QED
        BY <3>2, <3>3 DEF HistoryInv
    <2>3. CASE "activity" \notin loads
      <3>1. activity' = activity
        BY <2>3 DEF Commit
      <3>2. "activity" \in filled
        BY <1>0, <2>3 DEF HistoryInv
      <3> QED
        BY <1>2, <2>1, <3>1, <3>2 DEF HistoryInv
    <2> QED
      BY <2>2, <2>3
  <1> QED
    BY <1>5, <1>6, <1>7, <1>8, <1>9, <1>10

-----------------------------------------------------------------------------
(* The clients.                                                            *)

\* A client creates, changes or deletes a variant; a downgrade that has copied it by
\* then misses the change.
LEMMA EditVariantKeeps ==
  ASSUME IInv, NEW v \in Editable, EditVariant(v)
  PROVE  IInv'
  <1> USE DEF IInv
  <1>0. v \in Variant
    BY FilesAssumption
  <1>1. /\ schema = "merged" /\ "products" \in filled /\ filled' = filled \cup {"activity"}
        /\ alembic' = Late({v}) /\ import' = import /\ activity' = activity
        /\ schema' = schema /\ jupiter' = jupiter /\ chassis' = chassis
        /\ Loading("variants") => FileRows[v] = None
    BY DEF EditVariant
  <1>2. PICK row \in VariantRow \cup {None} :
           /\ variants' = [variants EXCEPT ![v] = row]
           /\ CodesUnique(variants')
           /\ Loading("variants") /\ row # None =>
                 \A w \in Ids(FileRows) : row.code = None \/ row.code # FileRows[w].code
    BY DEF EditVariant
  <1>3. variants \in Rows(VariantRow)
    BY DEF TypeOK
  <1>4. /\ variants' \in Rows(VariantRow) /\ variants'[v] = row
        /\ \A w \in Variant \ {v} : variants'[w] = variants[w]
    BY <1>0, <1>2, <1>3 DEF Rows
  <1>5. alembic' \in MigrationRow /\ CopiedUp' /\ CopiedDown'
    <2>1. {v} \in SUBSET Variant /\ "products" \in filled'
      BY <1>0, <1>1
    <2> HIDE DEF IInv
    <2> QED
      BY <1>1, <1>4, <2>1, CopiesStay
  <1>6. TypeOK'
    <2>1. filled' \subseteq {Tables[n] : n \in DOMAIN Tables} \ {"variants"}
      BY <1>1, TablePlaces DEF TypeOK
    <2> QED
      BY <1>1, <1>2, <1>4, <1>5, <2>1 DEF TypeOK, MigrationRow
  <1>7. ReferencesHold' /\ InOrder' /\ RefersToRows'
    BY <1>1 DEF ReferencesHold, InOrder, RefersToRows
  <1>8. KeysApart'
    <2>1. Loading("variants")' = Loading("variants")
      BY <1>1 DEF Loading
    <2>2. Loading("variants") => ~Clash'
      BY <1>0, <1>1, <1>2, <1>4 DEF KeysApart, Clash, Ids
    <2> QED
      BY <1>1, <2>1, <2>2 DEF KeysApart
  <1>9. HistoryInv'
    BY <1>1 DEF HistoryInv, LoadsHistory
  <1> QED
    BY <1>5, <1>6, <1>7, <1>8, <1>9

\* A client fills a table.
LEMMA CreateKeeps ==
  ASSUME IInv, NEW t \in Changeable, Create(t)
  PROVE  IInv'
  <1> USE DEF IInv
  <1>1. /\ t \in Keyed \ filled /\ References(t) \subseteq filled
        /\ t # "variants" /\ filled' = filled \cup {t, "activity"}
        /\ UNCHANGED <<schema, jupiter, chassis, variants, activity, alembic, import>>
    BY FilesAssumption DEF Create
  <1>2. TypeOK'
    <2>1. filled' \subseteq {Tables[n] : n \in DOMAIN Tables} \ {"variants"}
      BY <1>1, TablePlaces DEF TypeOK, Keyed
    <2> QED
      BY <1>1, <2>1 DEF TypeOK
  <1>3. ReferencesHold'
    BY <1>1 DEF ReferencesHold, References
  <1>4. InOrder' /\ RefersToRows'
    BY <1>1 DEF InOrder, RefersToRows
  <1>5. KeysApart'
    BY <1>1 DEF KeysApart, Loading, Clash
  <1>6. HistoryInv'
    BY <1>1 DEF HistoryInv, LoadsHistory
  <1>7. CopiedUp' /\ CopiedDown'
    BY <1>1 DEF CopiedUp, CopiedDown, Coded, Uncoded
  <1> QED
    BY <1>2, <1>3, <1>4, <1>5, <1>6, <1>7

\* A table that was just created.
LEMMA EmptyTable ==
  /\ Ids(Empty) = {} /\ CodesUnique(Empty)
  /\ Empty \in Rows(JupiterRow) /\ Empty \in Rows(ChassisRow) /\ Empty \in Rows(VariantRow)
  BY DEF Empty, Ids, CodesUnique, Rows

\* A client empties a table.
LEMMA DeleteKeeps ==
  ASSUME IInv, NEW t \in Changeable, Delete(t)
  PROVE  IInv'
  <1> USE DEF IInv
  <1>1. /\ t \in filled /\ t # "variants" /\ t # "activity"
        /\ t = "categories" => "products" \notin filled /\ ~Loading("products")
        /\ t = "products" => ProductsUnlocked /\ ~Loading("variants")
        /\ filled' \subseteq filled \cup {"activity"} /\ filled \subseteq filled' \cup {t}
        /\ t \notin filled'
        /\ UNCHANGED <<schema, activity, alembic, import>>
    BY FilesAssumption DEF Delete
  <1>2. "activity" \in filled /\ "activity" \in filled'
    BY <1>1 DEF HistoryInv
  <1>3. \/ /\ t = "products" /\ jupiter' = Empty /\ chassis' = Empty /\ variants' = Empty
        \/ /\ t # "products" /\ UNCHANGED <<jupiter, chassis, variants>>
    BY DEF Delete
  <1>4. TypeOK'
    <2>1. filled' \subseteq {Tables[n] : n \in DOMAIN Tables} \ {"variants"}
      BY <1>1, <1>2 DEF TypeOK
    <2> QED
      BY <1>1, <1>3, <2>1, EmptyTable DEF TypeOK
  <1>5. ReferencesHold'
    BY <1>1, <1>3, EmptyTable DEF ReferencesHold
  <1>6. InOrder' /\ RefersToRows'
    BY <1>1 DEF InOrder, RefersToRows, Loading
  <1>7. KeysApart'
    <2>1. Loading("variants")' = Loading("variants")
      BY <1>1 DEF Loading
    <2>2. Loading("variants") => Clash' = Clash
      BY <1>1, <1>3 DEF Clash
    <2> QED
      BY <1>1, <2>1, <2>2 DEF KeysApart
  <1>8. HistoryInv'
    BY <1>1, <1>2 DEF HistoryInv, LoadsHistory
  <1>9. CopiedUp' /\ CopiedDown'
    <2>1. CASE t = "products"
      BY <1>1, <2>1 DEF CopiedUp, CopiedDown, ProductsUnlocked
    <2>2. CASE t # "products"
      BY <1>1, <1>3, <2>2 DEF CopiedUp, CopiedDown, Coded, Uncoded
    <2> QED
      BY <2>1, <2>2
  <1> QED
    BY <1>4, <1>5, <1>6, <1>7, <1>8, <1>9

-----------------------------------------------------------------------------
(* The migration.                                                          *)

\* A step that changes nothing but the copies leaves the rest true.
LEMMA CopyingKeeps ==
  ASSUME IInv, alembic' \in MigrationRow,
         UNCHANGED <<schema, jupiter, chassis, variants, filled, activity, import>>
  PROVE  /\ TypeOK' /\ ReferencesHold'
         /\ InOrder' /\ RefersToRows' /\ KeysApart' /\ HistoryInv'
  <1> USE DEF IInv
  <1>1. TypeOK' /\ ReferencesHold'
    BY DEF TypeOK, ReferencesHold, MigrationRow
  <1>2. InOrder' /\ RefersToRows' /\ KeysApart'
    BY DEF InOrder, RefersToRows, KeysApart, Loading, Clash
  <1>3. HistoryInv'
    BY DEF HistoryInv, LoadsHistory
  <1> QED
    BY <1>1, <1>2, <1>3

\* The state between two migrations.
LEMMA NoMigrationTyped == NoMigration \in MigrationRow /\ NoMigration.at = "idle"
  BY EmptyTable DEF NoMigration, MigrationRow

\* The upgrade copies jupiter_variants.
LEMMA CopyJupiterKeeps ==
  ASSUME IInv, CopyJupiter
  PROVE  IInv'
  <1> USE DEF IInv
  <1> DEFINE C == [v \in Variant |-> IF jupiter[v] = None THEN None ELSE FromJupiter(jupiter[v])]
  <1>1. C \in Rows(VariantRow)
    BY Upgraded DEF TypeOK, Rows
  <1>2. alembic' = [NoMigration EXCEPT !.at = "chassis", !.variants = C]
          /\ schema = "split"
          /\ UNCHANGED <<schema, jupiter, chassis, variants, filled, activity, import>>
    BY DEF CopyJupiter
  <1>3. \A v \in Variant : C[v] = IF jupiter[v] = None THEN None ELSE FromJupiter(jupiter[v])
    OBVIOUS
  <1> HIDE DEF C
  <1>4. alembic' \in MigrationRow /\ alembic'.at = "chassis" /\ alembic'.variants = C
    BY <1>1, <1>2, NoMigrationTyped DEF MigrationRow
  <1>5. CopiedUp' /\ CopiedDown'
    BY <1>2, <1>3, <1>4 DEF CopiedUp, CopiedDown
  <1> QED
    BY <1>2, <1>4, <1>5, CopyingKeeps

\* The upgrade copies chassis_variants, and fails on an id it has already.
LEMMA CopyChassisKeeps ==
  ASSUME IInv, CopyChassis
  PROVE  IInv'
  <1> USE DEF IInv
  <1> DEFINE C == [v \in Variant |->
                     IF chassis[v] = None THEN alembic.variants[v] ELSE FromChassis(chassis[v])]
  <1>0. alembic \in MigrationRow
    BY DEF TypeOK, MigrationRow
  <1>1. C \in Rows(VariantRow)
    BY <1>0, Upgraded DEF TypeOK, Rows, MigrationRow
  <1>2. alembic' = [alembic EXCEPT !.at = "merge", !.variants = C]
          /\ alembic.at = "chassis" /\ Ids(jupiter) \cap Ids(chassis) = {}
          /\ UNCHANGED <<schema, jupiter, chassis, variants, filled, activity, import>>
    BY DEF CopyChassis
  <1>3. \A v \in Variant :
           C[v] = IF chassis[v] = None THEN alembic.variants[v] ELSE FromChassis(chassis[v])
    OBVIOUS
  <1> HIDE DEF C
  <1>4. alembic' \in MigrationRow /\ alembic'.at = "merge" /\ alembic'.variants = C
    BY <1>0, <1>1, <1>2 DEF MigrationRow
  <1>5. CopiedUp' /\ CopiedDown'
    BY <1>2, <1>3, <1>4 DEF CopiedUp, CopiedDown, Ids
  <1> QED
    BY <1>2, <1>4, <1>5, CopyingKeeps

\* The downgrade copies the variants with a code, which refer to products that are there.
LEMMA CopyCodedKeeps ==
  ASSUME IInv, CopyCoded
  PROVE  IInv'
  <1> USE DEF IInv
  <1> DEFINE C == [v \in Variant |-> IF Coded(v) THEN ToJupiter(variants[v]) ELSE None]
  <1>1. /\ \A v \in Variant : Coded(v) => variants[v].code \in Code
        /\ schema = "merged"
        /\ alembic' = [NoMigration EXCEPT !.at = "uncoded", !.jupiter = C]
        /\ UNCHANGED <<schema, jupiter, chassis, variants, filled, activity, import>>
    BY DEF CopyCoded
  <1>2. \A v \in Variant : C[v] = IF Coded(v) THEN ToJupiter(variants[v]) ELSE None
    OBVIOUS
  <1>3. \A v \in Variant : Coded(v) =>
           /\ v \in Ids(variants) /\ variants[v].code # None
           /\ ToJupiter(variants[v]) \in JupiterRow
           /\ ToJupiter(variants[v]).code = variants[v].code
    BY <1>1, Downgraded DEF TypeOK, Rows, Coded, Ids
  <1>4. C \in Rows(JupiterRow)
    BY <1>3 DEF Rows
  <1> HIDE DEF C
  <1>5. \A v \in Ids(C) : Coded(v) /\ v \in Variant
    BY <1>2 DEF Ids
  <1>6. CodesUnique(C)
    BY <1>2, <1>3, <1>5 DEF CodesUnique, TypeOK
  <1>7. /\ alembic' \in MigrationRow /\ alembic'.at = "uncoded"
        /\ alembic'.jupiter = C /\ alembic'.chassis = Empty
    BY <1>1, <1>4, NoMigrationTyped DEF MigrationRow, NoMigration
  <1>8. \A v \in Variant : Coded(v)' = Coded(v)
    BY <1>1 DEF Coded
  <1>9. CopiedDown'
    <2>1. Ids(C) # {} => "products" \in filled
      BY <1>3, <1>5 DEF ReferencesHold
    <2> QED
      BY <1>1, <1>2, <1>6, <1>7, <1>8, <2>1, EmptyTable DEF CopiedDown
  <1>10. CopiedUp'
    BY <1>7 DEF CopiedUp
  <1> QED
    BY <1>1, <1>7, <1>9, <1>10, CopyingKeeps

\* The downgrade copies the variants without a code.
LEMMA CopyUncodedKeeps ==
  ASSUME IInv, CopyUncoded
  PROVE  IInv'
  <1> USE DEF IInv
  <1> DEFINE C == [v \in Variant |-> IF Uncoded(v) THEN ToChassis(variants[v]) ELSE None]
  <1>0. alembic \in MigrationRow
    BY DEF TypeOK, MigrationRow
  <1>1. /\ \A v \in Variant : Uncoded(v) => ~variants[v].wide
        /\ alembic.at = "uncoded"
        /\ alembic' = [alembic EXCEPT !.at = "split", !.chassis = C]
        /\ UNCHANGED <<schema, jupiter, chassis, variants, filled, activity, import>>
    BY DEF CopyUncoded
  <1>2. \A v \in Variant : C[v] = IF Uncoded(v) THEN ToChassis(variants[v]) ELSE None
    OBVIOUS
  <1>3. \A v \in Variant : Uncoded(v) =>
           v \in Ids(variants) /\ ToChassis(variants[v]) \in ChassisRow
    BY Downgraded DEF TypeOK, Rows, Uncoded, Ids
  <1>4. C \in Rows(ChassisRow)
    BY <1>3 DEF Rows
  <1> HIDE DEF C
  <1>5. /\ alembic' \in MigrationRow /\ alembic'.at = "split" /\ alembic'.chassis = C
        /\ alembic'.jupiter = alembic.jupiter /\ alembic'.late = alembic.late
    BY <1>0, <1>1, <1>4 DEF MigrationRow
  <1>6. \A v \in Variant : Coded(v)' = Coded(v) /\ Uncoded(v)' = Uncoded(v)
    BY <1>1 DEF Coded, Uncoded
  <1>7. CopiedDown'
    <2>1. Ids(C) # {} => "products" \in filled
      BY <1>2, <1>3 DEF ReferencesHold, Ids
    <2> QED
      BY <1>1, <1>2, <1>5, <1>6, <2>1 DEF CopiedDown
  <1>8. CopiedUp'
    BY <1>5 DEF CopiedUp
  <1> QED
    BY <1>1, <1>5, <1>7, <1>8, CopyingKeeps

\* A migration that fails leaves the tables as they were.
LEMMA RollbackKeeps ==
  ASSUME IInv, Rollback
  PROVE  IInv'
  <1> USE DEF IInv
  <1>1. /\ alembic' \in MigrationRow /\ alembic'.at = "idle"
        /\ UNCHANGED <<schema, jupiter, chassis, variants, filled, activity, import>>
    BY NoMigrationTyped DEF Rollback
  <1>2. CopiedUp' /\ CopiedDown'
    BY <1>1 DEF CopiedUp, CopiedDown
  <1> QED
    BY <1>1, <1>2, CopyingKeeps

\* No import holds rows of variants when a migration commits.
LEMMA NobodyInTheWay ==
  ASSUME IInv, DropAllowed, NEW i \in Importer
  PROVE  /\ ~(import[i].at > 3 \/ (import[i].at = 3 /\ import[i].counted))
         /\ "variants" \notin import[i].loads
  <1> USE DEF IInv
  <1>1. ~(import[i].at > 3 \/ (import[i].at = 3 /\ import[i].counted))
    BY NotReading DEF DropAllowed
  <1>2. "variants" \in import[i].loads => 3 < import[i].at
    BY TableNames DEF InOrder
  <1> QED
    BY <1>1, <1>2

\* A commit of either migration, with the tables it leaves.
LEMMA SwitchKeeps ==
  ASSUME IInv, DropAllowed, schema' \in {"split", "merged"}, alembic' = NoMigration,
         jupiter' \in Rows(JupiterRow), chassis' \in Rows(ChassisRow),
         variants' \in Rows(VariantRow), CodesUnique(jupiter'), CodesUnique(variants'),
         schema' = "split" => variants' = Empty,
         schema' = "merged" => jupiter' = Empty /\ chassis' = Empty,
         Ids(jupiter') \cup Ids(chassis') \cup Ids(variants') # {} => "products" \in filled,
         UNCHANGED <<filled, activity, import>>
  PROVE  IInv'
  <1> USE DEF IInv
  <1>1. alembic' \in MigrationRow /\ alembic'.at = "idle"
    BY NoMigrationTyped
  <1>2. TypeOK'
    BY <1>1 DEF TypeOK, MigrationRow
  <1>3. ReferencesHold'
    BY DEF ReferencesHold
  <1>4. InOrder' /\ RefersToRows'
    BY NobodyInTheWay DEF InOrder, RefersToRows
  <1>5. KeysApart'
    BY NobodyInTheWay DEF KeysApart, Loading
  <1>6. HistoryInv'
    BY DEF HistoryInv, LoadsHistory
  <1>7. CopiedUp' /\ CopiedDown'
    BY <1>1 DEF CopiedUp, CopiedDown
  <1> QED
    BY <1>2, <1>3, <1>4, <1>5, <1>6, <1>7

\* What an upgrade brings with it.
LEMMA MergedRows ==
  ASSUME IInv, alembic.at = "merge", NEW v \in Variant
  PROVE  alembic.variants[v] = IF chassis[v] # None THEN FromChassis(chassis[v])
                               ELSE IF jupiter[v] # None THEN FromJupiter(jupiter[v]) ELSE None
  BY DEF IInv, CopiedUp

\* The upgrade commits.
LEMMA MergeKeeps ==
  ASSUME IInv, Merge
  PROVE  IInv'
  <1> USE DEF IInv
  <1>1. /\ alembic.at = "merge" /\ DropAllowed
        /\ schema' = "merged" /\ variants' = alembic.variants
        /\ jupiter' = Empty /\ chassis' = Empty /\ alembic' = NoMigration
        /\ UNCHANGED <<filled, activity, import>>
    BY DEF Merge
  <1>2. variants' \in Rows(VariantRow)
    BY <1>1 DEF TypeOK
  <1>3. \A v \in Variant :
           /\ variants'[v] # None => v \in Ids(jupiter) \cup Ids(chassis)
           /\ (variants'[v] # None /\ variants'[v].code # None) =>
                 v \in Ids(jupiter) /\ variants'[v].code = jupiter[v].code
    BY <1>1, MergedRows, Upgraded DEF Ids, TypeOK, Rows
  <1>4. CodesUnique(variants')
    BY <1>3 DEF CodesUnique, Ids, TypeOK
  <1>5. Ids(variants') # {} => "products" \in filled
    BY <1>3 DEF Ids, ReferencesHold
  <1> HIDE DEF IInv
  <1> QED
    BY <1>1, <1>2, <1>4, <1>5, EmptyTable, SwitchKeeps

\* The downgrade commits.
LEMMA SplitKeeps ==
  ASSUME IInv, Split
  PROVE  IInv'
  <1> USE DEF IInv
  <1>1. /\ alembic.at = "split" /\ DropAllowed
        /\ schema' = "split" /\ variants' = Empty
        /\ jupiter' = alembic.jupiter /\ chassis' = alembic.chassis /\ alembic' = NoMigration
        /\ UNCHANGED <<filled, activity, import>>
    BY DEF Split
  <1>2. jupiter' \in Rows(JupiterRow) /\ chassis' \in Rows(ChassisRow)
    BY <1>1 DEF TypeOK
  <1>3. /\ CodesUnique(jupiter')
        /\ Ids(jupiter') \cup Ids(chassis') # {} => "products" \in filled
    BY <1>1 DEF CopiedDown
  <1> HIDE DEF IInv
  <1> QED
    BY <1>1, <1>2, <1>3, EmptyTable, SwitchKeeps

-----------------------------------------------------------------------------
(* The theorems.                                                           *)

\* A deployment starts with the older tables, empty or with whatever rows.
LEMMA InitIInv == Init => IInv
  <1> SUFFICES ASSUME Init PROVE IInv
    OBVIOUS
  <1> USE DEF Init
  <1>1. \A i \in Importer : import[i] = NoImport
    OBVIOUS
  <1>2. /\ NoImport \in ImportRow /\ NoImport.at = 0 /\ ~NoImport.counted
        /\ NoImport.loads = {} /\ ~HistoryOf(NoImport)
    BY DEF NoImport, ImportRow, HistoryOf
  <1>3. filled \subseteq {Tables[n] : n \in DOMAIN Tables} \ {"variants"}
    BY TablePlaces
  <1>4. TypeOK
    BY <1>2, <1>3, EmptyTable, NoMigrationTyped DEF TypeOK, ImportRow, MigrationRow
  <1>5. ReferencesHold
    BY EmptyTable DEF ReferencesHold
  <1>6. InOrder /\ RefersToRows /\ KeysApart
    BY <1>1, <1>2 DEF InOrder, RefersToRows, KeysApart, Loading
  <1>7. HistoryInv
    BY <1>1, <1>2 DEF HistoryInv, LoadsHistory
  <1>8. CopiedUp /\ CopiedDown
    BY NoMigrationTyped DEF CopiedUp, CopiedDown
  <1> QED
    BY <1>4, <1>5, <1>6, <1>7, <1>8 DEF IInv

\* Every step of importers, migrations and clients preserves IInv.
LEMMA NextIInv == IInv /\ [Next]_vars => IInv'
  <1> SUFFICES ASSUME IInv, [Next]_vars
               PROVE  IInv'
    OBVIOUS
  <1>1. CASE UNCHANGED vars
    <2>1. alembic' \in MigrationRow
      BY <1>1 DEF vars, IInv, TypeOK, MigrationRow
    <2>2. CopiedUp' /\ CopiedDown'
      BY <1>1 DEF vars, IInv, CopiedUp, CopiedDown, Coded, Uncoded
    <2> QED
      BY <1>1, <2>1, <2>2, CopyingKeeps DEF vars, IInv
  <1>2. CASE Migrate
    BY <1>2, CopyJupiterKeeps, CopyChassisKeeps, MergeKeeps, CopyCodedKeeps, CopyUncodedKeeps,
       SplitKeeps, RollbackKeeps DEF Migrate
  <1>3. ASSUME NEW i \in Importer, Import(i)
        PROVE  IInv'
    <2>1. CASE Begin(i) \/ Die(i)
      BY <2>1, NoImportFits, GoKeeps DEF Begin, Die
    <2> QED
      BY <1>3, <2>1, CountRowsKeeps, InsertRowsKeeps, CommitKeeps DEF Import
  <1>4. CASE Serve
    BY <1>4, EditVariantKeeps, CreateKeeps, DeleteKeeps DEF Serve
  <1> QED
    BY <1>1, <1>2, <1>3, <1>4 DEF Next

\* The inductive invariant of the tools: what an import has read and inserted, and
\* what a migration has copied, is still so.
THEOREM SpecIInv == Spec => []IInv
  BY InitIInv, NextIInv, PTL DEF Spec

\* The tables keep their shape and their unique codes, whatever the files hold.
THEOREM TypeCorrect == Spec => []TypeOK
  <1>1. IInv => TypeOK
    BY DEF IInv
  <1> QED
    BY <1>1, SpecIInv, PTL

\* No import, migration or client leaves a product without its category, or a
\* variant without its family (import_products, import_variants, delete_product).
THEOREM NothingDangles == Spec => []ReferencesHold
  <1>1. IInv => ReferencesHold
    BY DEF IInv
  <1> QED
    BY <1>1, SpecIInv, PTL

\* However many imports run at once, the file of activities is loaded at most once
\* (import_activity), although nothing in activity_log itself refuses a second copy.
THEOREM OneHistory == Spec => []HistoryLoadedOnce
  <1>1. IInv => HistoryLoadedOnce
    BY DEF IInv, HistoryInv, HistoryLoadedOnce
  <1> QED
    BY <1>1, SpecIInv, PTL

\* Only the last statement of an upgrade or of a downgrade switches the schema.
LEMMA OnlyCommitsSwitch ==
  ASSUME [Next]_vars, schema' # schema
  PROVE  Merge \/ Split
  BY DEF Next, vars, Migrate, CopyJupiter, CopyChassis, CopyCoded, CopyUncoded, Rollback,
         Import, Begin, CountRows, InsertRows, Commit, Die, Go, Serve, EditVariant, Create,
         Delete

\* Each row of the older tables is in variants after the upgrade, and no other row.
LEMMA MergeMoves ==
  ASSUME IInv, Merge, NEW v \in Variant
  PROVE  /\ jupiter[v] # None => chassis[v] = None /\ ToJupiter(variants'[v]) = jupiter[v]
         /\ chassis[v] # None => ToChassis(variants'[v]) = chassis[v]
         /\ v \in Ids(variants') => v \in Ids(jupiter) \cup Ids(chassis)
  <1>1. alembic.at = "merge" /\ variants' = alembic.variants
    BY DEF Merge
  <1>2. jupiter[v] # None => chassis[v] = None
    BY <1>1 DEF IInv, CopiedUp
  <1>3. jupiter[v] \in JupiterRow \cup {None} /\ chassis[v] \in ChassisRow \cup {None}
    BY DEF IInv, TypeOK, Rows
  <1>4. variants'[v] = IF chassis[v] # None THEN FromChassis(chassis[v])
                       ELSE IF jupiter[v] # None THEN FromJupiter(jupiter[v]) ELSE None
    BY <1>1, MergedRows
  <1> QED
    BY <1>2, <1>3, <1>4, Upgraded DEF Ids

\* Each variant the downgrade did not come too late for is in one of the older tables.
LEMMA SplitMoves ==
  ASSUME IInv, Split, NEW v \in Variant \ alembic.late
  PROVE  IF variants[v] = None THEN jupiter'[v] = None /\ chassis'[v] = None
         ELSE IF Coded(v)
         THEN /\ jupiter'[v] # None /\ chassis'[v] = None
              /\ FromJupiter(jupiter'[v]) = [variants[v] EXCEPT !.card = FALSE]
         ELSE /\ chassis'[v] # None /\ jupiter'[v] = None
              /\ FromChassis(chassis'[v]) = variants[v]
  <1>1. alembic.at = "split" /\ jupiter' = alembic.jupiter /\ chassis' = alembic.chassis
    BY DEF Split
  <1>2. /\ jupiter'[v] = IF Coded(v) THEN ToJupiter(variants[v]) ELSE None
        /\ chassis'[v] = IF Uncoded(v) THEN ToChassis(variants[v]) ELSE None
        /\ Coded(v) => variants[v].code \in Code
        /\ Uncoded(v) => ~variants[v].wide
    BY <1>1 DEF IInv, CopiedDown
  <1>3. variants[v] \in VariantRow \cup {None}
    BY DEF IInv, TypeOK, Rows
  <1>4. CASE variants[v] = None
    BY <1>2, <1>4 DEF Coded, Uncoded
  <1>5. CASE Coded(v)
    <2> DEFINE bare == [variants[v] EXCEPT !.card = FALSE]
    <2>1. variants[v] \in VariantRow
      BY <1>3, <1>5 DEF Coded
    <2>2. ToJupiter(variants[v]) # None /\ FromJupiter(ToJupiter(variants[v])) = bare
      BY <1>2, <1>5, <2>1, Downgraded
    <2>3. variants[v] # None /\ ~Uncoded(v)
      BY <1>5 DEF Coded, Uncoded
    <2> HIDE DEF bare
    <2>4. /\ jupiter'[v] # None /\ chassis'[v] = None
          /\ FromJupiter(jupiter'[v]) = bare
      BY <1>2, <1>5, <2>2, <2>3
    <2> QED
      BY <1>5, <2>3, <2>4 DEF bare
  <1>6. CASE Uncoded(v)
    BY <1>2, <1>3, <1>6, Downgraded DEF Coded, Uncoded
  <1> QED
    BY <1>4, <1>5, <1>6 DEF Coded, Uncoded

\* A migration that commits has moved every row that nobody wrote meanwhile, each to
\* one table, and cut nothing short but the card of a coded variant (upgrade and
\* downgrade of 7c41aa20d9f3).
THEOREM MigrationMovesRows == Spec => RowsMoved
  <1>1. IInv /\ [Next]_vars => [MovesRows]_vars
    <2> SUFFICES ASSUME IInv, [Next]_vars
                 PROVE  MovesRows
      OBVIOUS
    <2>1. CASE schema' = schema
      BY <2>1 DEF MovesRows
    <2>2. CASE Merge
      BY <2>2, MergeMoves DEF MovesRows, Merge
    <2>3. CASE Split
      BY <2>3, SplitMoves DEF MovesRows, Split
    <2> QED
      BY <2>1, <2>2, <2>3, OnlyCommitsSwitch
  <1> QED
    BY <1>1, SpecIInv, PTL DEF Spec, RowsMoved
=============================================================================
