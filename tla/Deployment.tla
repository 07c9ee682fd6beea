----------------------------- MODULE Deployment -----------------------------
(***************************************************************************)
(* What an operator runs beside the service: the migration that merges     *)
(* jupiter_models and chassis_models into variants, with its downgrade     *)
(* (alembic/versions/2026_08_01_7c41aa20d9f3), and                         *)
(* scripts/import_admin_seed_data.py, more than one at a time, while       *)
(* clients change the catalogue.  Alembic works in one transaction         *)
(* (alembic/env.py; DDL is transactional), an import in another.  Of a     *)
(* table other than the variants only matters whether it has rows.         *)
(***************************************************************************)
EXTENDS Naturals, Sequences

CONSTANTS
    Variant,          \* ids of variants
    Code, LongCode,   \* codes of up to six characters; longer ones
    Importer,         \* runs of the import script
    FileRows,         \* the variants in its files: their row, or None
    Editable,         \* bound: the variants and the other tables that clients
    Changeable,       \*   of the service change
    None

VARIABLES
    schema,                      \* "split" before 7c41aa20d9f3, "merged" after
    jupiter, chassis, variants,  \* id -> row, or None
    filled,                      \* the other tables that have rows
    activity,                    \* how often the file of activities was loaded
    alembic,                     \* the migration in progress
    import                       \* the imports in progress

vars == <<schema, jupiter, chassis, variants, filled, activity, alembic, import>>

\* wide: the name has more than the 80 characters chassis_models has room for.
\* card: img or bullets are there.
JupiterRow == [code : Code, wide : BOOLEAN]
ChassisRow == [card : BOOLEAN]
VariantRow == [code : Code \cup LongCode \cup {None}, wide : BOOLEAN, card : BOOLEAN]

Rows(Row) == [Variant -> Row \cup {None}]
Empty == [v \in Variant |-> None]
Ids(table) == {v \in Variant : table[v] # None}

\* The unique index on code.
CodesUnique(table) ==
    \A v, w \in Ids(table) : (table[v].code = table[w].code /\ table[v].code # None) => v = w

ASSUME FilesAssumption ==
    /\ None \notin Code \cup LongCode /\ Code \cap LongCode = {}
    /\ None \notin JupiterRow \cup ChassisRow \cup VariantRow
    /\ FileRows \in Rows(VariantRow) /\ CodesUnique(FileRows)
    /\ Editable \subseteq Variant
    /\ Changeable \subseteq {"categories", "products", "accessories", "enquiries"}

\* The order of run(): categories before products, products before variants.
Tables == <<"categories", "products", "variants", "accessories", "enquiries", "activity">>

\* Tables whose rows bring their primary key with them.
Keyed == {"categories", "products", "variants", "accessories"}

\* late: the variants written while a downgrade was in progress (history).
NoMigration == [at |-> "idle", jupiter |-> Empty, chassis |-> Empty,
                variants |-> Empty, late |-> {}]

\* at: the table it is busy with; counted: it found it empty; loads: what its
\* transaction has inserted.
NoImport == [at |-> 0, counted |-> FALSE, loads |-> {}]

TypeOK ==
    /\ schema \in {"split", "merged"}
    /\ jupiter \in Rows(JupiterRow) /\ chassis \in Rows(ChassisRow)
    /\ variants \in Rows(VariantRow)
    /\ CodesUnique(jupiter) /\ CodesUnique(variants)
    /\ schema = "split" => variants = Empty
    /\ schema = "merged" => jupiter = Empty /\ chassis = Empty
    /\ filled \subseteq {Tables[n] : n \in DOMAIN Tables} \ {"variants"}
    /\ activity \in 0..2
    /\ alembic \in [at : {"idle", "chassis", "merge", "uncoded", "split"},
                    jupiter : Rows(JupiterRow), chassis : Rows(ChassisRow),
                    variants : Rows(VariantRow), late : SUBSET Variant]
    /\ import \in [Importer -> [at : 0..7, counted : BOOLEAN,
                                loads : SUBSET {Tables[n] : n \in DOMAIN Tables}]]

\* A new database, or one that the service has worked on before the merge.
Init ==
    /\ schema = "split" /\ variants = Empty
    /\ \/ filled = {} /\ jupiter = Empty /\ chassis = Empty
       \/ /\ filled = {"categories", "products", "activity"}
          /\ jupiter \in Rows(JupiterRow) /\ CodesUnique(jupiter)
          /\ chassis \in Rows(ChassisRow)
    /\ activity = 0
    /\ alembic = NoMigration
    /\ import = [i \in Importer |-> NoImport]

HasRows(t) == IF t = "variants" THEN Ids(variants) # {} ELSE t \in filled

Loading(t) == \E i \in Importer : t \in import[i].loads

\* An import has read the table and keeps its ACCESS SHARE lock.
Reading(t) == \E i \in Importer : import[i].at > 0 /\
    \E n \in 1..import[i].at :
        Tables[n] = t /\ (n < import[i].at \/ import[i].counted)

-----------------------------------------------------------------------------
(* The migration.  Creating a table that refers to products keeps writers  *)
(* of products out (SHARE ROW EXCLUSIVE), dropping one needs products to   *)
(* itself; variants can be written until they are dropped.                 *)

\* Mistake: the chassis rows are inserted like the Jupiter rows, '' and [].
FromChassisBare(row) == [code |-> None, wide |-> FALSE, card |-> FALSE]

FromJupiter(row) == [code |-> row.code, wide |-> row.wide, card |-> FALSE]
FromChassis(row) == [code |-> None, wide |-> FALSE, card |-> row.card]
ToJupiter(row) == [code |-> row.code, wide |-> row.wide]
ToChassis(row) == [card |-> row.card]

Coded(v) == variants[v] # None /\ variants[v].code # None
Uncoded(v) == variants[v] # None /\ variants[v].code = None

ProductsUnlocked == alembic.at = "idle"
DropAllowed == ~Reading("products") /\ ~Reading("variants")

CopyJupiter ==
    /\ alembic.at = "idle" /\ schema = "split" /\ ~Loading("products")
    /\ alembic' = [NoMigration EXCEPT !.at = "chassis",
                     !.variants = [v \in Variant |->
                         IF jupiter[v] = None THEN None ELSE FromJupiter(jupiter[v])]]
    /\ UNCHANGED <<schema, jupiter, chassis, variants, filled, activity, import>>

\* An id that both tables use breaks the primary key of variants.
CopyChassis ==
    /\ alembic.at = "chassis"
    /\ Ids(jupiter) \cap Ids(chassis) = {}
    /\ alembic' = [alembic EXCEPT !.at = "merge",
                     !.variants = [v \in Variant |->
                         IF chassis[v] = None THEN @[v] ELSE FromChassis(chassis[v])]]
    /\ UNCHANGED <<schema, jupiter, chassis, variants, filled, activity, import>>

\* Both tables are dropped; commit.
Merge ==
    /\ alembic.at = "merge" /\ DropAllowed
    /\ schema' = "merged" /\ variants' = alembic.variants
    /\ jupiter' = Empty /\ chassis' = Empty
    /\ alembic' = NoMigration
    /\ UNCHANGED <<filled, activity, import>>

\* Mistake: jupiter_models.code takes codes of any length.
CopyCodedUnchecked ==
    /\ alembic.at = "idle" /\ schema = "merged" /\ ~Loading("products")
    /\ alembic' = [NoMigration EXCEPT !.at = "uncoded",
                     !.jupiter = [v \in Variant |->
                         IF Coded(v) THEN ToJupiter(variants[v]) ELSE None]]
    /\ UNCHANGED <<schema, jupiter, chassis, variants, filled, activity, import>>

\* A code that is longer than six characters does not fit and fails loudly.
CopyCoded ==
    /\ alembic.at = "idle" /\ schema = "merged" /\ ~Loading("products")
    /\ \A v \in Variant : Coded(v) => variants[v].code \in Code
    /\ alembic' = [NoMigration EXCEPT !.at = "uncoded",
                     !.jupiter = [v \in Variant |->
                         IF Coded(v) THEN ToJupiter(variants[v]) ELSE None]]
    /\ UNCHANGED <<schema, jupiter, chassis, variants, filled, activity, import>>

\* A statement of its own, with a snapshot of its own.
CopyUncoded ==
    /\ alembic.at = "uncoded"
    /\ \A v \in Variant : Uncoded(v) => ~variants[v].wide
    /\ alembic' = [alembic EXCEPT !.at = "split",
                     !.chassis = [v \in Variant |->
                         IF Uncoded(v) THEN ToChassis(variants[v]) ELSE None]]
    /\ UNCHANGED <<schema, jupiter, chassis, variants, filled, activity, import>>

\* variants is dropped with what was written to it meanwhile; commit.
Split ==
    /\ alembic.at = "split" /\ DropAllowed
    /\ schema' = "split" /\ variants' = Empty
    /\ jupiter' = alembic.jupiter /\ chassis' = alembic.chassis
    /\ alembic' = NoMigration
    /\ UNCHANGED <<filled, activity, import>>

\* A statement fails or the process dies: nothing of it remains.
Rollback ==
    /\ alembic.at # "idle"
    /\ alembic' = NoMigration
    /\ UNCHANGED <<schema, jupiter, chassis, variants, filled, activity, import>>

-----------------------------------------------------------------------------
(* The import.                                                             *)

Late(S) == [alembic EXCEPT !.late = IF alembic.at \in {"uncoded", "split"}
                                    THEN @ \cup S ELSE @]

Go(i, next) ==
    /\ import' = [import EXCEPT ![i] = next]
    /\ UNCHANGED <<schema, jupiter, chassis, variants, filled, activity, alembic>>

Begin(i) == import[i].at = 0 /\ Go(i, [NoImport EXCEPT !.at = 1])

\* table_is_empty: the committed rows (its own are of other tables).  The query
\* fails where there is no table of variants.
CountRows(i) ==
    /\ import[i].at \in DOMAIN Tables /\ ~import[i].counted
    /\ LET t == Tables[import[i].at] IN
       /\ t = "variants" => schema = "merged"
       /\ IF HasRows(t) THEN Go(i, [import[i] EXCEPT !.at = @ + 1])
                        ELSE Go(i, [import[i] EXCEPT !.counted = TRUE])

\* The table a table's foreign key refers to.
References(t) == CASE t = "products" -> {"categories"} [] t = "variants" -> {"products"}
                   [] OTHER -> {}

\* Rows somebody else has committed under the ids or codes of the file.
Clash == \E v, w \in Variant :
            /\ variants[v] # None /\ FileRows[w] # None
            /\ v = w \/ (variants[v].code = FileRows[w].code /\ FileRows[w].code # None)

\* Mistake: nothing but the count keeps two imports apart.
InsertRowsUnguarded(i) ==
    /\ import[i].at \in DOMAIN Tables /\ import[i].counted
    /\ LET t == Tables[import[i].at] IN
       /\ t = "products" => ProductsUnlocked
       /\ t = "variants" => ~Clash
       /\ \A s \in References(t) : s \in filled \cup import[i].loads
       /\ Go(i, [import[i] EXCEPT !.at = @ + 1, !.counted = FALSE, !.loads = @ \cup {t}])

\* The flush.  It waits for another import that inserts the same keys, and fails
\* on a duplicate or on a reference to nothing.
InsertRows(i) ==
    /\ import[i].at \in DOMAIN Tables /\ import[i].counted
    /\ LET t == Tables[import[i].at] IN
       /\ t \in Keyed => ~Loading(t)
       /\ t = "products" => ProductsUnlocked
       /\ t = "variants" => ~Clash
       /\ \A s \in References(t) : s \in filled \cup import[i].loads
       /\ Go(i, [import[i] EXCEPT !.at = @ + 1, !.counted = FALSE, !.loads = @ \cup {t}])

Commit(i) ==
    /\ import[i].at = Len(Tables) + 1
    /\ LET loads == import[i].loads IN
       /\ filled' = filled \cup (loads \ {"variants"})
       /\ IF "variants" \in loads
          THEN /\ variants' = [v \in Variant |->
                                 IF FileRows[v] = None THEN variants[v] ELSE FileRows[v]]
               /\ alembic' = Late(Ids(FileRows))
          ELSE UNCHANGED <<variants, alembic>>
       /\ activity' = IF "activity" \in loads /\ activity < 2 THEN activity + 1 ELSE activity
    /\ import' = [import EXCEPT ![i] = NoImport]
    /\ UNCHANGED <<schema, jupiter, chassis>>

\* An exception that nothing catches, or the end of the process.
Die(i) == import[i].at # 0 /\ Go(i, NoImport)

-----------------------------------------------------------------------------
(* Clients of the service, one committed request at a time (Catalogue has  *)
(* them in detail).  All but the inbox is written to activity_log.         *)

\* create_, update_ or delete_variant.
EditVariant(v) ==
    /\ schema = "merged" /\ "products" \in filled
    /\ Loading("variants") => FileRows[v] = None
    /\ \E row \in VariantRow \cup {None} :
          /\ row # variants[v]
          /\ variants' = [variants EXCEPT ![v] = row]
          /\ CodesUnique(variants')
          /\ Loading("variants") /\ row # None =>
                \A w \in Ids(FileRows) : row.code = None \/ row.code # FileRows[w].code
    /\ filled' = filled \cup {"activity"}
    /\ alembic' = Late({v})
    /\ UNCHANGED <<schema, jupiter, chassis, activity, import>>

\* The first row of a table; the service has no way to create an enquiry.
Create(t) ==
    /\ t \in Keyed \ filled /\ References(t) \subseteq filled
    /\ t = "products" => ProductsUnlocked
    /\ filled' = filled \cup {t, "activity"}
    /\ UNCHANGED <<schema, jupiter, chassis, variants, activity, alembic, import>>

\* Mistake: a category or a product that an import in progress refers to can go.
DeleteUnlocked(t) ==
    /\ t \in filled
    /\ t = "categories" => "products" \notin filled
    /\ t = "products" => ProductsUnlocked
    /\ filled' = (filled \ {t}) \cup (IF t = "enquiries" THEN {} ELSE {"activity"})
    /\ IF t = "products" THEN jupiter' = Empty /\ chassis' = Empty /\ variants' = Empty
                         ELSE UNCHANGED <<jupiter, chassis, variants>>
    /\ UNCHANGED <<schema, activity, alembic, import>>

\* The last row of a table.  A category that products refer to is kept; the
\* variants go with their products, whatever tables they are in.
Delete(t) ==
    /\ t \in filled
    /\ t = "categories" => "products" \notin filled /\ ~Loading("products")
    /\ t = "products" => ProductsUnlocked /\ ~Loading("variants")
    /\ filled' = (filled \ {t}) \cup (IF t = "enquiries" THEN {} ELSE {"activity"})
    /\ IF t = "products" THEN jupiter' = Empty /\ chassis' = Empty /\ variants' = Empty
                         ELSE UNCHANGED <<jupiter, chassis, variants>>
    /\ UNCHANGED <<schema, activity, alembic, import>>

Migrate == CopyJupiter \/ CopyChassis \/ Merge \/ CopyCoded \/ CopyUncoded \/ Split \/ Rollback

Import(i) == Begin(i) \/ CountRows(i) \/ InsertRows(i) \/ Commit(i) \/ Die(i)

Serve ==
    \/ \E v \in Editable : EditVariant(v)
    \/ \E t \in Changeable : Create(t) \/ Delete(t)

Next == Migrate \/ (\E i \in Importer : Import(i)) \/ Serve

Spec == Init /\ [][Next]_vars

-----------------------------------------------------------------------------
(* What must be true of it.                                                *)

\* Every product has its category and every variant its family, in whatever
\* tables it is: imports insert and clients delete in transactions of their own,
\* and a migration copies rows that a product might take away (import_products,
\* import_variants, delete_product, upgrade, downgrade).
ReferencesHold ==
    /\ "products" \in filled => "categories" \in filled
    /\ Ids(jupiter) \cup Ids(chassis) \cup Ids(variants) # {} => "products" \in filled

\* activity_log has no key that would refuse a second copy of the file.  Two
\* imports at once still cannot both load it: as long as it is empty, no client
\* has filled the tables before it, and their primary keys let one import in.
HistoryLoadedOnce == activity <= 1

\* What RowsMoved says of one step.
MovesRows ==
    /\ (schema = "split" /\ schema' = "merged") =>
          \A v \in Variant :
             /\ jupiter[v] # None => /\ chassis[v] = None
                                     /\ ToJupiter(variants'[v]) = jupiter[v]
             /\ chassis[v] # None => ToChassis(variants'[v]) = chassis[v]
             /\ v \in Ids(variants') => v \in Ids(jupiter) \cup Ids(chassis)
    /\ (schema = "merged" /\ schema' = "split") =>
          \A v \in Variant \ alembic.late :
             IF variants[v] = None THEN jupiter'[v] = None /\ chassis'[v] = None
             ELSE IF Coded(v)
             THEN /\ jupiter'[v] # None /\ chassis'[v] = None
                  /\ FromJupiter(jupiter'[v]) = [variants[v] EXCEPT !.card = FALSE]
             ELSE /\ chassis'[v] # None /\ jupiter'[v] = None
                  /\ FromChassis(chassis'[v]) = variants[v]

\* A migration that commits has moved every row, and each to one table only,
\* but for rows that were written while a downgrade was in progress; what is in
\* a column the new table lacks or has no room for is never cut short, except
\* for the card of a coded variant.
RowsMoved == [][MovesRows]_vars
=============================================================================
