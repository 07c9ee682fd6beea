---------------------------- MODULE CatalogueRows ----------------------------
(***************************************************************************)
(* The rows of categories, products, variants and accessories and of the   *)
(* activity log.  The four services have one shape, so a row has one type: *)
(* its name is the slug, code or sku that a unique index guards, its       *)
(* parent the category of a product or the family of a variant, its flag   *)
(* has_models.                                                             *)
(***************************************************************************)
EXTENDS Naturals, Sequences

CONSTANTS
    Category, Product, Variant, Accessory,   \* their keys, chosen by clients
    Name,
    HISTORY_LIMIT,                           \* entries the History page shows
    None                                     \* SQL's NULL

Key == Category \cup Product \cup Variant \cup Accessory

ASSUME KeysAssumption ==
    /\ HISTORY_LIMIT \in Nat
    /\ None \notin Key \cup Name
    /\ Category \cap Product = {} /\ Product \cap Variant = {}
    /\ Category \cap Variant = {}
    /\ Accessory \cap (Category \cup Product \cup Variant) = {}

\* The rows of k's table.
Peers(k) == IF k \in Category THEN Category
            ELSE IF k \in Product THEN Product
            ELSE IF k \in Variant THEN Variant ELSE Accessory

\* A slug and a sku are NOT NULL, a code may be NULL, a category has none.
Names(k) == IF k \in Category THEN {None}
            ELSE IF k \in Variant THEN Name \cup {None} ELSE Name

Parents(k) == IF k \in Product THEN Category
              ELSE IF k \in Variant THEN Product ELSE {None}

Flags(k) == IF k \in Product THEN BOOLEAN ELSE {FALSE}

RowOf(k) == [there : {TRUE}, name : Names(k), parent : Parents(k), flag : Flags(k)]

Gone == [there |-> FALSE, name |-> None, parent |-> None, flag |-> FALSE]

Entry == [type : {"create", "update", "delete"}, key : Key]

\* Mistake: one entry too many is kept.
NewestAndOne(s) == SubSeq(s, 1, IF Len(s) <= HISTORY_LIMIT THEN Len(s) ELSE HISTORY_LIMIT + 1)

\* list_recent: nothing reads the older entries.
Newest(s) == SubSeq(s, 1, IF Len(s) < HISTORY_LIMIT THEN Len(s) ELSE HISTORY_LIMIT)
=============================================================================
