--------------------------- MODULE CatalogueStore ---------------------------
(***************************************************************************)
(* What the catalogue's endpoints promise their clients, whatever other    *)
(* requests run at the same time: each request that is answered is one     *)
(* step on rows that were consistent and stay so, and adds its entry to    *)
(* the History in that step.  Catalogue implements this.                   *)
(***************************************************************************)
EXTENDS CatalogueRows

VARIABLES
    rows,   \* the rows of the four tables
    log     \* the newest HISTORY_LIMIT entries of activity_log

store == <<rows, log>>

Init ==
    /\ rows = [k \in Key |-> Gone]
    /\ log = <<>>

-----------------------------------------------------------------------------
(* What a row may be, given the others.                                    *)

NameFree(k, n) ==
    n = None \/ \A x \in Peers(k) \ {k} : ~rows[x].there \/ rows[x].name # n

Fits(k, row) ==
    /\ row \in RowOf(k)
    /\ NameFree(k, row.name)
    /\ row.parent # None => rows[row.parent].there

Recorded(type, k) == log' = Newest(<<[type |-> type, key |-> k]>> \o log)

\* A created variant may turn its family's has_models on.
Create(k) ==
    /\ ~rows[k].there
    /\ Recorded("create", k)
    /\ \E row \in RowOf(k), on \in BOOLEAN :
          /\ Fits(k, row)
          /\ rows' = [x \in Key |-> IF x = k THEN row
                                    ELSE IF on /\ k \in Variant /\ x = row.parent
                                    THEN [rows[x] EXCEPT !.flag = TRUE] ELSE rows[x]]

Update(k) ==
    /\ rows[k].there
    /\ Recorded("update", k)
    /\ \E row \in RowOf(k) : Fits(k, row) /\ rows' = [rows EXCEPT ![k] = row]

\* A product takes its variants along; a category must be empty.
Delete(k) ==
    /\ rows[k].there
    /\ Recorded("delete", k)
    /\ k \in Category => \A p \in Product : rows[p].parent # k
    /\ rows' = [x \in Key |-> IF x = k \/ (k \in Product /\ rows[x].parent = k)
                              THEN Gone ELSE rows[x]]

\* An update that changes nothing, or the deletion of a row that another
\* request has deleted meanwhile.
Vain(k) ==
    \E type \in {"update", "delete"} : Recorded(type, k) /\ UNCHANGED rows

Next == \E k \in Key : Create(k) \/ Update(k) \/ Delete(k) \/ Vain(k)

Spec == Init /\ [][Next]_store

-----------------------------------------------------------------------------
\* Every product is in a category that is there and every variant in a family
\* that is there.
ParentsKept == \A k \in Key : rows[k].parent # None => rows[rows[k].parent].there

\* No two rows of a table share a slug, a code or a sku.
NamesDiffer ==
    \A j, k \in Key :
        (rows[j].name # None /\ rows[j].name = rows[k].name /\ Peers(j) = Peers(k))
            => j = k
=============================================================================
