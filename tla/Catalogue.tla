------------------------------ MODULE Catalogue ------------------------------
(***************************************************************************)
(* Categories, products, variants and accessories (app/services): the      *)
(* create, update and delete endpoints interleaved over one database.      *)
(* Writers meet as PostgreSQL row locks: FOR KEY SHARE on the row a        *)
(* foreign key refers to, FOR NO KEY UPDATE on an updated row, FOR UPDATE  *)
(* on a row that is deleted or renamed.                                    *)
(***************************************************************************)
EXTENDS CatalogueRows, FiniteSets

CONSTANTS
    Req,                                     \* requests in flight at once
    Creatable, Updatable, Deletable,         \* bound: what clients work on
    MaxRows,                                 \* bound: the rows there are at once
    Keep                                     \* "not to be changed"

VARIABLES
    rows,   \* the committed rows of the four tables
    log,    \* the newest HISTORY_LIMIT entries of activity_log
    pc,     \* the next step of each request
    job,    \* what a request holds in Python
    txn     \* what its transaction holds in the database

vars == <<rows, log, pc, job, txn>>

ASSUME KeepAssumption ==
    /\ Keep # None /\ Keep \notin Key \cup Name /\ Keep \notin BOOLEAN
    /\ None \notin {"create", "update", "delete"}
    /\ MaxRows \in Nat

ASSUME ClientsAssumption ==
    Creatable \subseteq Key /\ Updatable \subseteq Key /\ Deletable \subseteq Key

\* What an update sets, where it differs from the copy that was loaded.
Changes(k) == [name   : (Names(k) \ {rows[k].name}) \cup {Keep},
               parent : (Parents(k) \ {rows[k].parent}) \cup {Keep},
               flag   : (Flags(k) \ {rows[k].flag}) \cup {Keep}]

NoChange == [name |-> Keep, parent |-> Keep, flag |-> Keep]

Pc == {"idle", "name", "parent", "count", "write", "unique", "reference",
       "flag", "mark", "restrict", "cascade", "commit"}

Job == [op : {None, "create", "update", "delete"}, key : Key \cup {None},
        set : [name : Name \cup {None, Keep}, parent : Key \cup {None, Keep},
               flag : BOOLEAN \cup {Keep}]]

NoJob == [op |-> None, key |-> None, set |-> NoChange]

\* wrote, excl and keyed: the rows it holds FOR NO KEY UPDATE, FOR UPDATE and
\* FOR KEY SHARE.  todo: the variants its ON DELETE CASCADE has still to visit.
Txn == [made : Key \cup {None}, wrote : SUBSET Key, excl : SUBSET Key,
        keyed : SUBSET Key, todo : SUBSET Key]

NoTxn == [made |-> None, wrote |-> {}, excl |-> {}, keyed |-> {}, todo |-> {}]

TypeOK ==
    /\ rows \in [Key -> {Gone} \cup UNION {RowOf(k) : k \in Key}]
    /\ \A k \in Key : rows[k] \in RowOf(k) \cup {Gone}
    /\ log \in Seq(Entry) /\ Len(log) <= HISTORY_LIMIT
    /\ pc \in [Req -> Pc]
    /\ job \in [Req -> Job]
    /\ txn \in [Req -> Txn]

Init ==
    /\ rows = [k \in Key |-> Gone]
    /\ log = <<>>
    /\ pc = [r \in Req |-> "idle"]
    /\ job = [r \in Req |-> NoJob]
    /\ txn = [r \in Req |-> NoTxn]

-----------------------------------------------------------------------------
(* Locks.                                                                  *)

\* Mistake: the parent is read FOR SHARE, which an UPDATE of it conflicts with.
HeldShared(q, mode) ==
    txn[q].excl \cup (IF mode \in {"update", "delete"} THEN txn[q].wrote \cup txn[q].keyed
                                                     ELSE {})

\* The rows that q holds in a mode that conflicts with the one wanted.
Held(q, mode) ==
    txn[q].excl \cup (IF mode \in {"update", "delete"} THEN txn[q].wrote ELSE {})
                \cup (IF mode = "delete" THEN txn[q].keyed ELSE {})

\* The names in a table whose fate q's transaction decides: of the rows it deletes
\* or renames, and the one it has entered into the unique index.
NamesHeld(q, table) ==
    {rows[k].name : k \in txn[q].excl \cap table}
        \cup (IF pc[q] \in {"reference", "flag", "mark", "commit"} /\ job[q].key \in table
              THEN {job[q].set.name} ELSE {})

Referring(k) == {x \in Key : rows[x].there /\ rows[x].parent = k}

Renames(r) == job[r].set.name \notin {Keep, rows[job[r].key].name}

\* The foreign key is looked at unless the row already refers there.
Refers(r) ==
    /\ job[r].set.parent \in Key
    /\ txn[r].made = job[r].key \/ rows[job[r].key].parent # job[r].set.parent

\* The rows that the next statement of r locks, and how.
Wanted(r, mode) ==
    LET k == job[r].key IN
    CASE pc[r] = "write" /\ job[r].op = "create" ->
            IF mode = "share" THEN {k} ELSE {}
      [] pc[r] = "write" /\ job[r].op = "update" ->
            IF job[r].set # NoChange /\ mode = IF Renames(r) THEN "delete" ELSE "update"
            THEN {k} ELSE {}
      [] pc[r] = "write" /\ job[r].op = "delete" -> IF mode = "delete" THEN {k} ELSE {}
      [] pc[r] = "reference" -> IF mode = "share" /\ Refers(r) THEN {job[r].set.parent} ELSE {}
      [] pc[r] = "mark"      -> IF mode = "update" THEN {job[r].set.parent} ELSE {}
      [] pc[r] = "restrict"  -> IF mode = "share" THEN Referring(k) ELSE {}
      [] pc[r] = "cascade"   -> IF mode = "delete" THEN txn[r].todo ELSE {}
      [] OTHER -> {}

\* The requests whose end the next statement of r waits for.
WaitsFor(r) ==
    {q \in Req \ {r} :
        \/ \E mode \in {"share", "update", "delete"} : Wanted(r, mode) \cap Held(q, mode) # {}
        \/ /\ pc[r] = "write" /\ job[r].op = "create" /\ txn[q].made = job[r].key
        \/ /\ pc[r] = "unique"
           /\ job[r].set.name \in Name \cap NamesHeld(q, Peers(job[r].key))}

-----------------------------------------------------------------------------
(* Requests.                                                               *)

Step(r, next, x) ==
    /\ pc' = [pc EXCEPT ![r] = next]
    /\ txn' = [txn EXCEPT ![r] = x]
    /\ UNCHANGED <<rows, log, job>>

Begin(r, op, k, set, next) ==
    /\ pc[r] = "idle"
    /\ pc' = [pc EXCEPT ![r] = next]
    /\ job' = [job EXCEPT ![r] = [op |-> op, key |-> k, set |-> set]]
    /\ UNCHANGED <<rows, log, txn>>

Rollback(r) ==
    /\ pc' = [pc EXCEPT ![r] = "idle"]
    /\ job' = [job EXCEPT ![r] = NoJob]
    /\ txn' = [txn EXCEPT ![r] = NoTxn]
    /\ UNCHANGED <<rows, log>>

\* An error, a client that disconnects, a crash, a deadlock that PostgreSQL breaks.
Abort(r) == pc[r] # "idle" /\ Rollback(r)

\* Bound: a row is created only while there is room for it.
Room == Cardinality({k \in Key : rows[k].there \/ \E q \in Req : job[q].key = k}) < MaxRows

\* The key is still free; without it the answer is a 409.
CreateRead(r) ==
    \E k \in Creatable :
        /\ ~rows[k].there /\ Room
        /\ \E set \in [name : Names(k), parent : Parents(k), flag : Flags(k)] :
              Begin(r, "create", k, set, "name")

\* An unknown key is a 404.
UpdateRead(r) ==
    \E k \in Updatable :
        /\ rows[k].there
        /\ \E set \in Changes(k) : Begin(r, "update", k, set, "name")

DeleteRead(r) ==
    \E k \in Deletable :
        /\ rows[k].there
        /\ Begin(r, "delete", k, NoChange, IF k \in Category THEN "count" ELSE "write")

\* slug_exists, code_exists and sku_exists; only a product leaves itself out.
CheckName(r) ==
    LET k == job[r].key IN
    /\ pc[r] = "name"
    /\ IF \E x \in Peers(k) \ (Product \cap {k}) :
             rows[x].there /\ rows[x].name # None /\ rows[x].name = job[r].set.name
       THEN Rollback(r)
       ELSE Step(r, "parent", txn[r])

\* _check_category and _check_family.
CheckParent(r) ==
    LET p == job[r].set.parent IN
    /\ pc[r] = "parent"
    /\ IF p \in Key /\ ~rows[p].there THEN Rollback(r) ELSE Step(r, "write", txn[r])

\* count_products: a category in use is a 409.
CountProducts(r) ==
    /\ pc[r] = "count"
    /\ IF Referring(job[r].key) # {} THEN Rollback(r) ELSE Step(r, "write", txn[r])

-----------------------------------------------------------------------------
(* The flush.                                                              *)

\* INSERT: the primary key.
Insert(r) ==
    LET k == job[r].key IN
    /\ pc[r] = "write" /\ job[r].op = "create"
    /\ WaitsFor(r) = {}
    /\ IF rows[k].there THEN Rollback(r)
       ELSE Step(r, "unique", [txn[r] EXCEPT !.made = k])

\* Mistake: a row that is gone is written anew (as session.merge would).
UpdateMerging(r) ==
    LET k == job[r].key
        set == job[r].set IN
    /\ pc[r] = "write" /\ job[r].op = "update"
    /\ WaitsFor(r) = {}
    /\ IF set = NoChange THEN Step(r, "commit", txn[r])
       ELSE IF ~rows[k].there THEN Step(r, "unique", [txn[r] EXCEPT !.made = k])
       ELSE IF Renames(r) THEN Step(r, "unique", [txn[r] EXCEPT !.excl = {k}])
       ELSE Step(r, "unique", [txn[r] EXCEPT !.wrote = {k}])

\* UPDATE by primary key: none at all if nothing differs from the loaded copy.
\* One that finds no row raises StaleDataError.
Update(r) ==
    LET k == job[r].key
        set == job[r].set IN
    /\ pc[r] = "write" /\ job[r].op = "update"
    /\ WaitsFor(r) = {}
    /\ IF set = NoChange THEN Step(r, "commit", txn[r])
       ELSE IF ~rows[k].there THEN Rollback(r)
       ELSE IF Renames(r) THEN Step(r, "unique", [txn[r] EXCEPT !.excl = {k}])
       ELSE Step(r, "unique", [txn[r] EXCEPT !.wrote = {k}])

\* Mistake: no unique index, the check before the flush has to do.
UniqueUnguarded(r) == pc[r] = "unique" /\ Step(r, "reference", txn[r])

\* The unique index on slug, code or sku: an IntegrityError is a 409.
Unique(r) ==
    LET k == job[r].key
        n == job[r].set.name IN
    /\ pc[r] = "unique" /\ WaitsFor(r) = {}
    /\ IF n \in Name /\ \E x \in Peers(k) \ {k} : rows[x].there /\ rows[x].name = n
       THEN Rollback(r) ELSE Step(r, "reference", txn[r])

\* The foreign key locks the parent; without a parent the IntegrityError is a 409.
Reference(r) ==
    LET k == job[r].key
        p == job[r].set.parent
        next == IF job[r].op = "create" /\ k \in Variant THEN "flag" ELSE "commit" IN
    /\ pc[r] = "reference" /\ WaitsFor(r) = {}
    /\ IF ~Refers(r) THEN Step(r, next, txn[r])
       ELSE IF rows[p].there THEN Step(r, next, [txn[r] EXCEPT !.keyed = {p}])
       ELSE Rollback(r)

\* _flag_has_models reads the product again: nothing kept the instance that
\* _check_family had loaded.
FlagRead(r) ==
    /\ pc[r] = "flag"
    /\ Step(r, IF rows[job[r].set.parent].flag THEN "commit" ELSE "mark", txn[r])

FlagWrite(r) ==
    /\ pc[r] = "mark" /\ WaitsFor(r) = {}
    /\ Step(r, "commit", [txn[r] EXCEPT !.wrote = {job[r].set.parent}])

\* Mistake: variants.family without ON DELETE CASCADE.
DeleteAlone(r) ==
    LET k == job[r].key IN
    /\ pc[r] = "write" /\ job[r].op = "delete" /\ WaitsFor(r) = {}
    /\ IF ~rows[k].there THEN Step(r, "commit", txn[r])
       ELSE Step(r, IF k \in Category THEN "restrict" ELSE "commit",
                 [txn[r] EXCEPT !.excl = {k}])

\* DELETE by primary key.  The ORM only warns if the row is gone already.
Delete(r) ==
    LET k == job[r].key IN
    /\ pc[r] = "write" /\ job[r].op = "delete" /\ WaitsFor(r) = {}
    /\ IF ~rows[k].there THEN Step(r, "commit", txn[r])
       ELSE Step(r, IF k \in Category THEN "restrict"
                    ELSE IF k \in Product THEN "cascade" ELSE "commit",
                 [txn[r] EXCEPT !.excl = {k}, !.todo = Referring(k) \cap Variant])

\* Mistake: count_products alone guards a category that is in use.
RestrictNothing(r) == pc[r] = "restrict" /\ Step(r, "commit", txn[r])

\* The foreign key of products: delete_category does not catch its
\* IntegrityError, which becomes a 500.
Restrict(r) ==
    /\ pc[r] = "restrict" /\ WaitsFor(r) = {}
    /\ IF Referring(job[r].key) # {} THEN Rollback(r) ELSE Step(r, "commit", txn[r])

\* ON DELETE CASCADE: a variant that moved away meanwhile is left.
Cascade(r) ==
    /\ pc[r] = "cascade"
    /\ \/ txn[r].todo = {} /\ Step(r, "commit", txn[r])
       \/ \E v \in txn[r].todo :
             /\ \A q \in Req \ {r} : v \notin Held(q, "delete")
             /\ Step(r, "cascade",
                     [txn[r] EXCEPT !.todo = @ \ {v},
                        !.excl = IF rows[v].parent = job[r].key THEN @ \cup {v} ELSE @])

-----------------------------------------------------------------------------
(* Commit: the rows and the entry of activity_log, in one step.            *)

Patched(row, set) ==
    [row EXCEPT !.name   = IF set.name = Keep THEN @ ELSE set.name,
                !.parent = IF set.parent = Keep THEN @ ELSE set.parent,
                !.flag   = IF set.flag = Keep THEN @ ELSE set.flag]

Written(r, k) ==
    IF k = txn[r].made THEN Patched([Gone EXCEPT !.there = TRUE], job[r].set)
    ELSE IF k \notin txn[r].wrote \cup txn[r].excl THEN rows[k]
    ELSE IF job[r].op = "delete" THEN Gone
    ELSE IF k = job[r].key THEN Patched(rows[k], job[r].set)
    ELSE [rows[k] EXCEPT !.flag = TRUE]

Commit(r) ==
    /\ pc[r] = "commit"
    /\ rows' = [k \in Key |-> Written(r, k)]
    /\ log' = Newest(<<[type |-> job[r].op, key |-> job[r].key]>> \o log)
    /\ pc' = [pc EXCEPT ![r] = "idle"]
    /\ job' = [job EXCEPT ![r] = NoJob]
    /\ txn' = [txn EXCEPT ![r] = NoTxn]

Next ==
    \E r \in Req :
        \/ CreateRead(r) \/ UpdateRead(r) \/ DeleteRead(r)
        \/ CheckName(r) \/ CheckParent(r) \/ CountProducts(r)
        \/ Insert(r) \/ Update(r) \/ Unique(r) \/ Reference(r)
        \/ FlagRead(r) \/ FlagWrite(r)
        \/ Delete(r) \/ Restrict(r) \/ Cascade(r)
        \/ Commit(r) \/ Abort(r)

Spec == Init /\ [][Next]_vars

-----------------------------------------------------------------------------
(* What must be true of it.                                                *)

\* A category that a product is in cannot go away, not even between the count
\* of its products and its DELETE (delete_category and create_product).
CategoryKept == \A p \in Product : rows[p].there => rows[rows[p].parent].there

\* A variant goes with its family, whether it was created or moved there while
\* the family was being deleted (delete_product and create/update_variant).
FamilyKept == \A v \in Variant : rows[v].there => rows[rows[v].parent].there

\* Two products never share a slug, two variants a code, two accessories a sku:
\* the loser of a race between checks that both found it free gets a 409.
NamesUnique ==
    \A j, k \in Key :
        (rows[j].there /\ rows[k].there /\ rows[j].name = rows[k].name
            /\ rows[j].name # None /\ Peers(j) = Peers(k)) => j = k

\* Every request that is answered was one step of CatalogueStore: it found the
\* rows consistent, left them consistent and added its entry to the History,
\* whatever was in flight beside it; a request that failed did nothing.
Store == INSTANCE CatalogueStore

StoreSpec == Store!Spec

\* Writers that wait for each other in a circle, which PostgreSQL has to break by
\* failing one of them, always have one among them that is deleting a category, or
\* a product with its variants, or that waits for the name it gives to a row that
\* it has locked: creating rows and updating them without renaming never closes a
\* circle (the four services).
CircleNeedsDeleteOrRename ==
    \A S \in (SUBSET Req) \ {{}} :
        (\A r \in S : WaitsFor(r) \cap S # {}) =>
            \E r \in S : \/ pc[r] \in {"restrict", "cascade"}
                         \/ pc[r] = "unique" /\ txn[r].excl # {}

\* "Auto-flips the parent product's has_models flag on the first variant ...
\* done here instead so it can't drift" (app/services/variant.py).
FlagFollows ==
    \A v \in Variant : rows[v].there => rows[rows[v].parent].flag
=============================================================================
