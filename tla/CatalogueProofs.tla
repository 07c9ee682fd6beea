--------------------------- MODULE CatalogueProofs ---------------------------
(***************************************************************************)
(* Catalogue keeps its promises for any number of requests, categories,    *)
(* products, variants, accessories and names.  The inductive invariant is  *)
(* the discipline of the row locks: what each request holds at each of its *)
(* steps, and that what two of them hold is compatible.                    *)
(***************************************************************************)
EXTENDS Catalogue, TLAPS

Proved == INSTANCE CatalogueStoreProofs

Locked(x) == x.excl \cup x.wrote \cup x.keyed

\* The name is in the unique index, committed or not.
Claimed(p, j) == p \in {"reference", "flag", "mark", "commit"} /\ j.set.name \in Name

\* What a request holds in Python, p being its next step.
Assigned(p, j) ==
    \/ p = "idle" /\ j = NoJob
    \/ /\ j.op = "create" /\ j.key \in Key
       /\ p \in {"name", "parent", "write", "unique", "reference", "flag", "mark", "commit"}
       /\ j.set \in [name : Names(j.key), parent : Parents(j.key), flag : Flags(j.key)]
    \/ /\ j.op = "update" /\ j.key \in Key
       /\ p \in {"name", "parent", "write", "unique", "reference", "commit"}
       /\ j.set \in [name : Names(j.key) \cup {Keep}, parent : Parents(j.key) \cup {Keep},
                     flag : Flags(j.key) \cup {Keep}]
    \/ /\ j.op = "delete" /\ j.key \in Key
       /\ p \in {"count", "write", "restrict", "cascade", "commit"}
       /\ j.set = NoChange

\* What its transaction holds once an INSERT has begun: the key, then the parent.
Creating(p, j, x) ==
    /\ x.made = j.key /\ x.excl = {} /\ x.todo = {}
    /\ x.keyed \subseteq {j.set.parent} /\ x.wrote \subseteq x.keyed
    /\ p \in {"flag", "mark", "commit"} /\ j.set.parent \in Key => j.set.parent \in x.keyed
    /\ p \in {"flag", "mark"} \/ x.wrote # {} => j.key \in Variant
    /\ p # "commit" => x.wrote = {}

\* Once an UPDATE has begun: the row, FOR UPDATE if it is renamed, then the
\* parent unless the row refers there already.
Updating(p, j, x) ==
    /\ x.made = None /\ x.todo = {}
    /\ \/ x.excl = {j.key} /\ x.wrote = {}
       \/ x.excl = {} /\ x.wrote = {j.key} /\ j.set.name \in {Keep, rows[j.key].name}
    /\ p = "commit" /\ j.set.parent \in Key =>
          j.set.parent \in x.keyed \/ rows[j.key].parent = j.set.parent

\* Once a DELETE has begun: the row, and of the rows that refer to it those that
\* the cascade has visited.
Deleting(p, j, x) ==
    /\ x.made = None /\ x.wrote = {} /\ x.keyed = {} /\ j.key \in x.excl
    /\ \A v \in x.excl \ {j.key} : rows[v].parent = j.key
    /\ p # "restrict" => Referring(j.key) \subseteq x.excl \cup x.todo
    /\ p = "restrict" => j.key \in Category
    /\ p = "cascade" => j.key \in Product
    /\ p = "commit" => x.todo = {}
    /\ j.key \in Category => x.excl = {j.key} /\ x.todo = {}

Holding(p, j, x) ==
    \/ x = NoTxn /\ p \notin {"unique", "reference", "flag", "mark", "restrict", "cascade"}
                 /\ (p = "commit" => j.op # "create" /\ j.set = NoChange)
    \/ p \in {"unique", "reference", "flag", "mark", "commit"} /\ j.op = "create" /\ Creating(p, j, x)
    \/ p \in {"unique", "reference", "commit"} /\ j.op = "update" /\ Updating(p, j, x)
    \/ p \in {"restrict", "cascade", "commit"} /\ j.op = "delete" /\ Deleting(p, j, x)

\* What it holds is there, what it makes is not, its name is no other row's.
Grounded(p, j, x) ==
    /\ \A k \in Locked(x) : rows[k].there
    /\ x.made # None => ~rows[x.made].there
    /\ Claimed(p, j) => \A k \in Peers(j.key) \ {j.key} :
                            ~rows[k].there \/ rows[k].name # j.set.name

Fine(p, j, x) == Assigned(p, j) /\ Holding(p, j, x) /\ Grounded(p, j, x)

\* Two requests hold nothing that conflicts.
Apart(p1, j1, x1, p2, j2, x2) ==
    /\ x1.excl \cap Locked(x2) = {} /\ x2.excl \cap Locked(x1) = {}
    /\ x1.wrote \cap x2.wrote = {}
    /\ x1.made = x2.made => x1.made = None
    /\ Claimed(p1, j1) /\ Claimed(p2, j2) /\ Peers(j1.key) = Peers(j2.key)
          => j1.set.name # j2.set.name

IInv ==
    /\ TypeOK
    /\ Proved!Consistent
    /\ \A r \in Req : Fine(pc[r], job[r], txn[r])
    /\ \A r, q \in Req : r # q => Apart(pc[r], job[r], txn[r], pc[q], job[q], txn[q])

-----------------------------------------------------------------------------
(* Rows and requests.                                                      *)

\* The instances speak of the same rows as Catalogue.
LEMMA SameKey == Proved!Key = Key
  BY DEF Proved!Key, Key

\* What is proved of the abstract specification holds of Catalogue's rows.
LEMMA StoreStep ==
  Proved!Consistent /\ [Proved!Next]_<<rows, log>> => Proved!Consistent'
  BY SameKey, KeysAssumption, Proved!StepConsistent DEF Proved!store

\* A row that is not there refers to nothing and has no name; one that is there
\* refers to a row of the right table.
LEMMA RowFacts ==
  ASSUME TypeOK, NEW k \in Key
  PROVE  /\ rows[k].there \in BOOLEAN /\ rows[k].flag \in BOOLEAN
         /\ rows[k].name \in Name \cup {None} /\ rows[k].parent \in Key \cup {None}
         /\ rows[k].name # None => rows[k].there
         /\ rows[k].parent # None => rows[k].there
         /\ rows[k].parent \in Category => k \in Product
         /\ rows[k].parent \in Product => k \in Variant
         /\ rows[k].parent \notin Variant \cup Accessory
         /\ rows[k].there => rows[k] \in RowOf(k)
  <1>1. rows[k] \in RowOf(k) \cup {Gone}
    BY DEF TypeOK
  <1>2. CASE rows[k] = Gone
    BY <1>2, KeysAssumption DEF Gone, Key
  <1>3. CASE rows[k] \in RowOf(k)
    <2>1. /\ rows[k].there /\ rows[k].flag \in Flags(k)
          /\ rows[k].name \in Names(k) /\ rows[k].parent \in Parents(k)
      BY <1>3 DEF RowOf
    <2> QED
      BY <2>1, <1>3, KeysAssumption DEF Parents, Names, Flags, Key
  <1> QED
    BY <1>1, <1>2, <1>3

\* The tables are apart, so that a table is told by any of its rows.
LEMMA Tables ==
  ASSUME NEW j \in Key, NEW k \in Key
  PROVE  /\ k \in Peers(k) /\ (j \in Peers(k) <=> Peers(j) = Peers(k))
  BY KeysAssumption DEF Peers, Key

\* What a request holds in Python is about a key, except when there is none.
LEMMA JobFacts ==
  ASSUME NEW p \in Pc, NEW j \in Job, Assigned(p, j)
  PROVE  /\ p # "idle" => j.key \in Key /\ j.op \in {"create", "update", "delete"}
         /\ p = "idle" => j = NoJob
         /\ j.op = "delete" => j.set.name = Keep /\ j.set.parent = Keep
         /\ ~Claimed("idle", j)
  BY KeepAssumption DEF Assigned, NoJob, NoChange, Claimed, Job

\* Which of two requests is named first does not matter.
LEMMA ApartSymmetric ==
  ASSUME NEW p1, NEW j1, NEW x1, NEW p2, NEW j2, NEW x2, Apart(p1, j1, x1, p2, j2, x2)
  PROVE  Apart(p2, j2, x2, p1, j1, x1)
  BY DEF Apart

\* A request that holds nothing and has claimed no name is apart from any other.
LEMMA ApartIdle ==
  ASSUME NEW p1, NEW j1, NEW x1 \in Txn, NEW p2, NEW j2, ~Claimed(p2, j2)
  PROVE  Apart(p1, j1, x1, p2, j2, NoTxn)
  BY DEF Apart, Locked, NoTxn, Txn

\* A step of one request that leaves the rows alone keeps the invariant if the
\* request is fine afterwards and apart from the others.
LEMMA Moved ==
  ASSUME IInv, NEW r \in Req, NEW p \in Pc, NEW j \in Job, NEW x \in Txn,
         rows' = rows, log' = log,
         pc' = [pc EXCEPT ![r] = p], job' = [job EXCEPT ![r] = j], txn' = [txn EXCEPT ![r] = x],
         Fine(p, j, x),
         \A q \in Req \ {r} : Apart(pc[q], job[q], txn[q], p, j, x)
  PROVE  IInv'
  <1>1. TypeOK'
    BY DEF IInv, TypeOK
  <1>2. Proved!Consistent'
    BY StoreStep DEF IInv
  <1>3. /\ pc'[r] = p /\ job'[r] = j /\ txn'[r] = x
        /\ \A q \in Req \ {r} : pc'[q] = pc[q] /\ job'[q] = job[q] /\ txn'[q] = txn[q]
    BY DEF IInv, TypeOK
  <1>4. ASSUME NEW q \in Req PROVE Fine(pc[q], job[q], txn[q])'
    <2>1. CASE q = r
      BY <1>3, <2>1 DEF Fine, Assigned, Holding, Creating, Updating, Deleting, Grounded, Claimed, Locked, Referring
    <2>2. CASE q # r
      <3>1. Fine(pc[q], job[q], txn[q])
        BY DEF IInv
      <3>2. pc'[q] = pc[q] /\ job'[q] = job[q] /\ txn'[q] = txn[q]
        BY <1>3, <2>2
      <3>3. Assigned(pc[q], job[q])'
        BY <3>1, <3>2 DEF Fine, Assigned
      <3>4. Holding(pc[q], job[q], txn[q])'
        <4>1. Holding(pc[q], job[q], txn[q])
          BY <3>1 DEF Fine
        <4> QED
          BY <3>2, <4>1 DEF Holding, Creating, Updating, Deleting, Referring
      <3>5. Grounded(pc[q], job[q], txn[q])'
        <4>1. Grounded(pc[q], job[q], txn[q])
          BY <3>1 DEF Fine
        <4> QED
          BY <3>2, <4>1 DEF Grounded, Claimed, Locked
      <3> QED
        BY <3>3, <3>4, <3>5 DEF Fine
    <2> QED
      BY <2>1, <2>2
  <1>5. ASSUME NEW q \in Req, NEW s \in Req, q # s
        PROVE  Apart(pc[q], job[q], txn[q], pc[s], job[s], txn[s])'
    <2>1. Apart(pc'[q], job'[q], txn'[q], pc'[s], job'[s], txn'[s])
      <3>1. CASE q # r /\ s # r
        BY <1>3, <1>5, <3>1 DEF IInv
      <3>2. CASE s = r
        BY <1>3, <1>5, <3>2
      <3>3. CASE q = r
        BY <1>3, <1>5, <3>3, ApartSymmetric
      <3> QED
        BY <3>1, <3>2, <3>3
    <2> QED
      BY <2>1 DEF Apart, Claimed, Locked
  <1> QED
    BY <1>1, <1>2, <1>4, <1>5 DEF IInv

-----------------------------------------------------------------------------
(* Requests.                                                               *)

\* What the invariant says of one request.
LEMMA Hers ==
  ASSUME IInv, NEW r \in Req
  PROVE  /\ pc[r] \in Pc /\ job[r] \in Job /\ txn[r] \in Txn
         /\ Assigned(pc[r], job[r]) /\ Holding(pc[r], job[r], txn[r])
         /\ Grounded(pc[r], job[r], txn[r])
         /\ \A q \in Req \ {r} : Apart(pc[q], job[q], txn[q], pc[r], job[r], txn[r])
  <1>1. pc[r] \in Pc /\ job[r] \in Job /\ txn[r] \in Txn
    BY DEF IInv, TypeOK
  <1>2. Fine(pc[r], job[r], txn[r])
    BY DEF IInv
  <1>3. \A q \in Req \ {r} : Apart(pc[q], job[q], txn[q], pc[r], job[r], txn[r])
    BY DEF IInv
  <1> QED
    BY <1>1, <1>2, <1>3 DEF Fine

\* A request that ends without a commit leaves nothing behind.
LEMMA RollbackInv ==
  ASSUME IInv, NEW r \in Req, Rollback(r)
  PROVE  IInv'
  <1>1. "idle" \in Pc /\ NoJob \in Job /\ NoTxn \in Txn
    BY DEF Pc, NoJob, Job, NoChange, NoTxn, Txn
  <1>2. Fine("idle", NoJob, NoTxn)
    BY DEF Fine, Assigned, Holding, Grounded, Claimed, Locked, NoTxn
  <1>3. \A q \in Req \ {r} : Apart(pc[q], job[q], txn[q], "idle", NoJob, NoTxn)
    <2>1. ~Claimed("idle", NoJob)
      BY DEF Claimed
    <2> QED
      BY <2>1, Hers, ApartIdle
  <1> QED
    BY <1>1, <1>2, <1>3, Moved DEF Rollback

\* A new request is about one key and holds nothing.
LEMMA BeginInv ==
  ASSUME IInv, NEW r \in Req, NEW op, NEW k, NEW set, NEW next \in {"name", "count", "write"},
         Begin(r, op, k, set, next), [op |-> op, key |-> k, set |-> set] \in Job,
         Assigned(next, [op |-> op, key |-> k, set |-> set])
  PROVE  IInv'
  <1> DEFINE j == [op |-> op, key |-> k, set |-> set]
  <1>1. next \in Pc /\ txn[r] = NoTxn /\ NoTxn \in Txn
    BY Hers DEF Pc, Begin, Holding, NoTxn, Txn
  <1>2. ~Claimed(next, j)
    BY DEF Claimed
  <1>3. Fine(next, j, NoTxn)
    BY <1>2 DEF Fine, Holding, Grounded, Locked, NoTxn
  <1>4. \A q \in Req \ {r} : Apart(pc[q], job[q], txn[q], next, j, NoTxn)
    BY <1>2, Hers, ApartIdle
  <1>5. txn' = [txn EXCEPT ![r] = NoTxn] /\ rows' = rows /\ log' = log
    BY <1>1 DEF Begin, IInv, TypeOK
  <1>6. pc' = [pc EXCEPT ![r] = next] /\ job' = [job EXCEPT ![r] = j]
    BY DEF Begin
  <1> QED
    BY <1>1, <1>3, <1>4, <1>5, <1>6, Moved

\* A step within a request.
LEMMA StepInv ==
  ASSUME IInv, NEW r \in Req, NEW p \in Pc, NEW x \in Txn, Step(r, p, x),
         Assigned(p, job[r]), Holding(p, job[r], x), Grounded(p, job[r], x),
         \A q \in Req \ {r} : Apart(pc[q], job[q], txn[q], p, job[r], x)
  PROVE  IInv'
  <1>1. job' = [job EXCEPT ![r] = job[r]] /\ job[r] \in Job
    BY DEF Step, IInv, TypeOK
  <1>2. Fine(p, job[r], x)
    BY DEF Fine
  <1> QED
    BY <1>1, <1>2, Moved DEF Step

\* A step that takes no lock and claims no name.
LEMMA QuietStepInv ==
  ASSUME IInv, NEW r \in Req, NEW p \in Pc, Step(r, p, txn[r]),
         Assigned(p, job[r]), Holding(p, job[r], txn[r]),
         Claimed(p, job[r]) => Claimed(pc[r], job[r])
  PROVE  IInv'
  <1>1. Grounded(p, job[r], txn[r])
    BY Hers DEF Grounded
  <1>2. ASSUME NEW q \in Req \ {r} PROVE Apart(pc[q], job[q], txn[q], p, job[r], txn[r])
    <2>1. Apart(pc[q], job[q], txn[q], pc[r], job[r], txn[r])
      BY Hers
    <2> QED
      BY <2>1 DEF Apart
  <1>3. txn[r] \in Txn
    BY Hers
  <1> QED
    BY <1>1, <1>2, <1>3, StepInv

\* The first step of each endpoint.
LEMMA CreateReadInv ==
  ASSUME IInv, NEW r \in Req, CreateRead(r)
  PROVE  IInv'
  <1>0. PICK k \in Creatable :
                \E set \in [name : Names(k), parent : Parents(k), flag : Flags(k)] :
                    Begin(r, "create", k, set, "name")
    BY DEF CreateRead
  <1>1. PICK set \in [name : Names(k), parent : Parents(k), flag : Flags(k)] :
                Begin(r, "create", k, set, "name")
    BY <1>0
  <1>2. k \in Key
    BY ClientsAssumption
  <1>3. set \in [name : Name \cup {None, Keep}, parent : Key \cup {None, Keep},
                 flag : BOOLEAN \cup {Keep}]
    BY <1>2, KeysAssumption DEF Names, Parents, Flags, Key
  <1> QED
    BY <1>1, <1>2, <1>3, BeginInv DEF Job, Assigned

\* An update sets what differs from the copy that was loaded.
LEMMA UpdateReadInv ==
  ASSUME IInv, NEW r \in Req, UpdateRead(r)
  PROVE  IInv'
  <1>0. PICK k \in Updatable : \E set \in Changes(k) : Begin(r, "update", k, set, "name")
    BY DEF UpdateRead
  <1>1. PICK set \in Changes(k) : Begin(r, "update", k, set, "name")
    BY <1>0
  <1>2. k \in Key
    BY ClientsAssumption
  <1>3. set \in [name : Names(k) \cup {Keep}, parent : Parents(k) \cup {Keep},
                 flag : Flags(k) \cup {Keep}]
    BY <1>1 DEF Changes
  <1>4. set \in [name : Name \cup {None, Keep}, parent : Key \cup {None, Keep},
                 flag : BOOLEAN \cup {Keep}]
    BY <1>2, <1>3, KeysAssumption DEF Names, Parents, Flags, Key
  <1> QED
    BY <1>1, <1>2, <1>3, <1>4, BeginInv DEF Job, Assigned

\* The deletion of a category counts its products first.
LEMMA DeleteReadInv ==
  ASSUME IInv, NEW r \in Req, DeleteRead(r)
  PROVE  IInv'
  <1>1. PICK k \in Deletable :
                Begin(r, "delete", k, NoChange, IF k \in Category THEN "count" ELSE "write")
    BY DEF DeleteRead
  <1>2. k \in Key /\ [op |-> "delete", key |-> k, set |-> NoChange] \in Job
    BY ClientsAssumption DEF Job, NoChange
  <1> QED
    BY <1>1, <1>2, BeginInv DEF Assigned

\* The checks before the flush read rows and nothing else.
LEMMA ChecksInv ==
  ASSUME IInv, NEW r \in Req, CheckName(r) \/ CheckParent(r) \/ CountProducts(r)
  PROVE  IInv'
  <1> DEFINE p == IF pc[r] = "name" THEN "parent" ELSE "write"
  <1>1. pc[r] \in {"name", "parent", "count"}
    BY DEF CheckName, CheckParent, CountProducts
  <1>2. Rollback(r) \/ Step(r, p, txn[r])
    BY DEF CheckName, CheckParent, CountProducts
  <1>3. p \in Pc /\ ~Claimed(p, job[r])
    BY DEF Pc, Claimed
  <1>4. Assigned(p, job[r])
    BY <1>1, Hers DEF Assigned
  <1>5. Holding(p, job[r], txn[r])
    BY <1>1, Hers DEF Holding
  <1> QED
    BY <1>2, <1>3, <1>4, <1>5, RollbackInv, QuietStepInv

-----------------------------------------------------------------------------
(* The flush.                                                              *)

\* A request that does not have to wait for another.
LEMMA NotWaiting ==
  ASSUME NEW r \in Req, WaitsFor(r) = {}, NEW q \in Req \ {r}
  PROVE  /\ Wanted(r, "share") \cap txn[q].excl = {}
         /\ Wanted(r, "update") \cap (txn[q].excl \cup txn[q].wrote) = {}
         /\ Wanted(r, "delete") \cap Locked(txn[q]) = {}
         /\ ~(pc[r] = "write" /\ job[r].op = "create" /\ txn[q].made = job[r].key)
         /\ ~(pc[r] = "unique" /\ job[r].set.name \in Name \cap NamesHeld(q, Peers(job[r].key)))
  <1>1. \A mode \in {"share", "update", "delete"} : Wanted(r, mode) \cap Held(q, mode) = {}
    BY DEF WaitsFor
  <1>2. /\ Held(q, "share") = txn[q].excl
        /\ Held(q, "update") = txn[q].excl \cup txn[q].wrote
        /\ Held(q, "delete") = Locked(txn[q])
    BY DEF Held, Locked
  <1>3. /\ ~(pc[r] = "write" /\ job[r].op = "create" /\ txn[q].made = job[r].key)
        /\ ~(pc[r] = "unique" /\ job[r].set.name \in Name \cap NamesHeld(q, Peers(job[r].key)))
    BY DEF WaitsFor
  <1> QED
    BY <1>1, <1>2, <1>3

\* Two requests never insert the same key.
LEMMA InsertInv ==
  ASSUME IInv, NEW r \in Req, Insert(r)
  PROVE  IInv'
  <1> DEFINE k == job[r].key
             x == [txn[r] EXCEPT !.made = k]
  <1>1. CASE rows[k].there
    BY <1>1, RollbackInv DEF Insert
  <1>2. CASE ~rows[k].there
    <2>1. Step(r, "unique", x) /\ pc[r] = "write" /\ job[r].op = "create" /\ WaitsFor(r) = {}
      BY <1>2 DEF Insert
    <2>2. k \in Key /\ txn[r] = NoTxn
      BY <2>1, Hers, JobFacts DEF Holding
    <2>3. /\ x \in Txn /\ x.made = k /\ x.excl = {} /\ x.wrote = {} /\ x.keyed = {} /\ x.todo = {}
      BY <2>2 DEF NoTxn, Txn
    <2> HIDE DEF x
    <2>4. Assigned("unique", job[r]) /\ Holding("unique", job[r], x)
      BY <2>1, <2>3, Hers DEF Assigned, Holding, Creating
    <2>5. Grounded("unique", job[r], x)
      BY <1>2, <2>3 DEF Grounded, Claimed, Locked
    <2>6. \A q \in Req \ {r} : Apart(pc[q], job[q], txn[q], "unique", job[r], x)
      BY <2>1, <2>2, <2>3, NotWaiting, Hers DEF Apart, Claimed, Locked
    <2> QED
      BY <2>1, <2>3, <2>4, <2>5, <2>6, StepInv DEF Pc
  <1> QED
    BY <1>1, <1>2

\* An update locks its row, FOR UPDATE if it renames it.
LEMMA UpdateInv ==
  ASSUME IInv, NEW r \in Req, Update(r)
  PROVE  IInv'
  <1> DEFINE k == job[r].key
             set == job[r].set
  <1>1. pc[r] = "write" /\ job[r].op = "update" /\ WaitsFor(r) = {}
    BY DEF Update
  <1>2. k \in Key /\ txn[r] = NoTxn
    BY <1>1, Hers, JobFacts DEF Holding
  <1>3. CASE set = NoChange
    <2>1. Step(r, "commit", txn[r]) /\ ~Claimed("commit", job[r])
      BY <1>3, KeepAssumption DEF Update, Claimed, NoChange
    <2>2. Assigned("commit", job[r]) /\ Holding("commit", job[r], txn[r])
      BY <1>1, <1>2, <1>3, Hers DEF Assigned, Holding
    <2> QED
      BY <2>1, <2>2, QuietStepInv DEF Pc
  <1>4. CASE set # NoChange /\ ~rows[k].there
    BY <1>4, RollbackInv DEF Update
  <1>5. CASE set # NoChange /\ rows[k].there
    <2> DEFINE x == IF Renames(r) THEN [txn[r] EXCEPT !.excl = {k}]
                                  ELSE [txn[r] EXCEPT !.wrote = {k}]
    <2>1. Step(r, "unique", x)
      BY <1>5 DEF Update
    <2>2. /\ x \in Txn /\ x.made = None /\ x.keyed = {} /\ x.todo = {}
          /\ \/ Renames(r) /\ x.excl = {k} /\ x.wrote = {}
             \/ ~Renames(r) /\ x.excl = {} /\ x.wrote = {k}
      BY <1>2 DEF NoTxn, Txn
    <2> HIDE DEF x
    <2>3. Assigned("unique", job[r]) /\ Holding("unique", job[r], x)
      BY <1>1, <2>2, Hers DEF Assigned, Holding, Updating, Renames
    <2>4. Grounded("unique", job[r], x)
      BY <1>5, <2>2 DEF Grounded, Claimed, Locked
    <2>5. /\ Renames(r) => k \in Wanted(r, "delete")
          /\ ~Renames(r) => k \in Wanted(r, "update")
      BY <1>1, <1>5 DEF Wanted
    <2>6. \A q \in Req \ {r} : Apart(pc[q], job[q], txn[q], "unique", job[r], x)
      BY <1>1, <2>2, <2>5, NotWaiting, Hers DEF Apart, Claimed, Locked
    <2> QED
      BY <2>1, <2>2, <2>3, <2>4, <2>6, StepInv DEF Pc
  <1> QED
    BY <1>3, <1>4, <1>5

\* A name enters the unique index if no row has it and no other request has
\* entered it.
LEMMA UniqueInv ==
  ASSUME IInv, NEW r \in Req, Unique(r)
  PROVE  IInv'
  <1> DEFINE k == job[r].key
             n == job[r].set.name
  <1>1. pc[r] = "unique" /\ WaitsFor(r) = {} /\ k \in Key
    BY Hers, JobFacts DEF Unique
  <1>2. CASE n \in Name /\ \E x \in Peers(k) \ {k} : rows[x].there /\ rows[x].name = n
    BY <1>2, RollbackInv DEF Unique
  <1>3. CASE ~(n \in Name /\ \E x \in Peers(k) \ {k} : rows[x].there /\ rows[x].name = n)
    <2>1. Step(r, "reference", txn[r])
      BY <1>3 DEF Unique
    <2>2. Assigned("reference", job[r])
      BY <1>1, Hers DEF Assigned
    <2>3. Holding("reference", job[r], txn[r])
      BY <1>1, Hers DEF Holding, Creating, Updating
    <2>4. Grounded("reference", job[r], txn[r])
      BY <1>3, Hers DEF Grounded, Claimed
    <2>5. ASSUME NEW q \in Req \ {r}
          PROVE  Apart(pc[q], job[q], txn[q], "reference", job[r], txn[r])
      <3>1. Apart(pc[q], job[q], txn[q], pc[r], job[r], txn[r])
        BY Hers
      <3>2. ASSUME Claimed(pc[q], job[q]), n \in Name, Peers(job[q].key) = Peers(k)
            PROVE  job[q].set.name # n
        <4>1. job[q].key \in Peers(k)
          BY <3>2, Hers, JobFacts, Tables DEF Claimed
        <4>2. job[q].set.name \in NamesHeld(q, Peers(k))
          BY <3>2, <4>1 DEF NamesHeld, Claimed
        <4> QED
          BY <1>1, <3>2, <4>2, NotWaiting
      <3> QED
        BY <3>1, <3>2 DEF Apart, Claimed
    <2> QED
      BY <2>1, <2>2, <2>3, <2>4, <2>5, Hers, StepInv DEF Pc
  <1> QED
    BY <1>2, <1>3

\* The parent that a row refers to is there and stays, unless the row referred
\* there before.
LEMMA ReferenceInv ==
  ASSUME IInv, NEW r \in Req, Reference(r)
  PROVE  IInv'
  <1> DEFINE k == job[r].key
             p == job[r].set.parent
             next == IF job[r].op = "create" /\ k \in Variant THEN "flag" ELSE "commit"
  <1>1. pc[r] = "reference" /\ WaitsFor(r) = {} /\ k \in Key
    BY Hers, JobFacts DEF Reference
  <1>2. \/ job[r].op = "create" /\ Creating("reference", job[r], txn[r])
        \/ job[r].op = "update" /\ Updating("reference", job[r], txn[r])
    BY <1>1, Hers DEF Holding
  <1>3. next \in Pc /\ (Claimed(next, job[r]) => Claimed(pc[r], job[r]))
    BY <1>1 DEF Pc, Claimed
  <1>4. Assigned(next, job[r])
    BY <1>1, <1>2, Hers DEF Assigned
  <1>5. CASE ~Refers(r)
    <2>1. Step(r, next, txn[r])
      BY <1>5 DEF Reference
    <2>2. p \in Key => job[r].op = "update" /\ rows[k].parent = p
      BY <1>2, <1>5 DEF Refers, Creating
    <2>3. Holding(next, job[r], txn[r])
      <3>1. CASE job[r].op = "create"
        BY <1>2, <2>2, <3>1 DEF Holding, Creating
      <3>2. CASE job[r].op = "update"
        BY <1>2, <2>2, <3>2 DEF Holding, Updating
      <3> QED
        BY <1>2, <3>1, <3>2
    <2> QED
      BY <1>3, <1>4, <2>1, <2>3, QuietStepInv
  <1>6. CASE Refers(r) /\ ~rows[p].there
    BY <1>6, RollbackInv DEF Reference
  <1>7. CASE Refers(r) /\ rows[p].there
    <2> DEFINE x == [txn[r] EXCEPT !.keyed = {p}]
    <2>1. Step(r, next, x) /\ p \in Key
      BY <1>7 DEF Reference, Refers
    <2>2. /\ x \in Txn /\ x.keyed = {p} /\ x.made = txn[r].made /\ x.todo = txn[r].todo
          /\ x.excl = txn[r].excl /\ x.wrote = txn[r].wrote
      BY <2>1, Hers DEF Txn
    <2> HIDE DEF x
    <2>3. Holding(next, job[r], x)
      <3>1. CASE job[r].op = "create"
        <4>1. txn[r].keyed \subseteq {p} /\ txn[r].wrote \subseteq {p}
          BY <1>2, <3>1 DEF Creating
        <4> QED
          BY <1>2, <2>2, <3>1, <4>1 DEF Holding, Creating
      <3>2. CASE job[r].op = "update"
        BY <1>2, <2>2, <3>2 DEF Holding, Updating
      <3> QED
        BY <1>2, <3>1, <3>2
    <2>4. Grounded(next, job[r], x)
      BY <1>3, <1>7, <2>2, Hers DEF Grounded, Locked
    <2>5. p \in Wanted(r, "share")
      BY <1>1, <1>7 DEF Wanted
    <2>6. ASSUME NEW q \in Req \ {r} PROVE Apart(pc[q], job[q], txn[q], next, job[r], x)
      <3>1. Apart(pc[q], job[q], txn[q], pc[r], job[r], txn[r]) /\ p \notin txn[q].excl
        BY <1>1, <2>5, Hers, NotWaiting
      <3> HIDE DEF next
      <3> QED
        BY <1>3, <2>2, <3>1 DEF Apart, Locked
    <2> QED
      BY <1>3, <1>4, <2>1, <2>2, <2>3, <2>4, <2>6, StepInv
  <1> QED
    BY <1>5, <1>6, <1>7

\* The first variant of a product marks it: the product is looked at, then locked.
LEMMA FlagInv ==
  ASSUME IInv, NEW r \in Req, FlagRead(r) \/ FlagWrite(r)
  PROVE  IInv'
  <1> DEFINE p == job[r].set.parent
  <1>1. pc[r] \in {"flag", "mark"}
    BY DEF FlagRead, FlagWrite
  <1>2. job[r].op = "create" /\ Creating(pc[r], job[r], txn[r])
    BY <1>1, Hers DEF Holding
  <1>3. Assigned("mark", job[r]) /\ Assigned("commit", job[r])
    BY <1>1, <1>2, Hers DEF Assigned
  <1>4. p \in Key /\ job[r].key \in Variant
    BY <1>1, <1>2, Hers, KeysAssumption DEF Creating, Assigned, Parents, Key
  <1>5. CASE FlagRead(r)
    <2>1. Step(r, "commit", txn[r]) \/ Step(r, "mark", txn[r])
      BY <1>5 DEF FlagRead
    <2>2. Holding("commit", job[r], txn[r]) /\ Holding("mark", job[r], txn[r])
      BY <1>1, <1>2, <1>4 DEF Holding, Creating
    <2>3. /\ Claimed("commit", job[r]) => Claimed(pc[r], job[r])
          /\ Claimed("mark", job[r]) => Claimed(pc[r], job[r])
      BY <1>1 DEF Claimed
    <2> QED
      BY <1>3, <2>1, <2>2, <2>3, QuietStepInv DEF Pc
  <1>6. CASE FlagWrite(r)
    <2> DEFINE x == [txn[r] EXCEPT !.wrote = {p}]
    <2>1. Step(r, "commit", x) /\ pc[r] = "mark" /\ WaitsFor(r) = {}
      BY <1>6 DEF FlagWrite
    <2>2. /\ x \in Txn /\ x.wrote = {p} /\ x.made = txn[r].made /\ x.todo = txn[r].todo
          /\ x.excl = txn[r].excl /\ x.keyed = txn[r].keyed
      BY <1>4, Hers DEF Txn
    <2> HIDE DEF x
    <2>3. p \in txn[r].keyed /\ Holding("commit", job[r], x)
      BY <1>1, <1>2, <1>4, <2>2 DEF Holding, Creating
    <2>4. Claimed("commit", job[r]) => Claimed(pc[r], job[r])
      BY <1>1 DEF Claimed
    <2>5. Grounded("commit", job[r], x)
      BY <2>2, <2>3, <2>4, Hers DEF Grounded, Locked
    <2>6. p \in Wanted(r, "update")
      BY <2>1 DEF Wanted
    <2>7. ASSUME NEW q \in Req \ {r} PROVE Apart(pc[q], job[q], txn[q], "commit", job[r], x)
      <3>1. /\ Apart(pc[q], job[q], txn[q], pc[r], job[r], txn[r])
            /\ p \notin txn[q].excl \cup txn[q].wrote
        BY <2>1, <2>6, Hers, NotWaiting
      <3> QED
        BY <2>2, <2>4, <3>1 DEF Apart, Locked
    <2> QED
      BY <1>3, <2>1, <2>2, <2>3, <2>5, <2>7, StepInv DEF Pc
  <1> QED
    BY <1>5, <1>6

\* Only variants refer to a product, only products to a category, and nothing to
\* the rest.
LEMMA ReferringTables ==
  ASSUME TypeOK, NEW k \in Key
  PROVE  /\ Referring(k) \subseteq Key
         /\ k \in Category => Referring(k) \subseteq Product
         /\ k \in Product => Referring(k) \subseteq Variant
         /\ k \notin Category \cup Product => Referring(k) = {}
  BY RowFacts DEF Referring, Key

\* A deletion locks its row, and notes the variants that go with it.
LEMMA DeleteInv ==
  ASSUME IInv, NEW r \in Req, Delete(r)
  PROVE  IInv'
  <1> DEFINE k == job[r].key
             next == IF k \in Category THEN "restrict"
                     ELSE IF k \in Product THEN "cascade" ELSE "commit"
             visits == Referring(k) \cap Variant
             x == [txn[r] EXCEPT !.excl = {k}, !.todo = visits]
  <1>1. pc[r] = "write" /\ job[r].op = "delete" /\ WaitsFor(r) = {}
    BY DEF Delete
  <1>2. k \in Key /\ txn[r] = NoTxn /\ job[r].set = NoChange
    BY <1>1, Hers, JobFacts DEF Holding, Assigned
  <1>3. ~Claimed("commit", job[r]) /\ ~Claimed(next, job[r])
    BY <1>2, KeepAssumption DEF Claimed, NoChange
  <1>4. CASE ~rows[k].there
    <2>1. Step(r, "commit", txn[r])
      BY <1>4 DEF Delete
    <2>2. Assigned("commit", job[r]) /\ Holding("commit", job[r], txn[r])
      BY <1>1, <1>2, Hers DEF Assigned, Holding
    <2> QED
      BY <1>3, <2>1, <2>2, QuietStepInv DEF Pc
  <1>5. CASE rows[k].there
    <2>1. Step(r, next, x)
      BY <1>5 DEF Delete
    <2>2. /\ x \in Txn /\ x.made = None /\ x.wrote = {} /\ x.keyed = {}
          /\ x.excl = {k} /\ x.todo = visits
      <3>1. visits \subseteq Key
        BY DEF Referring
      <3> HIDE DEF visits
      <3>2. txn[r] \in Txn
        BY Hers
      <3>3. /\ x \in Txn /\ x.made = txn[r].made /\ x.wrote = txn[r].wrote
            /\ x.keyed = txn[r].keyed /\ x.excl = {k} /\ x.todo = visits
        BY <1>2, <3>1, <3>2 DEF Txn
      <3> HIDE DEF x
      <3> QED
        BY <1>2, <3>3 DEF NoTxn
    <2>3. /\ next \in {"restrict", "cascade", "commit"} /\ next \in Pc
          /\ next = "restrict" <=> k \in Category
          /\ next = "cascade" => k \in Product
          /\ next = "commit" => k \notin Category \cup Product
      BY DEF Pc
    <2> HIDE DEF x, next
    <2>4. Assigned(next, job[r])
      BY <1>1, <2>3, Hers DEF Assigned
    <2>5. Holding(next, job[r], x)
      <3>1. /\ next # "restrict" => Referring(k) \subseteq Variant
            /\ next = "commit" => Referring(k) = {}
            /\ k \in Category => visits = {}
        BY <1>2, <2>3, ReferringTables, KeysAssumption DEF IInv, Key
      <3>2. Deleting(next, job[r], x)
        BY <2>2, <2>3, <3>1 DEF Deleting
      <3> QED
        BY <1>1, <2>3, <3>2 DEF Holding
    <2>6. Grounded(next, job[r], x)
      BY <1>3, <1>5, <2>2 DEF Grounded, Locked
    <2>7. k \in Wanted(r, "delete")
      BY <1>1 DEF Wanted
    <2>8. ASSUME NEW q \in Req \ {r} PROVE Apart(pc[q], job[q], txn[q], next, job[r], x)
      <3>1. k \notin Locked(txn[q])
        BY <1>1, <2>7, NotWaiting
      <3> QED
        BY <1>3, <2>2, <3>1 DEF Apart, Locked
    <2> QED
      BY <2>1, <2>2, <2>3, <2>4, <2>5, <2>6, <2>8, StepInv
  <1> QED
    BY <1>4, <1>5

\* A category goes when no product is in it, a product when its variants are locked.
LEMMA RestrictInv ==
  ASSUME IInv, NEW r \in Req, Restrict(r)
  PROVE  IInv'
  <1>1. pc[r] = "restrict"
    BY DEF Restrict
  <1>2. CASE Referring(job[r].key) # {}
    BY <1>2, RollbackInv DEF Restrict
  <1>3. CASE Referring(job[r].key) = {}
    <2>1. Step(r, "commit", txn[r])
      BY <1>3 DEF Restrict
    <2>2. job[r].op = "delete" /\ Deleting("restrict", job[r], txn[r])
      BY <1>1, Hers DEF Holding
    <2>3. Deleting("commit", job[r], txn[r])
      BY <1>3, <2>2 DEF Deleting
    <2>4. Holding("commit", job[r], txn[r])
      BY <2>2, <2>3 DEF Holding
    <2>5. Assigned("commit", job[r])
      BY <1>1, Hers DEF Assigned
    <2>6. ~Claimed("commit", job[r])
      BY <2>2, <2>5, KeepAssumption DEF Claimed, Assigned, NoChange
    <2> QED
      BY <2>1, <2>4, <2>5, <2>6, QuietStepInv DEF Pc
  <1> QED
    BY <1>2, <1>3

\* The variants that are not visited yet are the ones that may still move away.
LEMMA CascadeInv ==
  ASSUME IInv, NEW r \in Req, Cascade(r)
  PROVE  IInv'
  <1> DEFINE k == job[r].key
  <1>1. pc[r] = "cascade" /\ k \in Key
    BY Hers, JobFacts DEF Cascade
  <1>2. job[r].op = "delete" /\ Deleting("cascade", job[r], txn[r])
    BY <1>1, Hers DEF Holding
  <1>3. k \in Product /\ k \notin Category
    BY <1>2, KeysAssumption DEF Deleting
  <1>4. Assigned("commit", job[r])
    BY <1>1, Hers DEF Assigned
  <1>5. ~Claimed("commit", job[r]) /\ ~Claimed("cascade", job[r])
    BY <1>2, <1>4, KeepAssumption DEF Claimed, Assigned, NoChange
  <1>6. CASE txn[r].todo = {} /\ Step(r, "commit", txn[r])
    <2>1. Deleting("commit", job[r], txn[r])
      BY <1>2, <1>6 DEF Deleting
    <2>2. Holding("commit", job[r], txn[r])
      BY <1>2, <2>1 DEF Holding
    <2> QED
      BY <1>4, <1>5, <1>6, <2>2, QuietStepInv DEF Pc
  <1>7. ASSUME NEW v \in txn[r].todo,
               \A q \in Req \ {r} : v \notin Held(q, "delete"),
               Step(r, "cascade",
                    [txn[r] EXCEPT !.todo = @ \ {v},
                       !.excl = IF rows[v].parent = k THEN @ \cup {v} ELSE @])
        PROVE  IInv'
    <2> DEFINE x == [txn[r] EXCEPT !.todo = @ \ {v},
                       !.excl = IF rows[v].parent = k THEN @ \cup {v} ELSE @]
    <2>1. v \in Key /\ txn[r] \in Txn
      BY Hers DEF Txn
    <2>2. /\ x \in Txn /\ x.made = txn[r].made /\ x.wrote = txn[r].wrote
          /\ x.keyed = txn[r].keyed /\ x.todo = txn[r].todo \ {v}
          /\ x.excl = IF rows[v].parent = k THEN txn[r].excl \cup {v} ELSE txn[r].excl
      BY <2>1 DEF Txn
    <2> HIDE DEF x
    <2>3. Deleting("cascade", job[r], x)
      <3>1. Referring(k) \subseteq txn[r].excl \cup txn[r].todo
        BY <1>2 DEF Deleting
      <3>2. v \in Referring(k) => rows[v].parent = k
        BY DEF Referring
      <3>3. Referring(k) \subseteq x.excl \cup x.todo
        BY <2>2, <3>1, <3>2
      <3> QED
        BY <1>2, <1>3, <2>2, <3>3 DEF Deleting
    <2>4. Holding("cascade", job[r], x)
      BY <1>2, <2>3 DEF Holding
    <2>5. Grounded("cascade", job[r], x)
      <3>1. Grounded(pc[r], job[r], txn[r])
        BY Hers
      <3>2. rows[v].parent = k => rows[v].there
        BY <1>1, <2>1, RowFacts, KeysAssumption DEF IInv
      <3> QED
        BY <1>5, <2>2, <3>1, <3>2 DEF Grounded, Locked
    <2>6. ASSUME NEW q \in Req \ {r} PROVE Apart(pc[q], job[q], txn[q], "cascade", job[r], x)
      <3>1. Apart(pc[q], job[q], txn[q], pc[r], job[r], txn[r])
        BY Hers
      <3>2. v \notin Locked(txn[q])
        BY <1>7 DEF Held, Locked
      <3> QED
        BY <1>5, <2>2, <3>1, <3>2 DEF Apart, Locked
    <2>7. Step(r, "cascade", x) /\ Assigned("cascade", job[r])
      BY <1>1, <1>7, Hers DEF x
    <2> QED
      BY <2>2, <2>4, <2>5, <2>6, <2>7, StepInv DEF Pc
  <1> QED
    BY <1>6, <1>7 DEF Cascade

-----------------------------------------------------------------------------
(* Commit.                                                                 *)

\* CatalogueRows means the same to the abstract specification.
LEMMA SameRows ==
  /\ \A k : Proved!RowOf(k) = RowOf(k) /\ Proved!Peers(k) = Peers(k)
  /\ Proved!Gone = Gone
  /\ \A s : Proved!Newest(s) = Newest(s)
  <1>1. \A k : Proved!Names(k) = Names(k)
    BY DEF Proved!Names, Names
  <1>2. \A k : Proved!Parents(k) = Parents(k)
    BY DEF Proved!Parents, Parents
  <1>3. \A k : Proved!Flags(k) = Flags(k)
    BY DEF Proved!Flags, Flags
  <1>4. \A k : Proved!RowOf(k) = RowOf(k)
    BY <1>1, <1>2, <1>3 DEF Proved!RowOf, RowOf
  <1>5. \A k : Proved!Peers(k) = Peers(k)
    BY DEF Proved!Peers, Peers
  <1>6. Proved!Gone = Gone
    BY DEF Proved!Gone, Gone
  <1>7. \A s : Proved!Newest(s) = Newest(s)
    BY DEF Proved!Newest, Newest
  <1> QED
    BY <1>4, <1>5, <1>6, <1>7

\* What a create inserts.
LEMMA CreatedRow ==
  ASSUME NEW j \in Job, j.op = "create", Assigned("commit", j)
  PROVE  LET row == Patched([Gone EXCEPT !.there = TRUE], j.set) IN
         row \in RowOf(j.key) /\ row.name = j.set.name /\ row.parent = j.set.parent
  <1> DEFINE k == j.key
             N == Names(k) \cup {None}
             P == Parents(k) \cup {None}
             F == Flags(k) \cup {FALSE}
             new == [Gone EXCEPT !.there = TRUE]
             row == Patched(new, j.set)
  <1>1. /\ j.set.name \in Names(k) /\ j.set.parent \in Parents(k) /\ j.set.flag \in Flags(k)
    BY DEF Assigned
  <1>2. Keep \notin Names(k) /\ Keep \notin Parents(k) /\ Keep \notin Flags(k)
    BY KeepAssumption DEF Names, Parents, Flags, Key
  <1>3. new \in [there : BOOLEAN, name : N, parent : P, flag : F] /\ new.there = TRUE
    BY DEF Gone
  <1> HIDE DEF new
  <1>4. /\ row \in [there : BOOLEAN, name : N, parent : P, flag : F] /\ row.there = TRUE
        /\ row.name = j.set.name /\ row.parent = j.set.parent /\ row.flag = j.set.flag
    <2>1. j.set.name \in N \ {Keep} /\ j.set.parent \in P \ {Keep} /\ j.set.flag \in F \ {Keep}
      BY <1>1, <1>2
    <2> HIDE DEF N, P, F
    <2> QED
      BY <2>1, <1>3 DEF Patched
  <1> HIDE DEF row
  <1>5. row \in RowOf(k)
    BY <1>1, <1>4 DEF RowOf
  <1> QED
    BY <1>4, <1>5 DEF row, new

\* What an update makes of its row.
LEMMA UpdatedRow ==
  ASSUME TypeOK, NEW j \in Job, j.op = "update", Assigned("commit", j), rows[j.key].there
  PROVE  LET row == Patched(rows[j.key], j.set) IN
         /\ row \in RowOf(j.key)
         /\ row.name = IF j.set.name = Keep THEN rows[j.key].name ELSE j.set.name
         /\ row.parent = IF j.set.parent = Keep THEN rows[j.key].parent ELSE j.set.parent
  <1> DEFINE k == j.key
             row == Patched(rows[k], j.set)
  <1>1. /\ j.set.name \in Names(k) \cup {Keep} /\ j.set.parent \in Parents(k) \cup {Keep}
        /\ j.set.flag \in Flags(k) \cup {Keep} /\ k \in Key
    BY DEF Assigned
  <1>2. rows[k] \in [there : {TRUE}, name : Names(k), parent : Parents(k), flag : Flags(k)]
    BY <1>1, RowFacts DEF RowOf
  <1>3. /\ row \in [there : {TRUE}, name : Names(k), parent : Parents(k), flag : Flags(k)]
        /\ row.name = IF j.set.name = Keep THEN rows[k].name ELSE j.set.name
        /\ row.parent = IF j.set.parent = Keep THEN rows[k].parent ELSE j.set.parent
    BY <1>1, <1>2 DEF Patched
  <1> QED
    BY <1>3 DEF RowOf

\* What a commit writes, by what the request holds.
LEMMA CommitFacts ==
  ASSUME IInv, NEW r \in Req, Commit(r)
  PROVE  /\ pc[r] = "commit" /\ job[r].key \in Key /\ Assigned("commit", job[r])
         /\ \/ txn[r] = NoTxn /\ job[r].op \in {"update", "delete"} /\ job[r].set = NoChange
            \/ job[r].op = "create" /\ Creating("commit", job[r], txn[r])
            \/ job[r].op = "update" /\ Updating("commit", job[r], txn[r])
            \/ job[r].op = "delete" /\ Deleting("commit", job[r], txn[r])
         /\ rows' = [x \in Key |-> Written(r, x)]
         /\ log' = Newest(<<[type |-> job[r].op, key |-> job[r].key]>> \o log)
  <1>1. pc[r] = "commit"
    BY DEF Commit
  <1>2. job[r].key \in Key /\ Assigned("commit", job[r]) /\ job[r].op \in {"create", "update", "delete"}
    BY <1>1, Hers, JobFacts
  <1>3. \/ txn[r] = NoTxn /\ job[r].op \in {"update", "delete"} /\ job[r].set = NoChange
        \/ job[r].op = "create" /\ Creating("commit", job[r], txn[r])
        \/ job[r].op = "update" /\ Updating("commit", job[r], txn[r])
        \/ job[r].op = "delete" /\ Deleting("commit", job[r], txn[r])
    BY <1>1, <1>2, Hers DEF Holding
  <1>4. /\ rows' = [x \in Key |-> Written(r, x)]
        /\ log' = Newest(<<[type |-> job[r].op, key |-> job[r].key]>> \o log)
    BY DEF Commit
  <1> QED
    BY <1>1, <1>2, <1>3, <1>4

\* A row fits if its name is nobody else's and its parent is there.
LEMMA FitsByClaim ==
  ASSUME IInv, NEW k \in Key, NEW row \in RowOf(k),
         row.name = None \/ \A x \in Peers(k) \ {k} : ~rows[x].there \/ rows[x].name # row.name,
         row.parent # None => rows[row.parent].there
  PROVE  Proved!Fits(k, row)
  BY SameRows DEF Proved!Fits, Proved!NameFree

\* The creation of a row is one Create.
LEMMA CommitCreate ==
  ASSUME IInv, NEW r \in Req, Commit(r), job[r].op = "create"
  PROVE  Proved!Create(job[r].key)
  <1> DEFINE k == job[r].key
             row == Patched([Gone EXCEPT !.there = TRUE], job[r].set)
             on == txn[r].wrote # {}
  <1>1. /\ pc[r] = "commit" /\ k \in Key /\ Assigned("commit", job[r])
        /\ Creating("commit", job[r], txn[r])
        /\ rows' = [x \in Key |-> Written(r, x)]
        /\ log' = Newest(<<[type |-> "create", key |-> k]>> \o log)
    BY CommitFacts
  <1>2. /\ row \in RowOf(k) /\ row.name = job[r].set.name /\ row.parent = job[r].set.parent
    BY <1>1, Hers, CreatedRow
  <1>3. txn[r].made = k /\ ~rows[k].there
    BY <1>1, Hers, KeysAssumption DEF Creating, Grounded
  <1>4. Proved!Fits(k, row)
    <2>1. row.name \in Name \cup {None} /\ row.parent \in Key \cup {None}
      BY <1>1, <1>2 DEF Assigned, Names, Parents, Key
    <2>2. row.name \in Name => \A x \in Peers(k) \ {k} : ~rows[x].there \/ rows[x].name # row.name
      BY <1>1, <1>2, Hers DEF Grounded, Claimed
    <2>3. row.parent # None => rows[row.parent].there
      BY <1>1, <1>2, <2>1, Hers DEF Creating, Grounded, Locked
    <2> QED
      BY <1>1, <1>2, <2>1, <2>2, <2>3, FitsByClaim
  <1>5. ASSUME NEW x \in Key
        PROVE  Written(r, x) = IF x = k THEN row
                               ELSE IF on /\ k \in Variant /\ x = row.parent
                               THEN [rows[x] EXCEPT !.flag = TRUE] ELSE rows[x]
    <2>1. CASE x = k
      BY <1>3, <2>1 DEF Written
    <2>2. CASE x # k
      <3>1. txn[r].excl = {} /\ txn[r].wrote \subseteq {row.parent} /\ (on => k \in Variant)
        BY <1>1, <1>2 DEF Creating
      <3>2. Written(r, x) = IF x \in txn[r].wrote THEN [rows[x] EXCEPT !.flag = TRUE] ELSE rows[x]
        BY <1>3, <2>2, <3>1 DEF Written
      <3>3. x \in txn[r].wrote <=> on /\ k \in Variant /\ x = row.parent
        BY <3>1
      <3> QED
        BY <2>2, <3>2, <3>3
    <2> QED
      BY <2>1, <2>2
  <1> HIDE DEF row
  <1>6. rows' = [x \in Key |-> IF x = k THEN row
                               ELSE IF on /\ k \in Variant /\ x = row.parent
                               THEN [rows[x] EXCEPT !.flag = TRUE] ELSE rows[x]]
    BY <1>1, <1>5
  <1>7. on \in BOOLEAN
    OBVIOUS
  <1> HIDE DEF on
  <1> QED
    BY <1>1, <1>2, <1>3, <1>4, <1>6, <1>7, SameKey, SameRows DEF Proved!Create, Proved!Recorded

\* An update that writes is one Update, whatever columns it patches.
LEMMA CommitUpdate ==
  ASSUME IInv, NEW r \in Req, Commit(r), job[r].op = "update",
         Updating("commit", job[r], txn[r])
  PROVE  Proved!Update(job[r].key)
  <1> DEFINE k == job[r].key
             row == Patched(rows[k], job[r].set)
  <1>1. /\ pc[r] = "commit" /\ k \in Key /\ Assigned("commit", job[r])
        /\ rows' = [x \in Key |-> Written(r, x)]
        /\ log' = Newest(<<[type |-> "update", key |-> k]>> \o log)
    BY CommitFacts
  <1>2. txn[r].made = None /\ txn[r].wrote \cup txn[r].excl = {k}
    BY DEF Updating
  <1>3. rows[k].there
    BY <1>2, Hers DEF Grounded, Locked
  <1>4. /\ row \in RowOf(k)
        /\ row.name = IF job[r].set.name = Keep THEN rows[k].name ELSE job[r].set.name
        /\ row.parent = IF job[r].set.parent = Keep THEN rows[k].parent ELSE job[r].set.parent
    BY <1>1, <1>3, Hers, UpdatedRow DEF IInv
  <1>5. Proved!Fits(k, row)
    <2>1. /\ job[r].set.name \in Name \cup {None, Keep}
          /\ job[r].set.parent \in Key \cup {None, Keep}
      BY Hers DEF Job
    <2>2. ASSUME job[r].set.name \in Name
          PROVE  \A x \in Peers(k) \ {k} : ~rows[x].there \/ rows[x].name # row.name
      BY <1>1, <1>4, <2>2, Hers, KeepAssumption DEF Grounded, Claimed
    <2>3. ASSUME job[r].set.name \notin Name, row.name # None, NEW x \in Peers(k) \ {k},
                 rows[x].there, rows[x].name = row.name
          PROVE  FALSE
      <3>1. row.name = rows[k].name
        BY <1>4, <2>1, <2>3
      <3>2. x \in Key /\ Peers(x) = Peers(k)
        BY <1>1, <2>3, KeysAssumption DEF Peers, Key
      <3> QED
        BY <1>1, <2>3, <3>1, <3>2, SameKey, SameRows DEF IInv, Proved!Consistent, Proved!NamesDiffer
    <2>4. row.parent # None => rows[row.parent].there
      <3>1. rows[k].parent # None => rows[rows[k].parent].there
        BY <1>1, SameKey DEF IInv, Proved!Consistent, Proved!ParentsKept
      <3>2. job[r].set.parent \in Key =>
               job[r].set.parent \in txn[r].keyed \/ rows[k].parent = job[r].set.parent
        BY DEF Updating
      <3>3. \A x \in txn[r].keyed : rows[x].there
        BY Hers DEF Grounded, Locked
      <3> QED
        BY <1>4, <2>1, <3>1, <3>2, <3>3, KeysAssumption
    <2> HIDE DEF row
    <2> QED
      BY <1>1, <1>4, <2>2, <2>3, <2>4, FitsByClaim
  <1>6. ASSUME NEW x \in Key PROVE Written(r, x) = IF x = k THEN row ELSE rows[x]
    BY <1>2, KeysAssumption DEF Written
  <1> HIDE DEF row
  <1>7. rows' = [rows EXCEPT ![k] = row]
    BY <1>1, <1>6 DEF IInv, TypeOK
  <1> QED
    BY <1>1, <1>3, <1>4, <1>5, <1>7, SameKey, SameRows DEF Proved!Update, Proved!Recorded

\* A deletion takes its row and, of a product, all its variants and no others.
LEMMA CommitDelete ==
  ASSUME IInv, NEW r \in Req, Commit(r), job[r].op = "delete",
         Deleting("commit", job[r], txn[r])
  PROVE  Proved!Delete(job[r].key)
  <1> DEFINE k == job[r].key
  <1>1. /\ pc[r] = "commit" /\ k \in Key
        /\ rows' = [x \in Key |-> Written(r, x)]
        /\ log' = Newest(<<[type |-> "delete", key |-> k]>> \o log)
    BY CommitFacts
  <1>2. /\ txn[r].made = None /\ txn[r].wrote = {} /\ k \in txn[r].excl
        /\ \A v \in txn[r].excl \ {k} : rows[v].parent = k
        /\ Referring(k) \subseteq txn[r].excl
        /\ k \in Category => txn[r].excl = {k}
    BY DEF Deleting
  <1>3. rows[k].there
    BY <1>2, Hers DEF Grounded, Locked
  <1>4. \A x \in Key : rows[x].parent = k => x \in Referring(k)
    BY <1>1, RowFacts, KeysAssumption DEF Referring, IInv
  <1>5. k \in Category => \A p \in Product : rows[p].parent # k
    BY <1>2, <1>4, KeysAssumption DEF Key
  <1>6. ASSUME NEW x \in Key
        PROVE  x \in txn[r].excl <=> x = k \/ (k \in Product /\ rows[x].parent = k)
    <2>1. rows[x].parent = k /\ k \notin Product => k \in Category
      BY <1>1, <1>4, ReferringTables DEF IInv
    <2> QED
      BY <1>2, <1>4, <2>1
  <1>7. ASSUME NEW x \in Key
        PROVE  Written(r, x) = IF x = k \/ (k \in Product /\ rows[x].parent = k)
                               THEN Gone ELSE rows[x]
    BY <1>2, <1>6, KeysAssumption DEF Written
  <1>8. rows' = [x \in Key |-> IF x = k \/ (k \in Product /\ rows[x].parent = k)
                               THEN Gone ELSE rows[x]]
    BY <1>1, <1>7
  <1> QED
    BY <1>1, <1>3, <1>5, <1>8, SameKey, SameRows DEF Proved!Delete, Proved!Recorded

\* A commit without a write only adds its entry.
LEMMA CommitVain ==
  ASSUME IInv, NEW r \in Req, Commit(r), txn[r] = NoTxn, job[r].op \in {"update", "delete"}
  PROVE  Proved!Vain(job[r].key)
  <1>1. \A x \in Key : Written(r, x) = rows[x]
    BY KeysAssumption DEF Written, NoTxn
  <1>2. rows' = [x \in Key |-> rows[x]]
    BY <1>1, CommitFacts
  <1>3. rows' = rows
    BY <1>2 DEF IInv, TypeOK
  <1> QED
    BY <1>3, CommitFacts, SameRows DEF Proved!Vain, Proved!Recorded

\* A commit is one step of the abstract specification.
LEMMA CommitStep ==
  ASSUME IInv, NEW r \in Req, Commit(r)
  PROVE  Proved!Next
  <1>1. job[r].key \in Proved!Key
    BY CommitFacts, SameKey
  <1>2. \/ txn[r] = NoTxn /\ job[r].op \in {"update", "delete"}
        \/ job[r].op = "create"
        \/ job[r].op = "update" /\ Updating("commit", job[r], txn[r])
        \/ job[r].op = "delete" /\ Deleting("commit", job[r], txn[r])
    BY CommitFacts
  <1>3. \/ Proved!Create(job[r].key) \/ Proved!Update(job[r].key)
        \/ Proved!Delete(job[r].key) \/ Proved!Vain(job[r].key)
    BY <1>2, CommitCreate, CommitUpdate, CommitDelete, CommitVain
  <1> QED
    BY <1>1, <1>3 DEF Proved!Next

\* What a commit does to any row: it changes only rows that the request holds,
\* removes only those it holds FOR UPDATE, lets a row refer only to a parent that
\* the request holds, and gives a name only to the row and as claimed.
LEMMA CommitEffect ==
  ASSUME IInv, NEW r \in Req, Commit(r), NEW x \in Key
  PROVE  /\ x \notin txn[r].wrote \cup txn[r].excl /\ x # txn[r].made => rows'[x] = rows[x]
         /\ rows[x].there /\ x \notin txn[r].excl => rows'[x].there
         /\ rows'[x].parent \in Key =>
               rows'[x].parent = rows[x].parent \/ rows'[x].parent \in txn[r].keyed
         /\ rows'[x].name \in Name =>
               \/ rows[x].there /\ rows'[x].name = rows[x].name
               \/ /\ x = job[r].key /\ rows'[x].name = job[r].set.name
                  /\ Claimed(pc[r], job[r])
  <1> DEFINE k == job[r].key
  <1>1. /\ pc[r] = "commit" /\ k \in Key /\ Assigned("commit", job[r])
        /\ rows'[x] = Written(r, x)
    BY CommitFacts
  <1>2. rows[x].there \in BOOLEAN /\ (rows[x].name \in Name => rows[x].there)
    BY RowFacts, KeysAssumption DEF IInv
  <1>3. Claimed(pc[r], job[r]) <=> job[r].set.name \in Name
    BY <1>1 DEF Claimed
  <1>4. CASE x \notin txn[r].wrote \cup txn[r].excl /\ x # txn[r].made
    BY <1>1, <1>2, <1>4 DEF Written
  <1>5. CASE x = txn[r].made
    <2>1. job[r].op = "create" /\ Creating("commit", job[r], txn[r]) /\ x = k
      <3>1. txn[r].made # None
        BY <1>5, KeysAssumption
      <3>2. /\ txn[r] # NoTxn /\ ~Updating("commit", job[r], txn[r])
            /\ ~Deleting("commit", job[r], txn[r])
        BY <3>1 DEF NoTxn, Updating, Deleting
      <3>3. job[r].op = "create" /\ Creating("commit", job[r], txn[r])
        BY <3>2, CommitFacts
      <3> QED
        BY <1>5, <3>3 DEF Creating
    <2>2. ~rows[x].there /\ x \notin txn[r].excl
      BY <1>5, <2>1, Hers, KeysAssumption DEF Grounded, Creating
    <2>3. rows'[x].name = job[r].set.name /\ rows'[x].parent = job[r].set.parent
      BY <1>1, <1>5, <2>1, Hers, CreatedRow DEF Written
    <2>4. job[r].set.parent \in Key => job[r].set.parent \in txn[r].keyed
      BY <2>1 DEF Creating
    <2> QED
      BY <1>3, <1>5, <2>1, <2>2, <2>3, <2>4
  <1>6. CASE x # txn[r].made /\ x \in txn[r].wrote \cup txn[r].excl
    <2>1. CASE job[r].op = "delete"
      <3>1. rows'[x] = Gone /\ x \in txn[r].excl
        <4>1. txn[r] # NoTxn
          BY <1>6 DEF NoTxn
        <4>2. Deleting("commit", job[r], txn[r])
          BY <2>1, <4>1, CommitFacts
        <4>3. x \in txn[r].excl
          BY <1>6, <4>2 DEF Deleting
        <4> QED
          BY <1>1, <1>6, <2>1, <4>3 DEF Written
      <3> QED
        BY <1>6, <3>1, KeysAssumption DEF Gone
    <2>2. CASE job[r].op = "update"
      <3>1. Updating("commit", job[r], txn[r]) /\ x = k /\ rows[k].there
        <4>1. txn[r] # NoTxn
          BY <1>6 DEF NoTxn
        <4>2. Updating("commit", job[r], txn[r])
          BY <2>2, <4>1, CommitFacts
        <4>3. x = k
          BY <1>6, <4>2 DEF Updating
        <4> QED
          BY <1>6, <4>2, <4>3, Hers DEF Grounded, Locked
      <3>2. rows'[x] = Patched(rows[k], job[r].set)
        BY <1>1, <1>6, <2>2, <3>1 DEF Written
      <3>3. /\ rows'[x] \in RowOf(k)
            /\ rows'[x].name = IF job[r].set.name = Keep THEN rows[k].name ELSE job[r].set.name
            /\ rows'[x].parent = IF job[r].set.parent = Keep THEN rows[k].parent
                                                             ELSE job[r].set.parent
        BY <1>1, <2>2, <3>1, <3>2, Hers, UpdatedRow DEF IInv
      <3>4. rows'[x].there
        BY <3>3 DEF RowOf
      <3>5. job[r].set.parent \in Key =>
               job[r].set.parent \in txn[r].keyed \/ rows[k].parent = job[r].set.parent
        BY <3>1 DEF Updating
      <3> QED
        BY <1>3, <1>6, <3>1, <3>3, <3>4, <3>5
    <2>3. CASE job[r].op = "create"
      <3>1. Creating("commit", job[r], txn[r])
        BY <2>3, CommitFacts
      <3>2. x \in txn[r].wrote /\ x # k
        BY <1>6, <3>1 DEF Creating
      <3>3. rows'[x] = [rows[x] EXCEPT !.flag = TRUE]
        BY <1>1, <1>6, <2>3, <3>2 DEF Written
      <3>4. rows[x] \in RowOf(x)
        BY <3>2, Hers, RowFacts DEF Grounded, Locked, IInv
      <3>5. /\ rows'[x].there = rows[x].there /\ rows'[x].name = rows[x].name
            /\ rows'[x].parent = rows[x].parent
        BY <3>3, <3>4 DEF RowOf
      <3> QED
        BY <1>2, <1>6, <3>2, <3>5
    <2> QED
      BY <2>1, <2>2, <2>3, CommitFacts
  <1> QED
    BY <1>4, <1>5, <1>6

\* A list of entries, cut to the newest, is a list of entries.
LEMMA NewestFacts ==
  ASSUME NEW s \in Seq(Entry)
  PROVE  Newest(s) \in Seq(Entry) /\ Len(Newest(s)) <= HISTORY_LIMIT
  BY KeysAssumption DEF Newest

\* The commit itself.
LEMMA CommitInv ==
  ASSUME IInv, NEW r \in Req, Commit(r)
  PROVE  IInv'
  <1>1. Proved!Consistent'
    BY CommitStep, StoreStep DEF IInv
  <1>2. TypeOK'
    <2>1. rows' = [x \in Key |-> Written(r, x)]
      BY CommitFacts
    <2>2. \A x \in Key : rows'[x] \in RowOf(x) \cup {Gone}
      BY <1>1, SameKey, SameRows DEF Proved!Consistent, Proved!RowsTyped
    <2>3. rows' \in [Key -> {Gone} \cup UNION {RowOf(x) : x \in Key}]
      BY <2>1, <2>2
    <2>4. log' \in Seq(Entry) /\ Len(log') <= HISTORY_LIMIT
      <3>1. [type |-> job[r].op, key |-> job[r].key] \in Entry
        BY CommitFacts DEF Entry
      <3>2. <<[type |-> job[r].op, key |-> job[r].key]>> \o log \in Seq(Entry)
        BY <3>1 DEF IInv, TypeOK
      <3> QED
        BY <3>2, NewestFacts, CommitFacts
    <2>5. pc' \in [Req -> Pc] /\ job' \in [Req -> Job] /\ txn' \in [Req -> Txn]
      BY DEF IInv, TypeOK, Commit, Pc, NoJob, Job, NoChange, NoTxn, Txn
    <2> QED
      BY <2>2, <2>3, <2>4, <2>5 DEF TypeOK
  <1>3. /\ pc'[r] = "idle" /\ job'[r] = NoJob /\ txn'[r] = NoTxn
        /\ \A q \in Req \ {r} : pc'[q] = pc[q] /\ job'[q] = job[q] /\ txn'[q] = txn[q]
    BY DEF IInv, TypeOK, Commit
  <1>4. ASSUME NEW q \in Req PROVE Fine(pc[q], job[q], txn[q])'
    <2>1. CASE q = r
      BY <1>3, <2>1 DEF Fine, Assigned, Holding, Grounded, Claimed, Locked, NoTxn
    <2>2. CASE q # r
      <3>1. pc'[q] = pc[q] /\ job'[q] = job[q] /\ txn'[q] = txn[q]
        BY <1>3, <2>2
      <3>2. Apart(pc[q], job[q], txn[q], pc[r], job[r], txn[r])
        BY <2>2, Hers
      <3>3. /\ Assigned(pc[q], job[q]) /\ Holding(pc[q], job[q], txn[q])
            /\ Grounded(pc[q], job[q], txn[q])
            /\ pc[q] \in Pc /\ job[q] \in Job /\ txn[q] \in Txn /\ txn[r] \in Txn
        BY Hers
      <3>4. \A x \in Locked(txn[q]) : x \in Key /\ rows[x].there /\ rows'[x].there
        <4>1. ASSUME NEW x \in Locked(txn[q]) PROVE x \in Key /\ rows[x].there /\ rows'[x].there
          <5>1. x \in Key /\ rows[x].there /\ x \notin txn[r].excl
            BY <3>2, <3>3 DEF Locked, Txn, Apart, Grounded
          <5> QED
            BY <5>1, CommitEffect
        <4> QED
          BY <4>1
      <3>5. \A x \in txn[q].excl \cup txn[q].wrote : rows'[x] = rows[x]
        <4>1. ASSUME NEW x \in txn[q].excl \cup txn[q].wrote PROVE rows'[x] = rows[x]
          <5>1. x \in Key /\ rows[x].there /\ x \notin txn[r].excl \cup txn[r].wrote
            BY <3>2, <3>4 DEF Locked, Apart
          <5>2. x # txn[r].made
            BY <5>1, Hers, KeysAssumption DEF Grounded
          <5> QED
            BY <5>1, <5>2, CommitEffect
        <4> QED
          BY <4>1
      <3>6. txn[q].made # None => ~rows'[txn[q].made].there
        <4>1. SUFFICES ASSUME txn[q].made # None PROVE ~rows'[txn[q].made].there
          OBVIOUS
        <4>2. txn[q].made \in Key /\ ~rows[txn[q].made].there /\ txn[q].made # txn[r].made
          BY <4>1, <3>2, <3>3 DEF Txn, Grounded, Apart
        <4>3. txn[q].made \notin txn[r].wrote \cup txn[r].excl
          BY <4>2, Hers DEF Grounded, Locked
        <4> QED
          BY <4>2, <4>3, CommitEffect
      <3>7. Assigned(pc[q], job[q])'
        BY <3>1, <3>3 DEF Assigned
      <3>8. Holding(pc[q], job[q], txn[q])'
        <4>1. CASE pc[q] \in {"unique", "reference", "commit"} /\ job[q].op = "update"
                     /\ Updating(pc[q], job[q], txn[q])
          <5>1. rows'[job[q].key] = rows[job[q].key]
            BY <4>1, <3>5 DEF Updating
          <5> QED
            BY <3>1, <4>1, <5>1 DEF Holding, Updating
        <4>2. CASE pc[q] \in {"restrict", "cascade", "commit"} /\ job[q].op = "delete"
                     /\ Deleting(pc[q], job[q], txn[q])
          <5> DEFINE k == job[q].key
          <5>0. Deleting(pc[q], job[q], txn[q])
            BY <4>2
          <5>1. k \in txn[q].excl /\ k \in Key
            BY <5>0, <3>4 DEF Deleting, Locked
          <5>2. \A x \in Key : rows'[x].there /\ rows'[x].parent = k => rows[x].there /\ rows[x].parent = k
            <6>1. ASSUME NEW x \in Key, rows'[x].there, rows'[x].parent = k
                  PROVE  rows[x].there /\ rows[x].parent = k
              <7>1. k \notin txn[r].keyed
                BY <3>2, <5>1 DEF Apart, Locked
              <7>2. rows[x].parent = k
                BY <5>1, <6>1, <7>1, CommitEffect
              <7> QED
                BY <5>1, <7>2, RowFacts, KeysAssumption DEF IInv
            <6> QED
              BY <6>1
          <5>3. Referring(k)' \subseteq Referring(k)
            BY <3>1, <5>2 DEF Referring
          <5>4. Deleting(pc[q], job[q], txn[q])'
            BY <3>1, <3>5, <5>0, <5>3 DEF Deleting
          <5> QED
            BY <3>1, <4>2, <5>4 DEF Holding
        <4>3. CASE /\ txn[q] = NoTxn
                   /\ pc[q] \notin {"unique", "reference", "flag", "mark", "restrict", "cascade"}
                   /\ pc[q] = "commit" => job[q].op # "create" /\ job[q].set = NoChange
          BY <3>1, <4>3 DEF Holding
        <4>4. CASE /\ pc[q] \in {"unique", "reference", "flag", "mark", "commit"}
                   /\ job[q].op = "create" /\ Creating(pc[q], job[q], txn[q])
          BY <3>1, <4>4 DEF Holding, Creating
        <4> QED
          BY <3>3, <4>1, <4>2, <4>3, <4>4 DEF Holding
      <3>9. Grounded(pc[q], job[q], txn[q])'
        <4>1. ASSUME Claimed(pc[q], job[q]), NEW x \in Peers(job[q].key) \ {job[q].key},
                     rows'[x].there, rows'[x].name = job[q].set.name
              PROVE  FALSE
          <5>1. job[q].key \in Key /\ job[q].set.name \in Name
            BY <3>3, <4>1, JobFacts DEF Claimed
          <5>2. x \in Key
            BY <5>1 DEF Peers, Key
          <5>3. ~(rows[x].there /\ rows[x].name = job[q].set.name)
            BY <3>3, <4>1 DEF Grounded
          <5>4. /\ x = job[r].key /\ job[q].set.name = job[r].set.name
                /\ Claimed(pc[r], job[r])
            BY <4>1, <5>1, <5>2, <5>3, CommitEffect
          <5>5. Peers(job[q].key) = Peers(job[r].key)
            BY <4>1, <5>1, <5>2, <5>4, Tables
          <5> QED
            BY <3>2, <4>1, <5>4, <5>5 DEF Apart
        <4> QED
          BY <3>1, <3>4, <3>6, <4>1 DEF Grounded, Claimed, Locked
      <3> QED
        BY <3>7, <3>8, <3>9 DEF Fine
    <2> QED
      BY <2>1, <2>2
  <1>5. ASSUME NEW q \in Req, NEW s \in Req, q # s
        PROVE  Apart(pc[q], job[q], txn[q], pc[s], job[s], txn[s])'
    <2>1. Apart(pc'[q], job'[q], txn'[q], pc'[s], job'[s], txn'[s])
      <3>1. CASE q # r /\ s # r
        BY <1>3, <1>5, <3>1 DEF IInv
      <3>2. ~Claimed("idle", NoJob)
        BY DEF Claimed
      <3>3. \A z \in Req \ {r} : Apart(pc'[z], job'[z], txn'[z], pc'[r], job'[r], txn'[r])
        BY <1>3, <3>2, Hers, ApartIdle
      <3>4. CASE s = r
        BY <1>5, <3>3, <3>4
      <3>5. CASE q = r
        BY <1>5, <3>3, <3>5, ApartSymmetric
      <3> QED
        BY <3>1, <3>4, <3>5
    <2> QED
      BY <2>1 DEF Apart, Claimed, Locked
  <1> QED
    BY <1>1, <1>2, <1>4, <1>5 DEF IInv

-----------------------------------------------------------------------------
(* Theorems.                                                               *)

\* At the start nothing is there and nobody holds anything.
LEMMA InitInv == Init => IInv
  <1> SUFFICES ASSUME Init PROVE IInv
    OBVIOUS
  <1>1. TypeOK
    <2>1. rows \in [Key -> {Gone} \cup UNION {RowOf(k) : k \in Key}]
      BY DEF Init
    <2>2. log \in Seq(Entry) /\ Len(log) <= HISTORY_LIMIT
      BY KeysAssumption DEF Init
    <2>3. pc \in [Req -> Pc] /\ job \in [Req -> Job] /\ txn \in [Req -> Txn]
      BY DEF Init, Pc, NoJob, Job, NoChange, NoTxn, Txn
    <2> QED
      BY <2>1, <2>2, <2>3 DEF Init, TypeOK
  <1>2. Proved!Consistent
    <2>1. Proved!Init
      BY SameKey, SameRows DEF Init, Proved!Init
    <2> QED
      BY <2>1, SameKey, KeysAssumption, Proved!InitConsistent
  <1>3. ASSUME NEW r \in Req PROVE Fine(pc[r], job[r], txn[r])
    BY DEF Init, Fine, Assigned, Holding, Grounded, Claimed, Locked, NoTxn
  <1>4. ASSUME NEW r \in Req, NEW q \in Req
        PROVE  Apart(pc[r], job[r], txn[r], pc[q], job[q], txn[q])
    BY DEF Init, Apart, Claimed, Locked, NoTxn
  <1> QED
    BY <1>1, <1>2, <1>3, <1>4 DEF IInv

\* Every step keeps the invariant.
LEMMA NextInv == IInv /\ [Next]_vars => IInv'
  <1> SUFFICES ASSUME IInv, [Next]_vars PROVE IInv'
    OBVIOUS
  <1>1. ASSUME NEW r \in Req, CreateRead(r) \/ UpdateRead(r) \/ DeleteRead(r) PROVE IInv'
    BY <1>1, CreateReadInv, UpdateReadInv, DeleteReadInv
  <1>2. ASSUME NEW r \in Req, CheckName(r) \/ CheckParent(r) \/ CountProducts(r) PROVE IInv'
    BY <1>2, ChecksInv
  <1>3. ASSUME NEW r \in Req, Insert(r) \/ Update(r) \/ Unique(r) \/ Reference(r) PROVE IInv'
    BY <1>3, InsertInv, UpdateInv, UniqueInv, ReferenceInv
  <1>4. ASSUME NEW r \in Req, FlagRead(r) \/ FlagWrite(r) PROVE IInv'
    BY <1>4, FlagInv
  <1>5. ASSUME NEW r \in Req, Delete(r) \/ Restrict(r) \/ Cascade(r) PROVE IInv'
    BY <1>5, DeleteInv, RestrictInv, CascadeInv
  <1>6. ASSUME NEW r \in Req, Commit(r) PROVE IInv'
    BY <1>6, CommitInv
  <1>7. ASSUME NEW r \in Req, Abort(r) PROVE IInv'
    BY <1>7, RollbackInv DEF Abort
  <1>8. CASE UNCHANGED vars
    <2>1. CASE Req = {}
      <3>1. TypeOK'
        BY <1>8 DEF IInv, TypeOK, vars
      <3>2. Proved!Consistent'
        BY <1>8, StoreStep DEF IInv, vars
      <3> QED
        BY <2>1, <3>1, <3>2 DEF IInv
    <2>2. ASSUME NEW r \in Req PROVE IInv'
      <3>1. /\ rows' = rows /\ log' = log /\ pc' = [pc EXCEPT ![r] = pc[r]]
            /\ job' = [job EXCEPT ![r] = job[r]] /\ txn' = [txn EXCEPT ![r] = txn[r]]
        BY <1>8 DEF IInv, TypeOK, vars
      <3>2. Fine(pc[r], job[r], txn[r])
        BY DEF IInv
      <3> QED
        BY <3>1, <3>2, Hers, Moved
    <2> QED
      BY <2>1, <2>2
  <1> QED
    BY <1>1, <1>2, <1>3, <1>4, <1>5, <1>6, <1>7, <1>8 DEF Next

\* The lock discipline holds in every reachable state.
THEOREM SpecIInv == Spec => []IInv
  BY InitInv, NextInv, PTL DEF Spec

\* The rows, the log and what the requests hold have their types.
THEOREM TypeCorrect == Spec => []TypeOK
  <1>1. IInv => TypeOK
    BY DEF IInv
  <1> QED
    BY <1>1, SpecIInv, PTL

\* Every product is in a category that is there, every variant in a family that is
\* there, and names are unique, whatever requests run beside each other.
LEMMA RowsKept == IInv => CategoryKept /\ FamilyKept /\ NamesUnique
  <1> SUFFICES ASSUME IInv PROVE CategoryKept /\ FamilyKept /\ NamesUnique
    OBVIOUS
  <1>1. ASSUME NEW k \in Product \cup Variant, rows[k].there PROVE rows[rows[k].parent].there
    <2>1. k \in Key /\ rows[k] \in RowOf(k)
      BY <1>1, RowFacts DEF IInv, Key
    <2>2. rows[k].parent # None
      BY <2>1, KeysAssumption DEF RowOf, Parents, Key
    <2> QED
      BY <2>1, <2>2, SameKey DEF IInv, Proved!Consistent, Proved!ParentsKept
  <1>2. NamesUnique
    BY SameKey, SameRows DEF IInv, Proved!Consistent, Proved!NamesDiffer, NamesUnique
  <1> QED
    BY <1>1, <1>2 DEF CategoryKept, FamilyKept

\* delete_category never leaves a product without its category.
THEOREM NoProductWithoutCategory == Spec => []CategoryKept
  BY RowsKept, SpecIInv, PTL

\* delete_product never leaves a variant without its family.
THEOREM NoVariantWithoutFamily == Spec => []FamilyKept
  BY RowsKept, SpecIInv, PTL

\* No race between two checks gives two rows one slug, code or sku.
THEOREM NoNameTwice == Spec => []NamesUnique
  BY RowsKept, SpecIInv, PTL

-----------------------------------------------------------------------------
(* Refinement.                                                             *)

\* Store, in whose terms the property is stated, and Proved, in whose terms the
\* lemmas are, are two instances of one module.
LEMMA SameStore ==
  /\ Proved!Init => Store!Init
  /\ Proved!Next => Store!Next
  <1>1. Store!Key = Proved!Key
    BY DEF Store!Key, Proved!Key
  <1>2. /\ \A k : Store!Names(k) = Proved!Names(k)
        /\ \A k : Store!Parents(k) = Proved!Parents(k)
        /\ \A k : Store!Flags(k) = Proved!Flags(k)
    BY DEF Store!Names, Proved!Names, Store!Parents, Proved!Parents, Store!Flags, Proved!Flags
  <1>3. \A k : Store!RowOf(k) = Proved!RowOf(k)
    BY <1>2 DEF Store!RowOf, Proved!RowOf
  <1>4. \A k : Store!Peers(k) = Proved!Peers(k)
    BY DEF Store!Peers, Proved!Peers
  <1>5. Store!Gone = Proved!Gone
    BY DEF Store!Gone, Proved!Gone
  <1>6. \A s : Store!Newest(s) = Proved!Newest(s)
    BY DEF Store!Newest, Proved!Newest
  <1>7. \A k, type : Proved!Recorded(type, k) => Store!Recorded(type, k)
    BY <1>6 DEF Proved!Recorded, Store!Recorded
  <1>8. \A k, row : Proved!Fits(k, row) => Store!Fits(k, row)
    BY <1>3, <1>4 DEF Proved!Fits, Store!Fits, Proved!NameFree, Store!NameFree
  <1>9. ASSUME NEW k \in Proved!Key, Proved!Create(k) PROVE Store!Create(k)
    BY <1>1, <1>3, <1>7, <1>8, <1>9 DEF Proved!Create, Store!Create
  <1>10. ASSUME NEW k \in Proved!Key, Proved!Update(k) PROVE Store!Update(k)
    BY <1>1, <1>3, <1>7, <1>8, <1>10 DEF Proved!Update, Store!Update
  <1>11. ASSUME NEW k \in Proved!Key, Proved!Delete(k) PROVE Store!Delete(k)
    BY <1>1, <1>5, <1>7, <1>11 DEF Proved!Delete, Store!Delete
  <1>12. ASSUME NEW k \in Proved!Key, Proved!Vain(k) PROVE Store!Vain(k)
    BY <1>7, <1>12 DEF Proved!Vain, Store!Vain
  <1>13. Proved!Next => Store!Next
    BY <1>1, <1>9, <1>10, <1>11, <1>12 DEF Proved!Next, Store!Next
  <1>14. Proved!Init => Store!Init
    BY <1>1, <1>5 DEF Proved!Init, Store!Init
  <1> QED
    BY <1>13, <1>14

\* Whatever does not commit leaves the rows and the log alone.
LEMMA OnlyCommitWrites ==
  ASSUME IInv, NEW r \in Req,
         \/ CreateRead(r) \/ UpdateRead(r) \/ DeleteRead(r)
         \/ CheckName(r) \/ CheckParent(r) \/ CountProducts(r)
         \/ Insert(r) \/ Update(r) \/ Unique(r) \/ Reference(r)
         \/ FlagRead(r) \/ FlagWrite(r)
         \/ Delete(r) \/ Restrict(r) \/ Cascade(r) \/ Abort(r)
  PROVE  UNCHANGED <<rows, log>>
  BY DEF CreateRead, UpdateRead, DeleteRead, CheckName, CheckParent, CountProducts, Insert,
         Update, Unique, Reference, FlagRead, FlagWrite, Delete, Restrict, Cascade, Abort,
         Begin, Step, Rollback

\* Catalogue implements CatalogueStore: a commit is one of its steps, and every
\* other step of a request changes nothing that a client could see.
THEOREM ImplementsStore == Spec => StoreSpec
  <1>1. Init => Store!Init
    <2>1. Init => Proved!Init
      BY SameKey, SameRows DEF Init, Proved!Init
    <2> QED
      BY <2>1, SameStore
  <1>2. IInv /\ [Next]_vars => [Store!Next]_<<rows, log>>
    <2> SUFFICES ASSUME IInv, [Next]_vars PROVE Store!Next \/ UNCHANGED <<rows, log>>
      OBVIOUS
    <2>1. ASSUME NEW r \in Req, Commit(r) PROVE Store!Next
      BY <2>1, CommitStep, SameStore
    <2>2. CASE UNCHANGED vars
      BY <2>2 DEF vars
    <2> QED
      BY <2>1, <2>2, OnlyCommitWrites DEF Next
  <1>3. IInv /\ [Next]_vars => [Store!Next]_Store!store
    BY <1>2 DEF Store!store
  <1> QED
    BY <1>1, <1>3, SpecIInv, PTL DEF Spec, StoreSpec, Store!Spec

-----------------------------------------------------------------------------
(* Deadlocks.                                                              *)

\* What a request waits for at each of its steps.
LEMMA Waiting ==
  ASSUME IInv, NEW r \in Req, NEW q \in WaitsFor(r)
  PROVE  /\ q \in Req \ {r}
         /\ pc[r] \in {"write", "unique", "reference", "mark", "restrict", "cascade"}
         /\ pc[r] = "write" => job[r].key \in Locked(txn[q]) \/ txn[q].made = job[r].key
         /\ pc[r] = "unique" => job[r].set.name \in Name \cap NamesHeld(q, Peers(job[r].key))
         /\ pc[r] = "reference" => Refers(r) /\ job[r].set.parent \in txn[q].excl
         /\ pc[r] = "mark" => job[r].set.parent \in txn[q].excl \cup txn[q].wrote
  <1>1. q \in Req \ {r} /\ pc[r] \in Pc
    BY Hers DEF WaitsFor
  <1>2. CASE \E mode \in {"share", "update", "delete"} : Wanted(r, mode) \cap Held(q, mode) # {}
    <2>1. PICK mode \in {"share", "update", "delete"} : Wanted(r, mode) \cap Held(q, mode) # {}
      BY <1>2
    <2>2. PICK k : k \in Wanted(r, mode) /\ k \in Held(q, mode)
      BY <2>1
    <2>3. /\ k \in Locked(txn[q])
          /\ mode = "share" => k \in txn[q].excl
          /\ mode = "update" => k \in txn[q].excl \cup txn[q].wrote
      BY <2>2 DEF Held, Locked
    <2>4. pc[r] \in {"write", "reference", "mark", "restrict", "cascade"}
      BY <2>2 DEF Wanted
    <2>5. CASE pc[r] = "write"
      <3>1. job[r].op \in {"create", "update", "delete"}
        BY <2>5, Hers, JobFacts
      <3>2. k = job[r].key
        BY <2>2, <2>5, <3>1 DEF Wanted
      <3> QED
        BY <1>1, <2>3, <2>5, <3>2
    <2>6. CASE pc[r] = "reference"
      <3>1. mode = "share" /\ Refers(r) /\ k = job[r].set.parent
        BY <2>2, <2>6 DEF Wanted
      <3> QED
        BY <1>1, <2>3, <2>6, <3>1
    <2>7. CASE pc[r] = "mark"
      <3>1. mode = "update" /\ k = job[r].set.parent
        BY <2>2, <2>7 DEF Wanted
      <3> QED
        BY <1>1, <2>3, <2>7, <3>1
    <2>8. CASE pc[r] \in {"restrict", "cascade"}
      BY <1>1, <2>8
    <2> QED
      BY <2>4, <2>5, <2>6, <2>7, <2>8
  <1>3. CASE pc[r] = "write" /\ job[r].op = "create" /\ txn[q].made = job[r].key
    BY <1>1, <1>3
  <1>4. CASE pc[r] = "unique" /\ job[r].set.name \in Name \cap NamesHeld(q, Peers(job[r].key))
    BY <1>1, <1>4
  <1> QED
    BY <1>2, <1>3, <1>4 DEF WaitsFor

\* What a request that may be part of a circle holds.
LEMMA HeldByPc ==
  ASSUME IInv, NEW q \in Req
  PROVE  /\ pc[q] = "write" => txn[q].made = None /\ Locked(txn[q]) = {}
                               /\ txn[q].excl = {} /\ txn[q].wrote = {}
         /\ pc[q] = "mark" =>
               /\ job[q].op = "create" /\ txn[q].excl = {} /\ txn[q].wrote = {}
               /\ txn[q].made = job[q].key
         /\ pc[q] \in {"unique", "reference"} =>
               \/ /\ job[q].op = "create" /\ txn[q].excl = {} /\ txn[q].wrote = {}
                  /\ txn[q].made = job[q].key
               \/ /\ job[q].op = "update" /\ txn[q].made = None
                  /\ txn[q].excl \subseteq {job[q].key}
                  /\ txn[q].excl = {} => /\ txn[q].wrote = {job[q].key}
                                         /\ job[q].set.name \in {Keep, rows[job[q].key].name}
  <1>1. pc[q] = "write" => txn[q] = NoTxn
    BY Hers DEF Holding
  <1>2. pc[q] = "write" => txn[q].made = None /\ Locked(txn[q]) = {}
                           /\ txn[q].excl = {} /\ txn[q].wrote = {}
    BY <1>1 DEF NoTxn, Locked
  <1>3. /\ pc[q] = "mark" =>
               /\ job[q].op = "create" /\ txn[q].excl = {} /\ txn[q].wrote = {}
               /\ txn[q].made = job[q].key
        /\ pc[q] \in {"unique", "reference"} =>
               \/ /\ job[q].op = "create" /\ txn[q].excl = {} /\ txn[q].wrote = {}
                  /\ txn[q].made = job[q].key
               \/ /\ job[q].op = "update" /\ txn[q].made = None
                  /\ txn[q].excl \subseteq {job[q].key}
                  /\ txn[q].excl = {} => /\ txn[q].wrote = {job[q].key}
                                         /\ job[q].set.name \in {Keep, rows[job[q].key].name}
    BY Hers DEF Holding, Creating, Updating
  <1> QED
    BY <1>2, <1>3

\* The order in which creates and plain updates take their locks admits no circle.
LEMMA NoPlainCircle ==
  ASSUME IInv, NEW S \in SUBSET Req,
         \A r \in S : WaitsFor(r) \cap S # {},
         \A r \in S : pc[r] \notin {"restrict", "cascade"},
         \A r \in S : pc[r] = "unique" => txn[r].excl = {}
  PROVE  S = {}
  <1>1. ASSUME NEW r \in S
        PROVE  /\ r \in Req /\ pc[r] \in {"write", "unique", "reference", "mark"}
               /\ \E q \in S : q \in WaitsFor(r) /\ q \in Req \ {r}
    BY Waiting
  <1>2. \A r \in S : pc[r] = "reference" =>
           /\ job[r].set.parent \in Key
           /\ \E q \in S : pc[q] = "reference" /\ job[q].key = job[r].set.parent
    <2>1. SUFFICES ASSUME NEW r \in S, pc[r] = "reference"
                   PROVE  /\ job[r].set.parent \in Key
                          /\ \E q \in S : pc[q] = "reference" /\ job[q].key = job[r].set.parent
      OBVIOUS
    <2>2. PICK q \in S : q \in WaitsFor(r)
      BY <1>1
    <2>3. Refers(r) /\ job[r].set.parent \in txn[q].excl
      BY <1>1, <2>1, <2>2, Waiting
    <2>4. pc[q] = "reference" /\ txn[q].excl \subseteq {job[q].key}
      <3>1. q \in Req /\ pc[q] \in {"write", "unique", "reference", "mark"} /\ txn[q].excl # {}
        BY <1>1, <2>3
      <3>2. pc[q] = "reference"
        BY <3>1, HeldByPc
      <3> QED
        BY <3>1, <3>2, HeldByPc
    <2> QED
      BY <2>3, <2>4 DEF Refers
  <1>3. \A r \in S : pc[r] # "reference"
    <2>1. \A r \in S : pc[r] = "reference" =>
             /\ job[r].key \in Key /\ job[r].set.parent \in Parents(job[r].key) \cup {Keep}
      BY <1>1, Hers, JobFacts DEF Assigned
    <2>2. \A r \in S : pc[r] = "reference" => job[r].key \in Product \cup Variant
      BY <1>2, <2>1, KeysAssumption, KeepAssumption DEF Parents
    <2>3. \A r \in S : pc[r] = "reference" => job[r].key \in Variant
      <3>1. ASSUME NEW r \in S, pc[r] = "reference", job[r].key \in Product PROVE FALSE
        <4>1. job[r].set.parent \in Category
          BY <1>2, <2>1, <3>1, KeepAssumption DEF Parents
        <4> QED
          BY <1>2, <2>2, <3>1, <4>1, KeysAssumption
      <3> QED
        BY <2>2, <3>1
    <2>4. ASSUME NEW r \in S, pc[r] = "reference" PROVE FALSE
      <3>1. job[r].set.parent \in Product
        BY <1>2, <2>1, <2>3, <2>4, KeysAssumption, KeepAssumption DEF Parents
      <3> QED
        BY <1>2, <2>3, <2>4, <3>1, KeysAssumption
    <2> QED
      BY <2>4
  <1>4. \A r \in S : txn[r].excl = {} /\ (Claimed(pc[r], job[r]) => pc[r] = "mark")
    <2>1. ASSUME NEW r \in S
          PROVE  txn[r].excl = {} /\ (Claimed(pc[r], job[r]) => pc[r] = "mark")
      <3>1. r \in Req /\ pc[r] \in {"write", "unique", "mark"}
        BY <1>1, <1>3
      <3>2. txn[r].excl = {}
        BY <3>1, HeldByPc
      <3> QED
        BY <3>1, <3>2 DEF Claimed
    <2> QED
      BY <2>1
  <1>5. ASSUME NEW r \in S, pc[r] = "unique"
        PROVE  \E q \in S : /\ q \in Req /\ pc[q] = "mark"
                            /\ job[q].set.name = job[r].set.name /\ job[r].set.name \in Name
                            /\ job[q].key \in Peers(job[r].key)
    <2>1. PICK q \in S : q \in WaitsFor(r)
      BY <1>1
    <2>2. job[r].set.name \in Name \cap NamesHeld(q, Peers(job[r].key))
      BY <1>1, <1>5, <2>1, Waiting
    <2>3. /\ Claimed(pc[q], job[q]) /\ job[q].set.name = job[r].set.name
          /\ job[q].key \in Peers(job[r].key)
      BY <1>4, <2>2 DEF NamesHeld, Claimed
    <2> QED
      BY <1>1, <1>4, <2>2, <2>3
  <1>6. \A r \in S : pc[r] = "unique" => job[r].op = "create"
    <2>1. SUFFICES ASSUME NEW r \in S, pc[r] = "unique", job[r].op # "create" PROVE FALSE
      OBVIOUS
    <2> DEFINE k == job[r].key
    <2>2. k \in Key /\ k \in txn[r].wrote /\ job[r].set.name \in {Keep, rows[k].name}
      <3>1. r \in Req /\ txn[r].excl = {} /\ k \in Key
        BY <1>1, <1>4, <2>1, Hers, JobFacts
      <3> QED
        BY <2>1, <3>1, HeldByPc
    <2>3. rows[k].there
      BY <1>1, <2>2, Hers DEF Grounded, Locked
    <2>4. PICK q \in S : /\ q \in Req /\ pc[q] = "mark"
                         /\ job[q].set.name = job[r].set.name /\ job[r].set.name \in Name
                         /\ job[q].key \in Peers(k)
      BY <1>5, <2>1
    <2>5. rows[k].name = job[q].set.name
      BY <2>2, <2>4, KeepAssumption
    <2>6. job[q].key \in Key /\ k \in Peers(job[q].key)
      BY <2>2, <2>4, Hers, JobFacts, Tables
    <2>7. k = job[q].key
      BY <2>3, <2>4, <2>5, <2>6, Hers DEF Grounded, Claimed
    <2> QED
      BY <2>3, <2>4, <2>6, <2>7, HeldByPc, Hers, KeysAssumption DEF Grounded
  <1>7. ASSUME NEW r \in S PROVE txn[r].wrote = {} /\ txn[r].excl = {}
    <2>1. r \in Req /\ pc[r] \in {"write", "unique", "mark"} /\ txn[r].excl = {}
      BY <1>1, <1>3, <1>4
    <2> QED
      BY <1>6, <2>1, HeldByPc
  <1>8. ASSUME NEW r \in S PROVE pc[r] = "write"
    <2>1. \A q \in S : pc[q] # "mark"
      <3>1. ASSUME NEW z \in S, pc[z] = "mark" PROVE FALSE
        <4>1. PICK q \in S : q \in WaitsFor(z)
          BY <1>1
        <4>2. txn[q].excl \cup txn[q].wrote = {} /\ z \in Req
          BY <1>1, <1>7
        <4> QED
          BY <3>1, <4>1, <4>2, Waiting
      <3> QED
        BY <3>1
    <2>2. pc[r] # "unique"
      BY <1>5, <2>1
    <2> QED
      BY <1>1, <1>3, <2>1, <2>2
  <1>9. ASSUME NEW r \in S PROVE FALSE
    <2>1. PICK q \in S : q \in WaitsFor(r)
      BY <1>1
    <2>2. r \in Req /\ q \in Req /\ pc[r] = "write" /\ pc[q] = "write"
      BY <1>1, <1>8
    <2>3. txn[q].made = None /\ Locked(txn[q]) = {}
      BY <2>2, HeldByPc
    <2>4. job[r].key \in Key
      BY <2>2, Hers, JobFacts
    <2> QED
      BY <2>1, <2>2, <2>3, <2>4, Waiting, KeysAssumption
  <1> QED
    BY <1>9

\* A circle of writers that wait for each other has a deletion or a rename in it,
\* for any number of requests.
THEOREM DeadlocksExplained == Spec => []CircleNeedsDeleteOrRename
  <1>1. IInv => CircleNeedsDeleteOrRename
    <2> SUFFICES ASSUME IInv, NEW S \in (SUBSET Req) \ {{}},
                        \A r \in S : WaitsFor(r) \cap S # {}
                 PROVE  \E r \in S : \/ pc[r] \in {"restrict", "cascade"}
                                     \/ pc[r] = "unique" /\ txn[r].excl # {}
      BY DEF CircleNeedsDeleteOrRename
    <2> QED
      BY NoPlainCircle
  <1> QED
    BY <1>1, SpecIInv, PTL
=============================================================================
