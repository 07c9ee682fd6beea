-------------------------------- MODULE Lists --------------------------------
(***************************************************************************)
(* Lists and paging (BaseRepository.list_paginated, ListParams, PageMeta): *)
(* a client walks the pages of a list until has_next is false, while the   *)
(* table is written.  Every page is a request of two statements, a count   *)
(* and a page, and READ COMMITTED gives each statement a snapshot of its   *)
(* own.  Nothing but LIMIT and OFFSET ties one page to the next.           *)
(***************************************************************************)
EXTENDS Naturals, FiniteSets

CONSTANTS
    Size,        \* bound: the rows there ever are
    Value,       \* of a column that clients may sort by and that is not unique
    Asked,       \* bound: what clients ask for
    MaxWrites,   \* bound: commits during a walk
    None

ASSUME SizesAssumption ==
    /\ Size \in Nat /\ MaxWrites \in Nat
    /\ Value \subseteq Nat /\ Value # {}
    /\ None \notin Value /\ None \notin BOOLEAN

VARIABLES
    rows,      \* the rows of the table
    params,    \* what the client asks for on every page of the walk
    page,      \* the page it asks for
    pc,        \* what comes next: the count, the page, or nothing
    total,     \* the request's count
    shown,     \* how often the walk has shown each row
    writes     \* history: what was committed since the walk began

vars == <<rows, params, page, pc, total, shown, writes>>

-----------------------------------------------------------------------------
(* The table.  created_at is now(), the start of the transaction that      *)
(* inserts the row, and rows are named by it: row i began before row       *)
(* i + 1, but may be committed after it.                                   *)

Id == 1 .. Size

\* sort_by None is the default, created_at with the newest first.
Params == [sort_by : {None, "field"}, order : {"asc", "desc"}, page_size : Nat \ {0}]

ASSUME AskedAssumption == Asked \subseteq Params

\* pending: not committed, or never.  listed: it matches the filters and the
\* search of the walk.  field: what the walk sorts by, unless by created_at.
Row == [state : {"live"}, listed : BOOLEAN,
        field : IF params.sort_by = None THEN {None} ELSE Value]

NoRow(state) == [state |-> state, listed |-> TRUE, field |-> None]

Rows == Row \cup {NoRow("pending"), NoRow("deleted")}

\* n: the commits.  gone: rows that left the list or their place in it.  come:
\* rows that entered it, or another place.  late: those that came after the
\* request's count.  moved: the rows of gone and come.  tied: two rows compared
\* equal in the sort of some page.
Writes == [n : 0 .. MaxWrites, gone : 0 .. MaxWrites, come : 0 .. MaxWrites,
           late : 0 .. MaxWrites, moved : SUBSET Id, tied : BOOLEAN]

\* The table may have any history when a walk begins.
Init ==
    /\ params \in Asked
    /\ rows \in [Id -> Rows]
    /\ page = 1 /\ pc = "count" /\ total = 0
    /\ shown = [i \in Id |-> 0]
    /\ writes = [n |-> 0, gone |-> 0, come |-> 0, late |-> 0, moved |-> {}, tied |-> FALSE]

-----------------------------------------------------------------------------
(* The two statements.                                                     *)

\* _base_query, _apply_filters and _apply_search.
Matching == {i \in Id : rows[i].state = "live" /\ rows[i].listed}

\* _apply_sort.
Column(i) == IF params.sort_by = None THEN i ELSE rows[i].field

Precedes(i, j) ==
    IF params.sort_by = None \/ params.order = "desc" THEN Column(i) > Column(j)
    ELSE Column(i) < Column(j)

\* The first n rows, whichever way the database orders those that compare equal.
First(n) ==
    {S \in SUBSET Matching :
        /\ Cardinality(S) = IF n < Cardinality(Matching) THEN n ELSE Cardinality(Matching)
        /\ \A i \in S, j \in Matching \ S : ~Precedes(j, i)}

\* Mistake: pages are counted from zero.
OffsetFromZero == page * params.page_size

Offset == (page - 1) * params.page_size

\* The rows after the first `from` up to the one numbered `to`.
Slices(from, to) ==
    UNION {{S \ T : T \in {T \in First(from) : T \subseteq S}} : S \in First(to)}

\* Mistake: LIMIT asks for one row more, to see whether there is a next page.
PagesAndOne == Slices(Offset, Offset + params.page_size + 1)

Pages == Slices(Offset, Offset + params.page_size)

\* Mistake: the last page is lost unless it is full.
TotalPagesFloor(n) ==
    IF n < params.page_size THEN 1 ELSE n \div params.page_size

\* PageMeta.build: -(-n // page_size), and one page if there is nothing.
TotalPages(n) ==
    IF n = 0 THEN 1 ELSE (n + params.page_size - 1) \div params.page_size

\* Mistake: one page too many.
HasNextInclusive == page <= TotalPages(total)

HasNext == page < TotalPages(total)

Count ==
    /\ pc = "count"
    /\ total' = Cardinality(Matching)
    /\ pc' = "page"
    /\ writes' = [writes EXCEPT !.late = 0]
    /\ UNCHANGED <<rows, params, page, shown>>

Page ==
    /\ pc = "page"
    /\ \E S \in Pages : shown' = [i \in Id |-> IF i \in S THEN shown[i] + 1 ELSE shown[i]]
    /\ IF HasNext THEN pc' = "count" /\ page' = page + 1
                  ELSE pc' = "done" /\ page' = page
    /\ writes' = [writes EXCEPT !.tied = \/ @
                     \/ \E i, j \in Matching : i # j /\ Column(i) = Column(j)]
    /\ UNCHANGED <<rows, params, total>>

-----------------------------------------------------------------------------
(* The writers: what their commits do to the table.                        *)

\* Row i is written, and with that may leave the list, enter it, or change its
\* place in it.
Write(i, row) ==
    /\ pc # "done" /\ writes.n < MaxWrites
    /\ rows' = [rows EXCEPT ![i] = row]
    /\ UNCHANGED <<params, page, pc, total, shown>>
    /\ LET moves == i \in Matching /\ i \in Matching' /\ Column(i)' # Column(i)
           left  == moves \/ i \in Matching \ Matching'
           came  == moves \/ i \in Matching' \ Matching IN
       writes' = [writes EXCEPT !.n = @ + 1,
                                !.gone = IF left THEN @ + 1 ELSE @,
                                !.come = IF came THEN @ + 1 ELSE @,
                                !.late = IF came THEN @ + 1 ELSE @,
                                !.moved = IF left \/ came THEN @ \cup {i} ELSE @]

\* create, with the time its transaction began.
Insert(i) == rows[i].state = "pending" /\ \E row \in Row : Write(i, row)

\* update: it may move the row in the list or in or out of it, but no update
\* touches created_at.
Update(i) == rows[i].state = "live" /\ \E row \in Row \ {rows[i]} : Write(i, row)

\* soft_delete.
Delete(i) == rows[i].state = "live" /\ Write(i, NoRow("deleted"))

Next ==
    \/ Count \/ Page
    \/ \E i \in Id : Insert(i) \/ Update(i) \/ Delete(i)

Spec == Init /\ [][Next]_vars

-----------------------------------------------------------------------------
(* What the walk has shown when it ends.                                   *)

TypeOK ==
    /\ params \in Asked
    /\ rows \in [Id -> Rows]
    /\ page \in 1 .. TotalPages(Size)
    /\ pc \in {"count", "page", "done"}
    /\ total \in 0 .. Size
    /\ shown \in [Id -> 0 .. page]
    /\ writes \in Writes

\* The rows that were in the list and in their place all along.
Steady == Matching \ writes.moved

Missed == {i \in Steady : shown[i] = 0}

\* Every time after the first that one of them was shown.
Repeats == {p \in Steady \X (2 .. page) : p[2] <= shown[p[1]]}

\* A walk misses no more of the rows that stayed in place than rows left the
\* list meanwhile, or entered it between the last count and its page: with a
\* column that orders the rows, and created_at does, nothing else loses a row.
MissedOnlyByWrites ==
    (pc = "done" /\ ~writes.tied) => Cardinality(Missed) <= writes.gone + writes.late

\* It shows rows twice no more often than rows entered the list meanwhile.
RepeatedOnlyByWrites ==
    (pc = "done" /\ ~writes.tied) => Cardinality(Repeats) <= writes.come

\* Over a table that nobody writes the pages hold as many rows as were counted,
\* also when rows compare equal and the database orders them anew for each page:
\* a row that is missed has its place taken by one that is shown twice.
AsManyAsCounted ==
    (pc = "done" /\ writes.n = 0) =>
        /\ total = Cardinality(Matching)
        /\ Cardinality(Repeats) = Cardinality(Missed)
=============================================================================
