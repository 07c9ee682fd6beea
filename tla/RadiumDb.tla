------------------------------ MODULE RadiumDb ------------------------------
(***************************************************************************)
(* The three tables behind authentication and the requests that work on    *)
(* them, one SQLAlchemy session and one PostgreSQL transaction (READ       *)
(* COMMITTED) per request.  An endpoint is a sequence of steps; a step is  *)
(* what happens between two awaits that reach the database.  Uncommitted   *)
(* work lives in txn[r] and is invisible to the other requests: they only  *)
(* meet it as row locks.                                                   *)
(***************************************************************************)
EXTENDS Naturals, FiniteSets

CONSTANTS
    User,      \* primary keys of the users table
    Email,
    Password,  \* what a bcrypt hash was computed from
    Given,     \* bound: the passwords that a new account starts with
    Jti,       \* names of refresh tokens, also the order of their rows on disk
    Reset,     \* password reset links, likewise
    Req,       \* request slots: how many requests may be in flight at once
    Ops,       \* the endpoints that clients call, and the seed script
    Aging,     \* bound: the tokens and links that may expire
    None,
    Table0     \* the users table the service starts with

VARIABLES
    users,     \* committed rows of users
    tokens,    \* committed rows of refresh_tokens
    resets,    \* committed rows of password_reset_tokens
    expired,   \* tokens and links whose expires_at has passed
    pc,        \* the next step of each request
    job,       \* what a request holds in Python: arguments and loaded values
    txn        \* what its transaction holds in the database

tables == <<users, tokens, resets, expired>>
vars == <<users, tokens, resets, expired, pc, job, txn>>

-----------------------------------------------------------------------------
(* Rows.                                                                   *)

\* "staff" is editor and viewer: no endpoint modelled here tells them apart.
Role == {"admin", "staff"}

UserRow == [state : {"absent", "live", "deleted"}, email : Email \cup {None},
            pw : Password \cup {None}, role : Role, active : BOOLEAN]

NoUser == [state |-> "absent", email |-> None, pw |-> None,
           role |-> "staff", active |-> FALSE]

\* root, parent and pw are history: the login the token descends from, the
\* token it replaced, and the password that login was made with.
TokenRow == [state : {"absent", "live", "revoked"}, user : User \cup {None},
             replaced : Jti \cup {None}, root : Jti \cup {None},
             parent : Jti \cup {None}, pw : Password \cup {None}]

NoToken == [state |-> "absent", user |-> None, replaced |-> None,
            root |-> None, parent |-> None, pw |-> None]

\* mailed: the user has the link.  uses is history: passwords set with it (at
\* most MaxUses are counted).
MaxUses == 2
ResetRow == [state : {"absent", "fresh", "used"}, user : User \cup {None},
             mailed : BOOLEAN, uses : 0 .. MaxUses]

NoReset == [state |-> "absent", user |-> None, mailed |-> FALSE, uses |-> 0]

Row == Jti \cup Reset

\* "deactivate" is an update that sets is_active to False.
Op == {"login", "refresh", "logout", "logout_all", "change", "forgot",
       "reset", "create", "update", "deactivate", "delete", "seed"}

ASSUME NamesAssumption ==
    /\ Jti \subseteq Nat /\ Reset \subseteq Nat /\ Jti \cap Reset = {}
    /\ None \notin User /\ None \notin Email /\ None \notin Password
    /\ None \notin Row /\ None \notin BOOLEAN
    /\ None \notin Op \cup Role \cup {"absent", "live", "deleted"}

ASSUME GivenAssumption == Given \subseteq Password

ASSUME FiniteAssumption == IsFiniteSet(Row) /\ IsFiniteSet(Req)

ASSUME Table0Assumption ==
    /\ Table0 \in [User -> UserRow]
    /\ \A u \in User : Table0[u].state # "absent" => Table0[u].email \in Email
    /\ \A u, v \in User :
          (Table0[u].state = "live" /\ Table0[v].state = "live"
              /\ Table0[u].email = Table0[v].email) => u = v

-----------------------------------------------------------------------------
(* Requests.                                                               *)

Pc == {"idle",      \* no request in this slot
       "load",      \* the administrator is authenticated
       "owner",     \* the presented row was read, its user not yet
       "user",      \* about to UPDATE users
       "mark",      \* about to UPDATE the row presented
       "claim",     \* about to claim the refresh token presented
       "snapshot",  \* about to start an UPDATE of all of a user's rows
       "sweep",     \* in that UPDATE, row after row
       "link",      \* about to INSERT a reset link
       "insert",    \* about to INSERT a user
       "commit",    \* about to commit
       "mail"}      \* committed, about to send the reset mail

\* An UPDATE of users sets the columns that are not None in its patch.
Patch == [state : {"live", "deleted", None}, email : Email \cup {None},
          pw : Password \cup {None}, role : Role \cup {None},
          active : BOOLEAN \cup {None}]

NoPatch == [state |-> None, email |-> None, pw |-> None, role |-> None,
            active |-> None]

Job == [op : Op \cup {None}, user : User \cup {None}, row : Row \cup {None},
        pw : Password \cup {None}, patch : Patch]

NoJob == [op |-> None, user |-> None, row |-> None, pw |-> None,
          patch |-> NoPatch]

\* user: the row of users it has written.  held: the tokens and links it has
\* updated.  todo: the rows its running UPDATE has still to visit.  mint: the
\* token or link it has inserted.
Txn == [user : User \cup {None}, held : SUBSET Row, todo : SUBSET Row,
        mint : Row \cup {None}]

NoTxn == [user |-> None, held |-> {}, todo |-> {}, mint |-> None]

TypeOK ==
    /\ users \in [User -> UserRow]
    /\ tokens \in [Jti -> TokenRow]
    /\ resets \in [Reset -> ResetRow]
    /\ expired \subseteq Row
    /\ pc \in [Req -> Pc]
    /\ job \in [Req -> Job]
    /\ txn \in [Req -> Txn]

Init ==
    /\ users = Table0
    /\ tokens = [t \in Jti |-> NoToken]
    /\ resets = [l \in Reset |-> NoReset]
    /\ expired = {}
    /\ pc = [r \in Req |-> "idle"]
    /\ job = [r \in Req |-> NoJob]
    /\ txn = [r \in Req |-> NoTxn]

-----------------------------------------------------------------------------
(* Reading.                                                                *)

\* BaseRepository.get / get_by on users, with the is_active test that every
\* caller makes: a soft-deleted row is not found.
CanSignIn(u) == users[u].state = "live" /\ users[u].active

\* get_current_user: a client has an access token of u if some login or refresh
\* of u was answered.  Access tokens are not stored and are not revoked.
HasAccess(u) ==
    CanSignIn(u) /\ \E t \in Jti : tokens[t].state # "absent" /\ tokens[t].user = u

Absent(x) == IF x \in Jti THEN tokens[x].state = "absent"
                          ELSE resets[x].state = "absent"

Unused(S) == {x \in S : Absent(x) /\ \A q \in Req : txn[q].mint # x}

\* A new token or link takes the next free place.
IsNew(x, S) == x \in Unused(S) /\ \A y \in Unused(S) : x <= y

\* Bound: a request that will insert a row starts only while one is left for it.
Room(S, ops) ==
    Cardinality({x \in S : Absent(x)}) > Cardinality({q \in Req : job[q].op \in ops})

-----------------------------------------------------------------------------
(* Row locks.  A row written by a transaction is locked until it ends; an  *)
(* INSERT into the unique index on live emails waits for a transaction     *)
(* whose outcome decides whether the email is free.                        *)

WantedUser(r) == IF pc[r] = "user" THEN {job[r].user} ELSE {}

\* Mistake: logout-all sweeps the newest row first, the others the oldest.
WantedRowUnordered(r) ==
    IF pc[r] \in {"claim", "mark"} THEN {job[r].row}
    ELSE IF pc[r] = "sweep"
    THEN {x \in txn[r].todo : \A y \in txn[r].todo :
             IF job[r].op = "logout_all" THEN y <= x ELSE x <= y}
    ELSE {}

WantedRow(r) ==
    IF pc[r] \in {"claim", "mark"} THEN {job[r].row}
    ELSE IF pc[r] = "sweep" THEN {x \in txn[r].todo : \A y \in txn[r].todo : x <= y}
    ELSE {}

EmailWritten(q) ==
    IF txn[q].user # None /\ job[q].patch.state # None
    THEN {IF job[q].patch.state = "live" THEN job[q].patch.email
                                         ELSE users[txn[q].user].email}
    ELSE {}

WantedEmail(r) == IF pc[r] = "insert" THEN {job[r].patch.email} ELSE {}

WaitsFor(r) ==
    {q \in Req \ {r} : \/ txn[q].user \in WantedUser(r)
                       \/ txn[q].held \cap WantedRow(r) # {}
                       \/ EmailWritten(q) \cap WantedEmail(r) # {}}

-----------------------------------------------------------------------------
(* Steps.                                                                  *)

\* Request r goes on to step `next` with j and x; nothing is committed.
Step(r, next, j, x) ==
    /\ pc' = [pc EXCEPT ![r] = next]
    /\ job' = [job EXCEPT ![r] = j]
    /\ txn' = [txn EXCEPT ![r] = x]
    /\ UNCHANGED tables

\* The first step of an endpoint.
Begin(r, op, next, j) ==
    /\ pc[r] = "idle" /\ op \in Ops
    /\ Step(r, next, j, NoTxn)

\* get_db's rollback: the request ends, its uncommitted work is gone.  Errors,
\* a client that disconnects and a crash of the process all come here.
Rollback(r) == Step(r, "idle", NoJob, NoTxn)

Abort(r) == pc[r] # "idle" /\ Rollback(r)

\* An UPDATE of one row of users by primary key: it waits for the row's lock.
LockUser(r, next) ==
    /\ pc[r] = "user" /\ WaitsFor(r) = {}
    /\ Step(r, next, job[r], [txn[r] EXCEPT !.user = job[r].user])

\* An UPDATE of the one token or link in job[r].row, whatever its state.
LockRow(r, next) ==
    /\ pc[r] = "mark" /\ WaitsFor(r) = {}
    /\ Step(r, next, job[r], [txn[r] EXCEPT !.held = @ \cup {job[r].row}])

\* revoke_all_for_user and invalidate_all_for_user are one UPDATE each.  The
\* rows it will visit are those that match in the statement's snapshot: rows
\* that other transactions have inserted but not committed are not among them.
Swept(r) ==
    IF job[r].op = "forgot"
    THEN {l \in Reset : resets[l].state = "fresh" /\ resets[l].user = job[r].user}
    ELSE {t \in Jti : tokens[t].state = "live" /\ tokens[t].user = job[r].user}

AfterSweep(r) == IF job[r].op = "forgot" THEN "link" ELSE "commit"

SweepSnapshot(r) ==
    /\ pc[r] = "snapshot"
    /\ Step(r, IF Swept(r) = {} THEN AfterSweep(r) ELSE "sweep",
            job[r], [txn[r] EXCEPT !.todo = Swept(r)])

\* It locks the rows in their order on disk, waiting for each that is locked,
\* and keeps the lock even of a row that no longer matches.
SweepRow(r) ==
    /\ pc[r] = "sweep" /\ WaitsFor(r) = {}
    /\ \E x \in WantedRow(r) :
          Step(r, IF txn[r].todo = {x} THEN AfterSweep(r) ELSE "sweep", job[r],
               [txn[r] EXCEPT !.held = @ \cup {x}, !.todo = @ \ {x}])

-----------------------------------------------------------------------------
(* Commit: the work of txn[r] reaches the tables in one step.              *)

Patched(row, p) ==
    [state  |-> IF p.state = None THEN row.state ELSE p.state,
     email  |-> IF p.email = None THEN row.email ELSE p.email,
     pw     |-> IF p.pw = None THEN row.pw ELSE p.pw,
     role   |-> IF p.role = None THEN row.role ELSE p.role,
     active |-> IF p.active = None THEN row.active ELSE p.active]

\* The row _issue_token_pair inserted, for a login or for a refresh.
MintedToken(r) ==
    LET from == job[r].row IN
    [state |-> "live", user |-> job[r].user, replaced |-> None,
     root   |-> IF from = None THEN txn[r].mint ELSE tokens[from].root,
     parent |-> from,
     pw     |-> IF from = None THEN job[r].pw ELSE tokens[from].pw]

\* Mistake: every revocation writes replaced_by_jti, NULL where nothing replaces.
RevokedTokenOverwriting(r, t) ==
    [tokens[t] EXCEPT !.state = "revoked", !.replaced = txn[r].mint]

\* Only claim writes replaced_by_jti.
RevokedToken(r, t) ==
    [tokens[t] EXCEPT !.state = "revoked",
                      !.replaced = IF txn[r].mint \in Jti THEN txn[r].mint ELSE @]

MintedReset(r) ==
    [state |-> "fresh", user |-> job[r].user, mailed |-> FALSE, uses |-> 0]

UsedReset(r, l) ==
    [resets[l] EXCEPT !.state = "used",
                      !.uses = IF job[r].op = "reset" /\ @ < MaxUses THEN @ + 1 ELSE @]

Commit(r) ==
    /\ pc[r] = "commit"
    /\ users' = [u \in User |-> IF u = txn[r].user
                                THEN Patched(users[u], job[r].patch) ELSE users[u]]
    /\ tokens' = [t \in Jti |-> IF t = txn[r].mint THEN MintedToken(r)
                                ELSE IF t \in txn[r].held THEN RevokedToken(r, t)
                                ELSE tokens[t]]
    /\ resets' = [l \in Reset |-> IF l = txn[r].mint THEN MintedReset(r)
                                  ELSE IF l \in txn[r].held THEN UsedReset(r, l)
                                  ELSE resets[l]]
    /\ txn' = [txn EXCEPT ![r] = NoTxn]
    /\ IF job[r].op = "forgot"
       THEN /\ pc' = [pc EXCEPT ![r] = "mail"]
            /\ job' = [job EXCEPT ![r].row = txn[r].mint]
       ELSE /\ pc' = [pc EXCEPT ![r] = "idle"]
            /\ job' = [job EXCEPT ![r] = NoJob]
    /\ UNCHANGED expired

\* Time passes: expires_at of a token or link lies in the past.
Expire(x) ==
    /\ x \in Aging /\ ~Absent(x) /\ x \notin expired
    /\ expired' = expired \cup {x}
    /\ UNCHANGED <<users, tokens, resets, pc, job, txn>>
=============================================================================
