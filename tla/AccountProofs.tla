---------------------------- MODULE AccountProofs ----------------------------
(***************************************************************************)
(* Accounts and row locks, for any number of users, tokens, links and      *)
(* concurrent requests: an email never belongs to two accounts in use, no  *)
(* flush writes back what another request changed, and requests never wait *)
(* for each other in a circle.  All three rest on the shape of a request:  *)
(* what its endpoint has written and locked when it is at a given step.    *)
(***************************************************************************)
EXTENDS AuthProofs, FiniteSetTheorems, WellFoundedInduction

-----------------------------------------------------------------------------
(* The shape of a request at step p with job j and transaction x.          *)

\* Nothing is written and no row is locked.
Empty(x) == x.user = None /\ x.held = {} /\ x.todo = {} /\ x.mint = None

\* The UPDATE over the rows of S, which it visits in their order on disk; before
\* it, only the rows of `own` are locked.
OrderlySweep(p, x, S, own) ==
    /\ x.mint = None
    /\ x.held \subseteq S \cup own /\ own \subseteq x.held
    /\ x.todo \subseteq S /\ (p # "sweep" => x.todo = {})
    /\ p = "snapshot" => x.held = own
    /\ \A y \in x.held \ own, z \in x.todo : y < z

SetsPassword(p) == p.state = None /\ p.email = None /\ p.role = None /\ p.active = None

SetsRights(p) == p.state = None /\ p.email = None /\ p.pw = None

Signing(p, j, x) ==
    /\ p \in {"user", "commit"} /\ j.row = None /\ j.patch = NoPatch
    /\ p = "user" => Empty(x)
    /\ p = "commit" => /\ x.user = j.user /\ x.mint \in Jti
                       /\ x.held = {} /\ x.todo = {}

Rotating(p, j, x) ==
    /\ p \in {"owner", "claim", "snapshot", "sweep", "commit"}
    /\ j.row \in Jti /\ j.patch = NoPatch /\ x.user = None
    /\ p = "owner" => Empty(x)
    /\ p = "claim" => x.held = {} /\ x.todo = {} /\ x.mint \in Jti
    /\ p \in {"snapshot", "sweep"} => OrderlySweep(p, x, Jti, {})
    /\ p = "commit" => \/ OrderlySweep(p, x, Jti, {})
                       \/ x.held = {j.row} /\ x.todo = {} /\ x.mint \in Jti

Leaving(p, j, x) ==
    /\ p \in {"mark", "commit"} /\ j.row \in Jti /\ j.patch = NoPatch
    /\ p = "mark" => Empty(x)
    /\ p = "commit" => /\ x.user = None /\ x.mint = None
                       /\ x.held = {j.row} /\ x.todo = {}

LeavingAll(p, j, x) ==
    /\ p \in {"snapshot", "sweep", "commit"} /\ j.row = None /\ j.patch = NoPatch
    /\ x.user = None /\ OrderlySweep(p, x, Jti, {})

Changing(p, j, x) ==
    /\ p \in {"user", "snapshot", "sweep", "commit"} /\ j.row = None /\ SetsPassword(j.patch)
    /\ p = "user" => Empty(x)
    /\ p # "user" => x.user = j.user /\ OrderlySweep(p, x, Jti, {})

Asking(p, j, x) ==
    /\ p \in {"snapshot", "sweep", "link", "commit", "mail"} /\ j.patch = NoPatch
    /\ x.user = None
    /\ p = "mail" => Empty(x) /\ j.row \in Reset
    /\ p # "mail" => j.row = None
    /\ p \in {"snapshot", "sweep", "link"} => OrderlySweep(p, x, Reset, {})
    /\ p = "commit" => x.held \subseteq Reset /\ x.todo = {} /\ x.mint \in Reset

Resetting(p, j, x) ==
    /\ p \in {"owner", "mark", "user", "snapshot", "sweep", "commit"}
    /\ j.row \in Reset /\ SetsPassword(j.patch)
    /\ p \in {"owner", "mark"} => Empty(x)
    /\ p = "user" => x.user = None /\ x.held = {j.row} /\ x.todo = {} /\ x.mint = None
    /\ p \in {"snapshot", "sweep", "commit"} =>
          x.user = j.user /\ OrderlySweep(p, x, Jti, {j.row})

Adding(p, j, x) ==
    /\ p \in {"load", "insert", "commit"} /\ j.row = None
    /\ p = "load" => j.patch = NoPatch
    /\ p # "load" => j.patch.state = "live" /\ j.patch.email \in Email
    /\ p # "commit" => Empty(x)
    /\ p = "commit" => /\ x.user = j.user /\ j.user \in User
                       /\ x.held = {} /\ x.todo = {} /\ x.mint = None

\* An update without a net change writes nothing, and one that deactivates an
\* account then only sweeps.
Updating(p, j, x) ==
    /\ p \in {"load", "user", "snapshot", "sweep", "commit"} /\ j.row = None
    /\ SetsRights(j.patch)
    /\ j.op = "update" => p \notin {"snapshot", "sweep"} /\ x.held = {} /\ j.patch.active \in {TRUE, None}
    /\ j.op = "deactivate" => p # "load" /\ j.patch.active \in {FALSE, None}
    /\ p \in {"load", "user"} => Empty(x)
    /\ p \in {"snapshot", "sweep", "commit"} =>
          /\ OrderlySweep(p, x, Jti, {})
          /\ \/ x.user = j.user
             \/ x.user = None /\ j.patch = NoPatch

Deleting(p, j, x) ==
    /\ p \in {"load", "user", "snapshot", "sweep", "commit"} /\ j.row = None
    /\ p = "load" => j.patch = NoPatch
    /\ p # "load" => j.patch = [NoPatch EXCEPT !.state = "deleted"]
    /\ p \in {"load", "user"} => Empty(x)
    /\ p \in {"snapshot", "sweep", "commit"} => x.user = j.user /\ OrderlySweep(p, x, Jti, {})

Shape(p, j, x) ==
    /\ j.op \notin {None, "seed"} => j.user \in User
    /\ j.op = None => p = "idle" /\ Empty(x) /\ j.patch = NoPatch
    /\ j.op = "login" => Signing(p, j, x)
    /\ j.op = "refresh" => Rotating(p, j, x)
    /\ j.op = "logout" => Leaving(p, j, x)
    /\ j.op = "logout_all" => LeavingAll(p, j, x)
    /\ j.op = "change" => Changing(p, j, x)
    /\ j.op = "forgot" => Asking(p, j, x)
    /\ j.op = "reset" => Resetting(p, j, x)
    /\ j.op \in {"create", "seed"} => Adding(p, j, x)
    /\ j.op \in {"update", "deactivate"} => Updating(p, j, x)
    /\ j.op = "delete" => Deleting(p, j, x)

\* The rows that the UPDATE of an endpoint visits, and the link that a reset holds
\* when it comes to it.
Rows(j) == IF j.op = "forgot" THEN Reset ELSE Jti
Own(j) == IF j.op = "reset" THEN {j.row} ELSE {}

Shapes == \A r \in Req : Shape(pc[r], job[r], txn[r])

LinksOwned == \A l \in Reset : resets[l].state = "fresh" => resets[l].user \in User

-----------------------------------------------------------------------------
(* What the requests in flight do to the emails.                           *)

Inserts(r) == txn[r].user # None /\ job[r].patch.state = "live"

\* A row of users has one writer at a time.
OneWriter ==
    \A r, q \in Req : (r # q /\ txn[r].user # None) => txn[q].user # txn[r].user

\* The account a request has inserted is new and its email free, and no two
\* requests insert the same email.
InsertsFree ==
    \A r \in Req : Inserts(r) =>
        /\ users[txn[r].user].state = "absent"
        /\ \A v \in User : users[v].state = "live" => users[v].email # job[r].patch.email

InsertsApart ==
    \A r, q \in Req : (r # q /\ Inserts(r) /\ Inserts(q)) =>
        job[r].patch.email # job[q].patch.email

Emails == OneWriter /\ InsertsFree /\ InsertsApart /\ LiveEmailUnique

AInv == IInv /\ LinksOwned /\ Shapes /\ Emails

-----------------------------------------------------------------------------
(* Every step keeps the shapes.                                            *)

\* An empty slot has no work in it.
LEMMA NoShape == Shape("idle", NoJob, NoTxn) /\ Empty(NoTxn)
  BY NamesAssumption DEF Shape, Empty, NoJob, NoTxn, Op

\* A step of r moves only r.
LEMMA OwnShape ==
  ASSUME TypeOK, Shapes, NEW r \in Req, NEW next, NEW j, NEW x,
         Step(r, next, j, x), Shape(next, j, x)
  PROVE  Shapes'
  BY DEF TypeOK, Shapes, Step

\* A rollback leaves a request that has nothing.
LEMMA RollbackShape ==
  ASSUME TypeOK, Shapes, NEW r \in Req, Rollback(r)
  PROVE  Shapes'
  BY NoShape, OwnShape DEF Rollback

\* What an endpoint reads first decides the shape of its request.
LEMMA StartShape ==
  ASSUME TypeOK, TokenRows, LinksOwned, Shapes, NEW r \in Req, Start(r)
  PROVE  Shapes'
  <1> USE NoShape DEF NoJob, NoPatch
  <1>1. CASE LoginRead(r)
    <2> PICK u \in User :
          Begin(r, "login", "user",
                [NoJob EXCEPT !.op = "login", !.user = u, !.pw = users[u].pw])
      BY <1>1 DEF LoginRead
    <2> DEFINE j == [NoJob EXCEPT !.op = "login", !.user = u, !.pw = users[u].pw]
    <2>1. Shape("user", j, NoTxn)
      BY NamesAssumption DEF Shape, Signing, Op
    <2> QED
      BY <2>1, OwnShape DEF Begin
  <1>2. CASE RefreshRead(r)
    <2> PICK t \in Jti :
          /\ tokens[t].state # "absent"
          /\ Begin(r, "refresh", "owner",
                   [NoJob EXCEPT !.op = "refresh", !.row = t, !.user = tokens[t].user])
      BY <1>2 DEF RefreshRead
    <2>0. tokens[t].user \in User
      BY DEF TokenRows
    <2> DEFINE j == [NoJob EXCEPT !.op = "refresh", !.row = t, !.user = tokens[t].user]
    <2>1. Shape("owner", j, NoTxn)
      BY <2>0, NamesAssumption DEF Shape, Rotating, Empty, Op
    <2> QED
      BY <2>1, OwnShape DEF Begin
  <1>3. CASE LogoutRead(r)
    <2> PICK t \in Jti :
          /\ tokens[t].state = "live"
          /\ Begin(r, "logout", "mark",
                   [NoJob EXCEPT !.op = "logout", !.row = t, !.user = tokens[t].user])
      BY <1>3 DEF LogoutRead
    <2>0. tokens[t].user \in User
      BY DEF TokenRows
    <2> DEFINE j == [NoJob EXCEPT !.op = "logout", !.row = t, !.user = tokens[t].user]
    <2>1. Shape("mark", j, NoTxn)
      BY <2>0, NamesAssumption DEF Shape, Leaving, Op
    <2> QED
      BY <2>1, OwnShape DEF Begin
  <1>4. CASE LogoutAllRead(r)
    <2> PICK u \in User :
          Begin(r, "logout_all", "snapshot", [NoJob EXCEPT !.op = "logout_all", !.user = u])
      BY <1>4 DEF LogoutAllRead
    <2> DEFINE j == [NoJob EXCEPT !.op = "logout_all", !.user = u]
    <2>1. Shape("snapshot", j, NoTxn)
      BY NamesAssumption DEF Shape, LeavingAll, OrderlySweep, Empty, Op
    <2> QED
      BY <2>1, OwnShape DEF Begin
  <1>5. CASE ChangeRead(r)
    <2> PICK u \in User, p \in Password :
          Begin(r, "change", "user",
                [NoJob EXCEPT !.op = "change", !.user = u,
                              !.patch = [NoPatch EXCEPT !.pw = p]])
      BY <1>5 DEF ChangeRead
    <2> DEFINE j == [NoJob EXCEPT !.op = "change", !.user = u,
                                  !.patch = [NoPatch EXCEPT !.pw = p]]
    <2>1. Shape("user", j, NoTxn)
      BY NamesAssumption DEF Shape, Changing, SetsPassword, Op
    <2> QED
      BY <2>1, OwnShape DEF Begin
  <1>6. CASE ForgotRead(r)
    <2> PICK u \in User :
          Begin(r, "forgot", "snapshot", [NoJob EXCEPT !.op = "forgot", !.user = u])
      BY <1>6 DEF ForgotRead
    <2> DEFINE j == [NoJob EXCEPT !.op = "forgot", !.user = u]
    <2>1. Shape("snapshot", j, NoTxn)
      BY NamesAssumption DEF Shape, Asking, OrderlySweep, Empty, Op
    <2> QED
      BY <2>1, OwnShape DEF Begin
  <1>7. CASE ResetRead(r)
    <2> PICK l \in Reset, p \in Password :
          /\ resets[l].state = "fresh"
          /\ Begin(r, "reset", "owner",
                   [NoJob EXCEPT !.op = "reset", !.row = l, !.user = resets[l].user,
                                 !.patch = [NoPatch EXCEPT !.pw = p]])
      BY <1>7 DEF ResetRead
    <2>0. resets[l].user \in User
      BY DEF LinksOwned
    <2> DEFINE j == [NoJob EXCEPT !.op = "reset", !.row = l, !.user = resets[l].user,
                                  !.patch = [NoPatch EXCEPT !.pw = p]]
    <2>1. Shape("owner", j, NoTxn)
      BY <2>0, NamesAssumption DEF Shape, Resetting, SetsPassword, Op
    <2> QED
      BY <2>1, OwnShape DEF Begin
  <1>8. CASE AdminRead(r)
    <2> PICK a \in User, op \in {"create", "update", "delete"} :
          Begin(r, op, "load", [NoJob EXCEPT !.op = op, !.user = a])
      BY <1>8 DEF AdminRead
    <2> DEFINE j == [NoJob EXCEPT !.op = op, !.user = a]
    <2>1. j.op = op /\ j.row = None /\ j.patch = NoPatch /\ j.user \in User
      OBVIOUS
    <2>2. Shape("load", j, NoTxn)
      BY <2>1, NamesAssumption DEF Shape, Adding, Updating, Deleting, SetsRights, Empty, Op
    <2> QED
      BY <2>2, OwnShape DEF Begin
  <1>9. CASE SeedRead(r)
    <2> PICK p \in Given :
          Begin(r, "seed", "insert",
                [NoJob EXCEPT !.op = "seed",
                              !.patch = [state |-> "live", email |-> FIRST_SUPERUSER_EMAIL,
                                         pw |-> p, role |-> "admin", active |-> TRUE]])
      BY <1>9 DEF SeedRead
    <2> DEFINE j == [NoJob EXCEPT !.op = "seed",
                                  !.patch = [state |-> "live", email |-> FIRST_SUPERUSER_EMAIL,
                                             pw |-> p, role |-> "admin", active |-> TRUE]]
    <2>1. Shape("insert", j, NoTxn)
      BY NamesAssumption, SuperuserAssumption DEF Shape, Adding, Op
    <2> QED
      BY <2>1, OwnShape DEF Begin
  <1> QED
    BY <1>1, <1>2, <1>3, <1>4, <1>5, <1>6, <1>7, <1>8, <1>9
    DEF Start, SessionBegin, PasswordBegin, AdminBegin

\* The steps of login, refresh, logout and logout-all.
LEMMA SessionStepShape ==
  ASSUME TypeOK, Shapes, NEW r \in Req, SessionStep(r)
  PROVE  Shapes'
  <1>0. /\ Shape(pc[r], job[r], txn[r]) /\ txn[r] \in Txn
        /\ job[r].op = "login" => Signing(pc[r], job[r], txn[r])
        /\ job[r].op = "refresh" => Rotating(pc[r], job[r], txn[r])
        /\ job[r].op = "logout" => Leaving(pc[r], job[r], txn[r])
    BY DEF Shapes, Shape, TypeOK
  <1>1. CASE LoginFlush(r)
    <2> PICK t \in Jti :
          Step(r, "commit", job[r], [txn[r] EXCEPT !.user = job[r].user, !.mint = t])
      BY <1>1 DEF LoginFlush
    <2> DEFINE x == [txn[r] EXCEPT !.user = job[r].user, !.mint = t]
    <2>1. x.user = job[r].user /\ x.mint = t /\ x.held = txn[r].held /\ x.todo = txn[r].todo
      BY <1>0 DEF Txn
    <2> HIDE DEF x
    <2>2. Shape("commit", job[r], x)
      BY <1>0, <1>1, <2>1 DEF LoginFlush, Shape, Signing, Empty
    <2> QED
      BY <2>2, OwnShape DEF x
  <1>2. CASE RefreshMint(r) /\ CanSignIn(job[r].user)
    <2> PICK t \in Jti : Step(r, "claim", job[r], [txn[r] EXCEPT !.mint = t])
      BY <1>2 DEF RefreshMint
    <2> DEFINE x == [txn[r] EXCEPT !.mint = t]
    <2>1. x.user = txn[r].user /\ x.mint = t /\ x.held = txn[r].held /\ x.todo = txn[r].todo
      BY <1>0 DEF Txn
    <2> HIDE DEF x
    <2>2. Shape("claim", job[r], x)
      BY <1>0, <1>2, <2>1 DEF RefreshMint, Shape, Rotating, Empty
    <2> QED
      BY <2>2, OwnShape DEF x
  <1>3. CASE RefreshMint(r) /\ ~CanSignIn(job[r].user)
    BY <1>3, RollbackShape DEF RefreshMint
  <1>4. CASE RefreshClaim(r)
    <2>0. job[r].op = "refresh"
      <3>1. job[r].op \in Op \cup {None} /\ pc[r] = "claim"
        BY <1>4 DEF TypeOK, Job, RefreshClaim
      <3> QED
        BY <1>0, <3>1 DEF Op, Shape, Signing, Leaving, LeavingAll, Changing, Asking,
                          Resetting, Adding, Updating, Deleting
    <2> DEFINE x == [txn[r] EXCEPT !.held = {job[r].row}]
    <2>1. x.user = txn[r].user /\ x.mint = txn[r].mint /\ x.held = {job[r].row}
          /\ x.todo = txn[r].todo
      BY <1>0 DEF Txn
    <2> HIDE DEF x
    <2>2. Shape("commit", job[r], x)
      BY <1>0, <1>4, <2>0, <2>1 DEF RefreshClaim, Shape, Rotating
    <2>3. Shape("snapshot", job[r], NoTxn)
      BY <1>0, <2>0, NoShape DEF Shape, Rotating, OrderlySweep, Empty
    <2> QED
      BY <1>4, <2>2, <2>3, OwnShape DEF RefreshClaim, x
  <1>5. CASE LogoutFlush(r)
    <2> DEFINE x == [txn[r] EXCEPT !.held = @ \cup {job[r].row}]
    <2>1. x.user = txn[r].user /\ x.mint = txn[r].mint
          /\ x.held = txn[r].held \cup {job[r].row} /\ x.todo = txn[r].todo
      BY <1>0 DEF Txn
    <2> HIDE DEF x
    <2>2. Shape("commit", job[r], x)
      BY <1>0, <1>5, <2>1 DEF LogoutFlush, LockRow, Shape, Leaving, Empty
    <2> QED
      BY <1>5, <2>2, OwnShape DEF LogoutFlush, LockRow, x
  <1> QED
    BY <1>1, <1>2, <1>3, <1>4, <1>5 DEF SessionStep

\* An UPDATE of users: what it needs of the shape is the same for every endpoint.
LEMMA LockUserShape ==
  ASSUME TypeOK, Shapes, NEW r \in Req, NEW next, LockUser(r, next),
         \A x : (/\ x.user = job[r].user /\ x.held = Own(job[r])
                 /\ x.todo = {} /\ x.mint = None)
                   => Shape(next, job[r], x)
  PROVE  Shapes'
  <1>0. Shape("user", job[r], txn[r]) /\ txn[r] \in Txn /\ job[r].op \in Op \cup {None}
    BY DEF Shapes, TypeOK, LockUser, Job
  <1>1. txn[r].held = Own(job[r]) /\ txn[r].todo = {} /\ txn[r].mint = None
    BY <1>0 DEF Shape, Op, Signing, Rotating, Leaving, LeavingAll, Changing, Asking,
                Resetting, Adding, Updating, Deleting, Empty, Own
  <1> DEFINE x == [txn[r] EXCEPT !.user = job[r].user]
  <1>2. x.user = job[r].user /\ x.held = Own(job[r]) /\ x.todo = {} /\ x.mint = None
    BY <1>0, <1>1 DEF Txn
  <1> HIDE DEF x
  <1>3. Shape(next, job[r], x)
    BY <1>2
  <1> QED
    BY <1>3, OwnShape DEF LockUser, x

\* The steps of change, forgot and reset.
LEMMA PasswordStepShape ==
  ASSUME TypeOK, Shapes, NEW r \in Req, PasswordStep(r)
  PROVE  Shapes'
  <1>0. /\ Shape(pc[r], job[r], txn[r]) /\ txn[r] \in Txn /\ job[r] \in Job
        /\ job[r].op = "change" => Changing(pc[r], job[r], txn[r])
        /\ job[r].op = "forgot" => Asking(pc[r], job[r], txn[r])
        /\ job[r].op = "reset" => Resetting(pc[r], job[r], txn[r])
    BY DEF Shapes, Shape, TypeOK
  <1>1. CASE ChangeFlush(r)
    <2>1. ASSUME NEW x, x.user = job[r].user, x.held = Own(job[r]), x.todo = {}, x.mint = None
          PROVE  Shape("snapshot", job[r], x)
      BY <1>0, <1>1, <2>1 DEF ChangeFlush, Shape, Changing, OrderlySweep, Own
    <2> QED
      BY <1>1, <2>1, LockUserShape DEF ChangeFlush
  <1>2. CASE ForgotInsert(r)
    <2> PICK l \in Reset : Step(r, "commit", job[r], [txn[r] EXCEPT !.mint = l])
      BY <1>2 DEF ForgotInsert
    <2>0. job[r].op = "forgot"
      <3>1. job[r].op \in Op \cup {None} /\ pc[r] = "link"
        BY <1>0, <1>2 DEF Job, ForgotInsert
      <3> QED
        BY <1>0, <3>1 DEF Op, Shape, Signing, Rotating, Leaving, LeavingAll, Changing,
                          Resetting, Adding, Updating, Deleting
    <2> DEFINE x == [txn[r] EXCEPT !.mint = l]
    <2>1. x.user = txn[r].user /\ x.mint = l /\ x.held = txn[r].held /\ x.todo = txn[r].todo
      BY <1>0 DEF Txn
    <2> HIDE DEF x
    <2>2. Shape("commit", job[r], x)
      BY <1>0, <1>2, <2>0, <2>1 DEF ForgotInsert, Shape, Asking, OrderlySweep
    <2> QED
      BY <2>2, OwnShape DEF x
  <1>3. CASE ForgotMail(r)
    <2>0. job[r].op = "forgot"
      <3>1. job[r].op \in Op \cup {None} /\ pc[r] = "mail"
        BY <1>0, <1>3 DEF Job, ForgotMail
      <3> QED
        BY <1>0, <3>1 DEF Op, Shape, Signing, Rotating, Leaving, LeavingAll, Changing,
                          Resetting, Adding, Updating, Deleting
    <2>1. Empty(txn[r])
      BY <1>0, <1>3, <2>0 DEF ForgotMail, Asking
    <2>2. Shape("idle", NoJob, txn[r])
      BY <2>1, NamesAssumption DEF Shape, NoJob, Op
    <2> QED
      BY <1>3, <2>2 DEF ForgotMail, Shapes, TypeOK
  <1>4. CASE ResetOwner(r) /\ CanSignIn(job[r].user)
    <2>1. Shape("mark", job[r], txn[r])
      BY <1>0, <1>4 DEF ResetOwner, Shape, Resetting
    <2> QED
      BY <1>4, <2>1, OwnShape DEF ResetOwner
  <1>5. CASE ResetOwner(r) /\ ~CanSignIn(job[r].user)
    BY <1>5, RollbackShape DEF ResetOwner
  <1>6. CASE ResetFlush(r)
    <2>1. ASSUME NEW x, x.user = job[r].user, x.held = Own(job[r]), x.todo = {}, x.mint = None
          PROVE  Shape("snapshot", job[r], x)
      BY <1>0, <1>6, <2>1 DEF ResetFlush, Shape, Resetting, OrderlySweep, Own
    <2> QED
      BY <1>6, <2>1, LockUserShape DEF ResetFlush
  <1>7. CASE ResetMark(r)
    <2> DEFINE x == [txn[r] EXCEPT !.held = @ \cup {job[r].row}]
    <2>1. x.user = txn[r].user /\ x.mint = txn[r].mint
          /\ x.held = txn[r].held \cup {job[r].row} /\ x.todo = txn[r].todo
      BY <1>0 DEF Txn
    <2> HIDE DEF x
    <2>2. Shape("user", job[r], x)
      BY <1>0, <1>7, <2>1 DEF ResetMark, LockRow, Shape, Resetting, Empty
    <2> QED
      BY <1>7, <2>2, OwnShape DEF ResetMark, LockRow, x
  <1> QED
    BY <1>1, <1>2, <1>3, <1>4, <1>5, <1>6, <1>7 DEF PasswordStep

\* The steps of the administrator's endpoints and of the seed.
LEMMA AdminStepShape ==
  ASSUME TypeOK, Shapes, NEW r \in Req, AdminStep(r)
  PROVE  Shapes'
  <1>0. /\ Shape(pc[r], job[r], txn[r]) /\ txn[r] \in Txn /\ job[r] \in Job
        /\ job[r].op \in {"create", "seed"} => Adding(pc[r], job[r], txn[r])
        /\ job[r].op \in {"update", "deactivate"} => Updating(pc[r], job[r], txn[r])
        /\ job[r].op = "delete" => Deleting(pc[r], job[r], txn[r])
    BY DEF Shapes, Shape, TypeOK
  <1>1. CASE CreateCheck(r)
    <2> SUFFICES ASSUME NEW e \in Email, NEW p \in Given, NEW role \in Role,
                        NEW active \in BOOLEAN,
                        Step(r, "insert",
                             [job[r] EXCEPT !.patch = [state |-> "live", email |-> e, pw |-> p,
                                                       role |-> role, active |-> active]],
                             txn[r])
                 PROVE  Shapes'
      BY <1>1, RollbackShape DEF CreateCheck
    <2> DEFINE j == [job[r] EXCEPT !.patch = [state |-> "live", email |-> e, pw |-> p,
                                              role |-> role, active |-> active]]
    <2>1. /\ j.op = "create" /\ j.row = job[r].row /\ j.user = job[r].user
          /\ j.patch.state = "live" /\ j.patch.email = e
      BY <1>0, <1>1 DEF Job, CreateCheck
    <2> HIDE DEF j
    <2>2. Shape("insert", j, txn[r])
      BY <1>0, <1>1, <2>1 DEF CreateCheck, Shape, Adding
    <2> QED
      BY <2>2, OwnShape DEF j
  <1>2. CASE CreateFlush(r)
    <2>0. job[r].op \in {"create", "seed"}
      <3>1. job[r].op \in Op \cup {None} /\ pc[r] = "insert"
        BY <1>0, <1>2 DEF Job, CreateFlush
      <3> QED
        BY <1>0, <3>1 DEF Op, Shape, Signing, Rotating, Leaving, LeavingAll, Changing, Asking,
                          Resetting, Updating, Deleting
    <2> SUFFICES ASSUME NEW u \in User,
                        Step(r, "commit", [job[r] EXCEPT !.user = u],
                             [txn[r] EXCEPT !.user = u])
                 PROVE  Shapes'
      BY <1>2, RollbackShape DEF CreateFlush
    <2> DEFINE j == [job[r] EXCEPT !.user = u]
               x == [txn[r] EXCEPT !.user = u]
    <2>1. /\ j.op = job[r].op /\ j.row = job[r].row /\ j.patch = job[r].patch /\ j.user = u
          /\ x.user = u /\ x.held = txn[r].held /\ x.todo = txn[r].todo /\ x.mint = txn[r].mint
      BY <1>0 DEF Job, Txn
    <2> HIDE DEF j, x
    <2>2. Shape("commit", j, x)
      BY <1>0, <1>2, <2>0, <2>1 DEF CreateFlush, Shape, Adding, Empty
    <2> QED
      BY <2>2, OwnShape DEF j, x
  <1>3. CASE UpdateLoad(r)
    <2> SUFFICES ASSUME NEW u \in User, NEW role \in Role \cup {None},
                        NEW active \in BOOLEAN \cup {None},
                        Step(r, IF NetChange(u, role, active) # NoPatch THEN "user"
                                ELSE IF active = FALSE THEN "snapshot" ELSE "commit",
                             [job[r] EXCEPT !.op = IF active = FALSE THEN "deactivate" ELSE @,
                                            !.user = u, !.patch = NetChange(u, role, active)],
                             txn[r])
                 PROVE  Shapes'
      BY <1>3, RollbackShape DEF UpdateLoad
    <2> DEFINE p == NetChange(u, role, active)
               n == IF p # NoPatch THEN "user"
                    ELSE IF active = FALSE THEN "snapshot" ELSE "commit"
               j == [job[r] EXCEPT !.op = IF active = FALSE THEN "deactivate" ELSE @,
                                   !.user = u, !.patch = p]
    <2>1. /\ j.op = IF active = FALSE THEN "deactivate" ELSE "update"
          /\ j.row = job[r].row /\ j.patch = p /\ j.user = u
      BY <1>0, <1>3 DEF Job, UpdateLoad
    <2>2. SetsRights(p) /\ p.active \in {active, None}
      BY DEF NetChange, NoPatch, SetsRights
    <2>3. active = FALSE => p.active # TRUE
      BY <2>2, NamesAssumption
    <2>4. active # FALSE => p.active # FALSE
      BY <2>2, NamesAssumption
    <2> HIDE DEF p, j
    <2>5. Shape(n, j, txn[r])
      <3>1. Updating(n, j, txn[r])
        BY <1>0, <1>3, <2>1, <2>2, <2>3, <2>4 DEF UpdateLoad, Updating, OrderlySweep, Empty
      <3> QED
        BY <2>1, <3>1, NamesAssumption DEF Shape, Op
    <2> QED
      BY <2>5, OwnShape DEF j, p
  <1>4. CASE UpdateFlush(r) /\ job[r].op = "update"
    <2>1. ASSUME NEW x, x.user = job[r].user, x.held = Own(job[r]), x.todo = {}, x.mint = None
          PROVE  Shape("commit", job[r], x)
      BY <1>0, <1>4, <2>1 DEF Shape, Updating, OrderlySweep, Own
    <2> QED
      BY <1>4, <2>1, LockUserShape DEF UpdateFlush
  <1>5. CASE UpdateFlush(r) /\ job[r].op = "deactivate"
    <2>1. ASSUME NEW x, x.user = job[r].user, x.held = Own(job[r]), x.todo = {}, x.mint = None
          PROVE  Shape("snapshot", job[r], x)
      BY <1>0, <1>5, <2>1 DEF Shape, Updating, OrderlySweep, Own
    <2> QED
      BY <1>5, <2>1, LockUserShape DEF UpdateFlush
  <1>6. CASE DeleteLoad(r)
    <2> SUFFICES ASSUME NEW u \in User,
                        Step(r, "user",
                             [job[r] EXCEPT !.user = u,
                                            !.patch = [NoPatch EXCEPT !.state = "deleted"]],
                             txn[r])
                 PROVE  Shapes'
      BY <1>6, RollbackShape DEF DeleteLoad
    <2> DEFINE j == [job[r] EXCEPT !.user = u, !.patch = [NoPatch EXCEPT !.state = "deleted"]]
    <2>1. /\ j.op = "delete" /\ j.row = job[r].row /\ j.user = u
          /\ j.patch = [NoPatch EXCEPT !.state = "deleted"]
      BY <1>0, <1>6 DEF Job, DeleteLoad
    <2> HIDE DEF j
    <2>2. Shape("user", j, txn[r])
      BY <1>0, <1>6, <2>1 DEF DeleteLoad, Shape, Deleting
    <2> QED
      BY <2>2, OwnShape DEF j
  <1>7. CASE DeleteFlush(r)
    <2>1. ASSUME NEW x, x.user = job[r].user, x.held = Own(job[r]), x.todo = {}, x.mint = None
          PROVE  Shape("snapshot", job[r], x)
      BY <1>0, <1>7, <2>1 DEF DeleteFlush, LockUser, Shape, Deleting, OrderlySweep, Own
    <2> QED
      BY <1>7, <2>1, LockUserShape DEF DeleteFlush
  <1> QED
    BY <1>1, <1>2, <1>3, <1>4, <1>5, <1>6, <1>7 DEF AdminStep, UpdateFlush

\* The rows an UPDATE visits, in ascending order.
LEMMA SweepShape ==
  ASSUME TypeOK, Shapes, NEW r \in Req, SweepSnapshot(r) \/ SweepRow(r)
  PROVE  Shapes'
  <1>0. Shape(pc[r], job[r], txn[r]) /\ txn[r] \in Txn /\ job[r].op \in Op \cup {None}
    BY DEF Shapes, TypeOK, Job
  <1> DEFINE S == IF job[r].op = "forgot" THEN Reset ELSE Jti
             own == IF job[r].op = "reset" THEN {job[r].row} ELSE {}
  <1>1. /\ pc[r] \in {"snapshot", "sweep"} /\ OrderlySweep(pc[r], txn[r], S, own)
        /\ job[r].op \in {"refresh", "logout_all", "change", "forgot", "reset", "deactivate",
                           "delete"}
    <2>1. pc[r] \in {"snapshot", "sweep"}
      BY DEF SweepSnapshot, SweepRow
    <2> QED
      BY <1>0, <2>1 DEF Op, Shape, Signing, Rotating, Leaving, LeavingAll, Changing, Asking,
                        Resetting, Adding, Updating, Deleting
  <1>2. own \cap S = {} /\ S \subseteq Nat
    BY <1>0, <1>1, NamesAssumption DEF Shape, Resetting
  <1> HIDE DEF S, own
  <1>3. ASSUME NEW next \in {"sweep", AfterSweep(r)}, NEW x, x.user = txn[r].user,
               OrderlySweep(next, x, S, own)
        PROVE  Shape(next, job[r], x)
    BY <1>0, <1>1, <1>3
    DEF Shape, AfterSweep, S, own, Rotating, LeavingAll, Changing, Asking, Resetting, Updating,
        Deleting
  <1>4. CASE SweepSnapshot(r)
    <2> DEFINE n == IF Swept(r) = {} THEN AfterSweep(r) ELSE "sweep"
               x == [txn[r] EXCEPT !.todo = Swept(r)]
    <2>1. x.user = txn[r].user /\ x.held = own /\ x.todo = Swept(r) /\ x.mint = None
      BY <1>0, <1>1, <1>4 DEF Txn, SweepSnapshot, OrderlySweep
    <2>2. Swept(r) \subseteq S
      BY DEF Swept, S
    <2> HIDE DEF x
    <2>3. n \in {"sweep", AfterSweep(r)} /\ (n # "sweep" => Swept(r) = {}) /\ n # "snapshot"
      BY DEF AfterSweep
    <2>4. OrderlySweep(n, x, S, own)
      BY <2>1, <2>2, <2>3 DEF OrderlySweep
    <2> QED
      BY <1>3, <1>4, <2>1, <2>3, <2>4, OwnShape DEF SweepSnapshot, x
  <1>5. CASE SweepRow(r)
    <2> PICK y \in WantedRow(r) :
          Step(r, IF txn[r].todo = {y} THEN AfterSweep(r) ELSE "sweep", job[r],
               [txn[r] EXCEPT !.held = @ \cup {y}, !.todo = @ \ {y}])
      BY <1>5 DEF SweepRow
    <2> DEFINE n == IF txn[r].todo = {y} THEN AfterSweep(r) ELSE "sweep"
               x == [txn[r] EXCEPT !.held = @ \cup {y}, !.todo = @ \ {y}]
    <2>0. pc[r] = "sweep"
      BY <1>5 DEF SweepRow
    <2>1. x.user = txn[r].user /\ x.held = txn[r].held \cup {y} /\ x.todo = txn[r].todo \ {y}
          /\ x.mint = txn[r].mint
      BY <1>0 DEF Txn
    <2>2. y \in txn[r].todo /\ \A z \in txn[r].todo : y <= z
      BY <2>0 DEF WantedRow
    <2> HIDE DEF x
    <2>3. n \in {"sweep", AfterSweep(r)} /\ (n # "sweep" => x.todo = {}) /\ n # "snapshot"
      BY <2>1 DEF AfterSweep
    <2>4. \A z \in x.todo : y < z
      BY <1>1, <1>2, <2>1, <2>2 DEF OrderlySweep
    <2>5. OrderlySweep(n, x, S, own)
      BY <1>1, <2>1, <2>2, <2>3, <2>4 DEF OrderlySweep
    <2> QED
      BY <1>3, <2>1, <2>3, <2>5, OwnShape DEF x
  <1> QED
    BY <1>4, <1>5

\* A commit ends the request, or leaves a forgot with its mail to send.
LEMMA CommitShape ==
  ASSUME TypeOK, Shapes, NEW r \in Req, Commit(r)
  PROVE  Shapes'
  <1>0. Shape(pc[r], job[r], txn[r]) /\ job[r] \in Job
    BY DEF Shapes, TypeOK
  <1>1. CASE job[r].op = "forgot"
    <2> DEFINE j == [job[r] EXCEPT !.row = txn[r].mint]
    <2>1. j.op = "forgot" /\ j.row = txn[r].mint /\ j.patch = job[r].patch /\ j.user = job[r].user
      BY <1>0, <1>1 DEF Job
    <2> HIDE DEF j
    <2>2. Shape("mail", j, NoTxn)
      BY <1>0, <1>1, <2>1, NoShape DEF Commit, Shape, Asking, Empty
    <2>3. pc' = [pc EXCEPT ![r] = "mail"] /\ job' = [job EXCEPT ![r] = j]
          /\ txn' = [txn EXCEPT ![r] = NoTxn]
      BY <1>1 DEF Commit, TypeOK, j
    <2> QED
      BY <2>2, <2>3 DEF Shapes, TypeOK
  <1>2. CASE job[r].op # "forgot"
    BY <1>2, NoShape DEF Commit, Shapes, TypeOK
  <1> QED
    BY <1>1, <1>2

\* Every step keeps every request in the shape of its endpoint.
LEMMA NextShape ==
  ASSUME TypeOK, TokenRows, LinksOwned, Shapes, [Next]_vars
  PROVE  Shapes'
  <1>1. CASE UNCHANGED vars
    BY <1>1 DEF vars, Shapes
  <1>2. ASSUME NEW r \in Req, Start(r) \/ Work(r) \/ Abort(r)
        PROVE  Shapes'
    BY <1>2, StartShape, SessionStepShape, PasswordStepShape, AdminStepShape, SweepShape,
       CommitShape, RollbackShape
    DEF Work, Abort
  <1>3. ASSUME NEW y \in Row, Expire(y)
        PROVE  Shapes'
    BY <1>3 DEF Expire, Shapes
  <1> QED
    BY <1>1, <1>2, <1>3 DEF Next

-----------------------------------------------------------------------------
(* Waiting.                                                                *)

\* A nonempty set of natural numbers has a least member.
LEMMA Least ==
  ASSUME NEW T \in SUBSET Nat, T # {}
  PROVE  \E x \in T : \A y \in T : x <= y
  <1> DEFINE R == OpToRel(<, Nat)
  <1>1. IsWellFoundedOn(R, Nat)
    BY NatLessThanWellFounded
  <1>2. ASSUME NEW x \in Nat, NEW y \in Nat, x < y PROVE <<x, y>> \in R
    BY <1>2 DEF OpToRel
  <1> HIDE DEF R
  <1>3. PICK x \in T : \A y \in T : ~ (<<y, x>> \in R)
    BY <1>1, WFMin, Zenon
  <1>4. ASSUME NEW y \in T, ~(x <= y) PROVE FALSE
    <2>1. y < x /\ x \in Nat /\ y \in Nat
      BY <1>4
    <2>2. <<y, x>> \in R
      BY <1>2, <2>1
    <2> QED
      BY <1>3, <2>2
  <1> QED
    BY <1>4

\* The tables are finite, so a nonempty set of rows has a last one: the one with
\* the fewest rows behind it.
LEMMA Last ==
  ASSUME NEW T \in SUBSET Row, T # {}
  PROVE  \E x \in T : \A y \in T : y <= x
  <1> DEFINE Behind(x) == {y \in Row : x < y}
             C == {Cardinality(Behind(x)) : x \in T}
  <1>1. Row \subseteq Nat
    BY NamesAssumption DEF Row
  <1>2. \A x \in Row : /\ Behind(x) \in SUBSET Row /\ IsFiniteSet(Behind(x))
                       /\ Cardinality(Behind(x)) \in Nat
    <2>1. ASSUME NEW x \in Row
          PROVE  Behind(x) \in SUBSET Row /\ IsFiniteSet(Behind(x))
      BY FiniteAssumption, FS_Subset
    <2>2. ASSUME NEW x \in Row
          PROVE  Cardinality(Behind(x)) \in Nat
      BY <2>1, FS_CardinalityType
    <2> QED
      BY <2>1, <2>2
  <1>3. C \in SUBSET Nat /\ C # {}
    BY <1>2
  <1>4. PICK x \in T : \A y \in T : Cardinality(Behind(x)) <= Cardinality(Behind(y))
    <2> HIDE DEF C
    <2>1. PICK n \in C : \A m \in C : n <= m
      BY <1>3, Least
    <2> QED
      BY <2>1 DEF C
  <1>5. ASSUME NEW y \in T, ~(y <= x) PROVE FALSE
    <2>1. x \in Nat /\ y \in Nat /\ x < y /\ x \in Row /\ y \in Row
      BY <1>1, <1>5
    <2>2. Behind(y) \in SUBSET Behind(x) /\ y \in Behind(x) /\ y \notin Behind(y)
      <3>1. \A z \in Row : y < z => x < z
        BY <1>1, <2>1
      <3>2. ~(y < y)
        BY <2>1
      <3> QED
        BY <2>1, <3>1, <3>2
    <2>3. Cardinality(Behind(y)) <= Cardinality(Behind(x))
          /\ Cardinality(Behind(x)) # Cardinality(Behind(y))
      <3> HIDE DEF Behind
      <3> QED
        BY <1>2, <2>1, <2>2, FS_Subset
    <2>4. Cardinality(Behind(x)) <= Cardinality(Behind(y))
      BY <1>4
    <2> HIDE DEF Behind
    <2> QED
      BY <1>2, <2>1, <2>3, <2>4
  <1> QED
    BY <1>5

\* Sweepers cannot wait for each other in a circle: each would have to wait for
\* a row behind the one its predecessor waits for.
LEMMA NoSweepCircle ==
  ASSUME NEW A \in SUBSET Req, A # {},
         \A r \in A : \A x, y \in WantedRow(r) : x = y,
         \A r \in A : \E q \in A :
            \E x \in Row, y \in Row : x \in WantedRow(r) /\ y \in WantedRow(q) /\ x < y
  PROVE  FALSE
  <1> DEFINE T == {x \in Row : \E r \in A : x \in WantedRow(r)}
  <1>1. T \in SUBSET Row /\ T # {}
    OBVIOUS
  <1>2. PICK x \in T : \A y \in T : y <= x
    <2> HIDE DEF T
    <2> QED
      BY <1>1, Last
  <1>3. PICK r \in A : x \in WantedRow(r)
    OBVIOUS
  <1>4. PICK q \in A, y \in Row : y \in WantedRow(q) /\ x < y
    BY <1>3
  <1>5. y <= x /\ x \in Nat /\ y \in Nat
    BY <1>2, <1>4, NamesAssumption DEF Row
  <1> QED
    BY <1>4, <1>5

\* What a request holds while it may be waiting.
LEMMA HeldAt ==
  ASSUME NEW p, NEW j, NEW x, Shape(p, j, x), j.op \in Op \cup {None}
  PROVE  /\ p \in {"mark", "claim", "insert"} => x.user = None /\ x.held = {}
         /\ p = "user" => j.user \in User /\ x.user = None /\ x.held \subseteq Reset
         /\ p = "sweep" => /\ OrderlySweep(p, x, Rows(j), Own(j))
                          /\ Own(j) \subseteq Reset
                          /\ (j.op = "forgot" => x.user = None /\ Own(j) = {})
  <1> USE DEF Shape
  <1>1. p \in {"mark", "claim", "insert"} => x.user = None /\ x.held = {}
    BY DEF Op, Signing, Rotating, Leaving, LeavingAll, Changing, Asking, Resetting, Adding,
           Updating, Deleting, Empty
  <1>2. p = "user" => j.user \in User
    BY DEF Adding
  <1>3. p = "user" => x.user = None /\ x.held \subseteq Reset
    BY DEF Op, Signing, Rotating, Leaving, LeavingAll, Changing, Asking, Resetting, Adding,
           Updating, Deleting, Empty
  <1>4. p = "sweep" => /\ OrderlySweep(p, x, Rows(j), Own(j))
                       /\ Own(j) \subseteq Reset
                       /\ (j.op = "forgot" => x.user = None /\ Own(j) = {})
    BY DEF Op, Signing, Rotating, Leaving, LeavingAll, Changing, Asking, Resetting, Adding,
           Updating, Deleting, Rows, Own
  <1> QED
    BY <1>1, <1>2, <1>3, <1>4

\* Only a request that sweeps, or a reset that has marked its link and is about to
\* update the user, waits and is waited for; the reset holds nothing but a link.
LEMMA WaitedForAndWaiting ==
  ASSUME TypeOK, Shapes, NEW r \in Req, NEW q \in Req, q \in WaitsFor(r), WaitsFor(q) # {}
  PROVE  /\ pc[q] \in {"user", "sweep"}
         /\ pc[q] = "user" => txn[q].held \subseteq Reset
         /\ pc[r] = "user" => pc[q] = "sweep" /\ job[q].op # "forgot"
         /\ pc[r] = "sweep" => \E x \in WantedRow(r) : x \in txn[q].held
  <1>1. /\ Shape(pc[q], job[q], txn[q]) /\ job[q].op \in Op \cup {None}
        /\ Shape(pc[r], job[r], txn[r]) /\ job[r].op \in Op \cup {None}
    BY DEF Shapes, TypeOK, Job
  <1>2. pc[q] \in {"user", "insert", "claim", "mark", "sweep"}
    BY DEF WaitsFor, WantedUser, WantedRow, WantedEmail
  <1>3. \/ pc[r] = "user" /\ txn[q].user = job[r].user
        \/ \E x \in WantedRow(r) : x \in txn[q].held
        \/ pc[r] = "insert" /\ txn[q].user # None
    BY DEF WaitsFor, WantedUser, WantedEmail, EmailWritten
  <1>4. /\ pc[q] \in {"mark", "claim", "insert"} => txn[q].user = None /\ txn[q].held = {}
        /\ pc[q] = "user" => txn[q].user = None /\ txn[q].held \subseteq Reset
        /\ pc[q] = "sweep" /\ job[q].op = "forgot" => txn[q].user = None
    BY <1>1, HeldAt
  <1>5. pc[r] = "user" => job[r].user # None /\ WantedRow(r) = {}
    BY <1>1, HeldAt, NamesAssumption DEF WantedRow
  <1>6. pc[r] = "user" => txn[q].user # None
    BY <1>3, <1>5
  <1>7. pc[q] \in {"user", "sweep"}
    BY <1>2, <1>3, <1>4, <1>5
  <1> QED
    BY <1>3, <1>4, <1>6, <1>7

\* A sweeper wants one row, and it lies behind all rows of that kind it holds.
LEMMA SweeperWants ==
  ASSUME TypeOK, Shapes, NEW r \in Req, pc[r] = "sweep"
  PROVE  /\ WantedRow(r) \subseteq Rows(job[r])
         /\ \A x, y \in WantedRow(r) : x = y
         /\ txn[r].held \subseteq Rows(job[r]) \cup Own(job[r])
         /\ \A x \in WantedRow(r), y \in txn[r].held \ Own(job[r]) : y < x
         /\ Own(job[r]) \subseteq Reset /\ (job[r].op = "forgot" => Own(job[r]) = {})
  <1>1. Shape(pc[r], job[r], txn[r]) /\ job[r].op \in Op \cup {None}
    BY DEF Shapes, TypeOK, Job
  <1>2. /\ OrderlySweep("sweep", txn[r], Rows(job[r]), Own(job[r]))
        /\ Own(job[r]) \subseteq Reset /\ (job[r].op = "forgot" => Own(job[r]) = {})
    BY <1>1, HeldAt
  <1>3. txn[r].todo \subseteq Rows(job[r]) /\ Rows(job[r]) \subseteq Nat
    BY <1>2, NamesAssumption DEF OrderlySweep, Rows
  <1>4. \A x \in WantedRow(r) : x \in txn[r].todo /\ \A y \in txn[r].todo : x <= y
    BY DEF WantedRow
  <1>5. \A x, y \in WantedRow(r) : x = y
    <2>1. ASSUME NEW x \in WantedRow(r), NEW y \in WantedRow(r) PROVE x = y
      <3>1. x \in Nat /\ y \in Nat /\ x <= y /\ y <= x
        BY <1>3, <1>4
      <3> QED
        BY <3>1
    <2> QED
      BY <2>1
  <1> QED
    BY <1>2, <1>3, <1>4, <1>5 DEF OrderlySweep

\* Why nobody waits in a circle.  In one, a sweeper of tokens would wait for another
\* sweeper of tokens; without those nobody in it has written a user, so nobody in it
\* waits for one, and a sweeper of links waits for another sweeper of links.  But
\* each sweeps in the order of the rows.
LEMMA NoCircle ==
  ASSUME TypeOK, Shapes
  PROVE  NoWaitCycle
  <1> SUFFICES ASSUME NEW S \in (SUBSET Req) \ {{}}, \A r \in S : WaitsFor(r) \cap S # {}
               PROVE  FALSE
    BY DEF NoWaitCycle
  <1> DEFINE A == {r \in S : pc[r] = "sweep" /\ job[r].op # "forgot"}
             B == {r \in S : pc[r] = "sweep" /\ job[r].op = "forgot"}
             C == {r \in S : pc[r] = "user"}
  <1>1. \A r \in S : \E q \in S :
           /\ q \in A \cup B \cup C
           /\ pc[q] = "user" => txn[q].held \subseteq Reset
           /\ pc[r] = "user" => q \in A
           /\ pc[r] = "sweep" => \E x \in WantedRow(r) : x \in txn[q].held
    <2> TAKE r \in S
    <2>1. PICK q \in S : q \in WaitsFor(r)
      OBVIOUS
    <2>2. r \in Req /\ q \in Req /\ WaitsFor(q) # {}
      OBVIOUS
    <2> WITNESS q \in S
    <2> QED
      BY <2>1, <2>2, WaitedForAndWaiting
  <1>2. \A r \in A \cup B : WantedRow(r) # {} /\ \A x, y \in WantedRow(r) : x = y
    BY <1>1, SweeperWants
  <1>3. ASSUME NEW r \in A
        PROVE  \E q \in A : \E x \in Row, y \in Row :
                  x \in WantedRow(r) /\ y \in WantedRow(q) /\ x < y
    <2>1. PICK q \in S : /\ q \in A \cup B \cup C
                         /\ pc[q] = "user" => txn[q].held \subseteq Reset
                         /\ \E x \in WantedRow(r) : x \in txn[q].held
      BY <1>1
    <2>2. PICK x \in WantedRow(r) : x \in txn[q].held
      BY <2>1
    <2>3. r \in Req /\ q \in Req
      OBVIOUS
    <2>4. x \in Jti /\ x \notin Reset
      BY <2>3, SweeperWants, NamesAssumption DEF Rows
    <2>5. q \in A /\ x \notin Own(job[q])
      BY <2>1, <2>2, <2>3, <2>4, SweeperWants DEF Rows
    <2>6. PICK y \in WantedRow(q) : TRUE
      BY <1>2, <2>5
    <2>7. y \in Jti /\ x < y
      BY <2>2, <2>3, <2>5, <2>6, SweeperWants DEF Rows
    <2> QED
      BY <2>2, <2>4, <2>5, <2>6, <2>7 DEF Row
  <1>4. A = {}
    <2> HIDE DEF A
    <2>1. A \in SUBSET Req
      BY DEF A
    <2> QED
      BY <1>2, <1>3, <2>1, NoSweepCircle
  <1>5. C = {}
    BY <1>1, <1>4
  <1>6. ASSUME NEW r \in B
        PROVE  \E q \in B : \E x \in Row, y \in Row :
                  x \in WantedRow(r) /\ y \in WantedRow(q) /\ x < y
    <2>1. PICK q \in B : \E x \in WantedRow(r) : x \in txn[q].held
      BY <1>1, <1>4, <1>5
    <2>2. PICK x \in WantedRow(r) : x \in txn[q].held
      BY <2>1
    <2>3. r \in Req /\ q \in Req
      OBVIOUS
    <2>4. x \in Reset /\ x \notin Own(job[q])
      BY <2>2, <2>3, SweeperWants DEF Rows
    <2>5. PICK y \in WantedRow(q) : TRUE
      BY <1>2
    <2>6. y \in Reset /\ x < y
      BY <2>2, <2>3, <2>4, <2>5, SweeperWants DEF Rows
    <2> QED
      BY <2>2, <2>4, <2>5, <2>6 DEF Row
  <1>7. B = {}
    <2> HIDE DEF B
    <2>1. B \in SUBSET Req
      BY DEF B
    <2> QED
      BY <1>2, <1>6, <2>1, NoSweepCircle
  <1>8. PICK r \in S : TRUE
    OBVIOUS
  <1> QED
    BY <1>1, <1>4, <1>5, <1>7, <1>8

-----------------------------------------------------------------------------
(* Every step keeps the emails apart.                                      *)

\* Whose patch says what: only a new account has an email in it.
LEMMA PatchOf ==
  ASSUME NEW p, NEW j, NEW x, Shape(p, j, x), j.op \in Op \cup {None}
  PROVE  /\ j.patch.state = "live" => j.op \in {"create", "seed"} /\ j.patch.email \in Email
         /\ j.patch.state # "live" => j.patch.email = None /\ j.patch.state \in {"deleted", None}
         /\ j.patch.pw # None => j.op \in {"change", "reset"} \/ j.patch.state = "live"
         /\ j.patch.role # None \/ j.patch.active # None =>
               j.op \in {"update", "deactivate"} \/ j.patch.state = "live"
         /\ p = "user" => j.patch.state # "live"
  <1> USE NamesAssumption DEF Shape, NoPatch
  <1>1. CASE j.op \in {"create", "seed"}
    BY <1>1 DEF Adding, Op
  <1>2. CASE j.op \in {"update", "deactivate"}
    BY <1>2 DEF Updating, SetsRights, Op
  <1>3. CASE j.op = "delete"
    BY <1>3 DEF Deleting
  <1>4. CASE j.op \in {"change", "reset"}
    BY <1>4 DEF Changing, Resetting, SetsPassword, Op
  <1>5. CASE j.op \in {"login", "refresh", "logout", "logout_all", "forgot", None}
    BY <1>5 DEF Signing, Rotating, Leaving, LeavingAll, Asking, Op
  <1> QED
    BY <1>1, <1>2, <1>3, <1>4, <1>5 DEF Op

\* What a request has written belongs to its own user.
LEMMA WritesItsUser ==
  ASSUME NEW p, NEW j, NEW x, Shape(p, j, x), j.op \in Op \cup {None}, x.user # None
  PROVE  x.user = j.user /\ x.user \in User /\ p \in {"snapshot", "sweep", "commit"}
  <1>1. x.user = j.user /\ p \in {"snapshot", "sweep", "commit"}
    BY DEF Op, Shape, Signing, Rotating, Leaving, LeavingAll, Changing, Asking, Resetting,
           Adding, Updating, Deleting, Empty
  <1>2. x.user \in User
    BY <1>1 DEF Shape, Adding
  <1> QED
    BY <1>1, <1>2

\* A step that writes no table keeps the emails apart if it locks no account, goes on
\* with the one it has, or locks one that nobody else has and does not insert it.
LEMMA EmailStep ==
  ASSUME TypeOK, Emails, NEW r \in Req, NEW next, NEW j, NEW x, Step(r, next, j, x),
         \/ x.user = None
         \/ x.user = txn[r].user /\ j.patch = job[r].patch
         \/ j.patch.state # "live" /\ \A q \in Req \ {r} : txn[q].user # x.user
  PROVE  Emails'
  <1> USE DEF Emails, Step, tables, TypeOK
  <1>1. \A q \in Req : txn'[q] = (IF q = r THEN x ELSE txn[q])
                       /\ job'[q] = (IF q = r THEN j ELSE job[q])
    OBVIOUS
  <1>2. OneWriter'
    BY <1>1 DEF OneWriter
  <1>3. ASSUME NEW q \in Req, Inserts(q)'
        PROVE  Inserts(q) /\ txn'[q].user = txn[q].user /\ job'[q].patch = job[q].patch
    BY <1>1, <1>3 DEF Inserts
  <1>4. InsertsFree'
    BY <1>3 DEF InsertsFree
  <1>5. InsertsApart'
    BY <1>3 DEF InsertsApart
  <1>6. LiveEmailUnique'
    BY DEF LiveEmailUnique
  <1> QED
    BY <1>2, <1>4, <1>5, <1>6

\* An UPDATE of a users row waits for the row, so nobody else writes it.
LEMMA LockUserEmails ==
  ASSUME TypeOK, Shapes, Emails, NEW r \in Req, NEW next, LockUser(r, next)
  PROVE  Emails'
  <1>1. Shape("user", job[r], txn[r]) /\ txn[r] \in Txn /\ job[r].op \in Op \cup {None}
    BY DEF Shapes, TypeOK, LockUser, Job
  <1>2. job[r].patch.state # "live"
    BY <1>1, PatchOf
  <1>3. \A q \in Req \ {r} : txn[q].user # job[r].user
    BY DEF LockUser, WaitsFor, WantedUser
  <1> DEFINE x == [txn[r] EXCEPT !.user = job[r].user]
  <1>4. x.user = job[r].user
    BY <1>1 DEF Txn
  <1> HIDE DEF x
  <1> QED
    BY <1>2, <1>3, <1>4, EmailStep DEF LockUser, x

\* CreateFlush alone inserts: no account in use has the email, and it has waited
\* for the requests that were about to give it away or to take it.
LEMMA CreateFlushEmails ==
  ASSUME TypeOK, Shapes, Emails, NEW r \in Req, CreateFlush(r)
  PROVE  Emails'
  <1> USE DEF Emails, TypeOK
  <1>1. CASE EmailTaken(job[r].patch.email)
    BY <1>1, NoShape, EmailStep DEF CreateFlush, Rollback, Empty
  <1>2. CASE ~EmailTaken(job[r].patch.email)
    <2> PICK u \in User :
          /\ NewUser(u)
          /\ Step(r, "commit", [job[r] EXCEPT !.user = u], [txn[r] EXCEPT !.user = u])
      BY <1>2 DEF CreateFlush
    <2> DEFINE j == [job[r] EXCEPT !.user = u]
               x == [txn[r] EXCEPT !.user = u]
    <2>1. x.user = u /\ j.patch = job[r].patch /\ u # None
      BY NamesAssumption DEF Job, Txn
    <2> HIDE DEF j, x
    <2>2. /\ \A q \in Req : txn'[q] = (IF q = r THEN x ELSE txn[q])
                           /\ job'[q] = (IF q = r THEN j ELSE job[q])
          /\ users' = users
      BY DEF Step, tables, j, x
    <2>3. users[u].state = "absent" /\ \A q \in Req : txn[q].user # u
      BY DEF NewUser
    <2>4. ASSUME NEW q \in Req \ {r}, Inserts(q)
          PROVE  job[q].patch.email # job[r].patch.email
      BY <2>4, NamesAssumption
      DEF CreateFlush, WaitsFor, WantedEmail, EmailWritten, Inserts
    <2>5. \A q \in Req \ {r} : Inserts(q)' = Inserts(q) /\ txn'[q] = txn[q] /\ job'[q] = job[q]
      BY <2>2 DEF Inserts
    <2>6. OneWriter'
      BY <2>1, <2>2, <2>3 DEF OneWriter
    <2>7. InsertsFree'
      <3>1. \A v \in User : users[v].state = "live" => users[v].email # job[r].patch.email
        BY <1>2 DEF EmailTaken
      <3> QED
        BY <2>1, <2>2, <2>3, <2>5, <3>1 DEF InsertsFree
    <2>8. InsertsApart'
      BY <2>1, <2>2, <2>4, <2>5 DEF InsertsApart
    <2>9. LiveEmailUnique'
      BY <2>2 DEF LiveEmailUnique
    <2> QED
      BY <2>6, <2>7, <2>8, <2>9
  <1> QED
    BY <1>1, <1>2

\* The steps that neither insert nor update a user leave his row alone.
LEMMA WorkEmails ==
  ASSUME TypeOK, Shapes, Emails, NEW r \in Req,
         SessionStep(r) \/ PasswordStep(r) \/ AdminStep(r) \/ SweepSnapshot(r) \/ SweepRow(r)
  PROVE  Emails'
  <1>0. /\ Shape(pc[r], job[r], txn[r]) /\ txn[r] \in Txn /\ job[r] \in Job
        /\ job[r].op \in Op \cup {None} /\ NoTxn.user = None
    BY NoShape DEF Shapes, TypeOK, Job, Empty
  <1>1. ASSUME Rollback(r) PROVE Emails'
    BY <1>0, <1>1, EmailStep DEF Rollback
  <1>2. ASSUME NEW next, NEW x, x.user = txn[r].user, Step(r, next, job[r], x)
        PROVE  Emails'
    BY <1>2, EmailStep
  <1>3. \A h, t, m : /\ [txn[r] EXCEPT !.held = h].user = txn[r].user
                     /\ [txn[r] EXCEPT !.mint = m].user = txn[r].user
                     /\ [txn[r] EXCEPT !.todo = t].user = txn[r].user
                     /\ [txn[r] EXCEPT !.held = h, !.todo = t].user = txn[r].user
    BY <1>0 DEF Txn
  <1>4. CASE LoginFlush(r)
    <2> PICK t \in Jti :
          Step(r, "commit", job[r], [txn[r] EXCEPT !.user = job[r].user, !.mint = t])
      BY <1>4 DEF LoginFlush
    <2> DEFINE x == [txn[r] EXCEPT !.user = job[r].user, !.mint = t]
    <2>1. x.user = job[r].user
      BY <1>0 DEF Txn
    <2>2. job[r].patch.state # "live" /\ \A q \in Req \ {r} : txn[q].user # job[r].user
      BY <1>0, <1>4, PatchOf DEF LoginFlush, WaitsFor, WantedUser
    <2> HIDE DEF x
    <2> QED
      BY <2>1, <2>2, EmailStep DEF x
  <1>5. CASE RefreshMint(r) \/ RefreshClaim(r) \/ LogoutFlush(r)
    <2>1. CASE RefreshMint(r)
      BY <1>1, <1>2, <1>3, <2>1 DEF RefreshMint
    <2>2. CASE RefreshClaim(r)
      <3>1. CASE Step(r, "commit", job[r], [txn[r] EXCEPT !.held = {job[r].row}])
        BY <1>2, <1>3, <3>1
      <3>2. CASE Step(r, "snapshot", job[r], NoTxn)
        BY <1>0, <3>2, EmailStep
      <3> QED
        BY <2>2, <3>1, <3>2 DEF RefreshClaim
    <2>3. CASE LogoutFlush(r)
      BY <1>2, <1>3, <2>3 DEF LogoutFlush, LockRow
    <2> QED
      BY <1>5, <2>1, <2>2, <2>3
  <1>6. CASE ForgotInsert(r) \/ ResetOwner(r) \/ ResetMark(r)
    BY <1>1, <1>2, <1>3, <1>6 DEF ForgotInsert, ResetOwner, ResetMark, LockRow
  <1>7. CASE ForgotMail(r)
    <2>1. txn' = txn /\ users' = users /\ job' = [job EXCEPT ![r] = NoJob]
      BY <1>7 DEF ForgotMail
    <2>2. txn[r].user = None
      BY <1>0, <1>7, WritesItsUser DEF ForgotMail
    <2>3. \A q \in Req : Inserts(q)' => q # r /\ Inserts(q) /\ job'[q] = job[q]
      BY <2>1, <2>2 DEF Inserts, TypeOK
    <2> QED
      BY <2>1, <2>3 DEF Emails, OneWriter, InsertsFree, InsertsApart, LiveEmailUnique
  <1>8. CASE ChangeFlush(r) \/ ResetFlush(r) \/ UpdateFlush(r) \/ DeleteFlush(r)
    BY <1>8, LockUserEmails DEF ChangeFlush, ResetFlush, UpdateFlush, DeleteFlush
  <1>9. CASE CreateCheck(r) \/ UpdateLoad(r) \/ DeleteLoad(r)
    <2>1. txn[r].user = None
      BY <1>0, <1>9, WritesItsUser DEF CreateCheck, UpdateLoad, DeleteLoad
    <2>2. ASSUME NEW next, NEW j, Step(r, next, j, txn[r]) PROVE Emails'
      BY <2>1, <2>2, EmailStep
    <2>3. CASE CreateCheck(r)
      BY <1>1, <2>2, <2>3 DEF CreateCheck
    <2>4. CASE UpdateLoad(r)
      BY <1>1, <2>2, <2>4 DEF UpdateLoad
    <2>5. CASE DeleteLoad(r)
      BY <1>1, <2>2, <2>5 DEF DeleteLoad
    <2> QED
      BY <1>9, <2>3, <2>4, <2>5
  <1>10. CASE SweepSnapshot(r) \/ SweepRow(r)
    <2>1. CASE SweepSnapshot(r)
      BY <1>2, <1>3, <2>1 DEF SweepSnapshot
    <2>2. CASE SweepRow(r)
      <3> PICK x \in WantedRow(r) :
            Step(r, IF txn[r].todo = {x} THEN AfterSweep(r) ELSE "sweep", job[r],
                 [txn[r] EXCEPT !.held = @ \cup {x}, !.todo = @ \ {x}])
        BY <2>2 DEF SweepRow
      <3> QED
        BY <1>2, <1>3
    <2> QED
      BY <1>10, <2>1, <2>2
  <1>11. CASE CreateFlush(r)
    BY <1>11, CreateFlushEmails
  <1> QED
    BY <1>4, <1>5, <1>6, <1>7, <1>8, <1>9, <1>10, <1>11 DEF SessionStep, PasswordStep, AdminStep

\* What a commit does to the users.
LEMMA CommitUsers ==
  ASSUME TypeOK, Shapes, Emails, NEW r \in Req, Commit(r)
  PROVE  /\ \A v \in User : v # txn[r].user => users'[v] = users[v]
         /\ txn[r].user # None =>
               LET v == txn[r].user
                   p == job[r].patch
               IN  /\ v \in User /\ v = job[r].user /\ users'[v] = Patched(users[v], p)
                   /\ p.state = "live" =>
                        /\ users'[v].state = "live" /\ users'[v].email = p.email
                        /\ users[v].state = "absent"
                   /\ p.state # "live" =>
                        /\ users'[v].email = users[v].email
                        /\ users'[v].state \in {users[v].state, "deleted"}
  <1>1. Shape(pc[r], job[r], txn[r]) /\ job[r].op \in Op \cup {None}
    BY DEF Shapes, TypeOK, Job
  <1>2. \A v \in User : users'[v] = IF v = txn[r].user THEN Patched(users[v], job[r].patch)
                                                     ELSE users[v]
    BY DEF Commit
  <1>3. ASSUME txn[r].user # None
        PROVE  LET v == txn[r].user
                   p == job[r].patch
               IN  /\ v \in User /\ v = job[r].user /\ users'[v] = Patched(users[v], p)
                   /\ p.state = "live" =>
                        /\ users'[v].state = "live" /\ users'[v].email = p.email
                        /\ users[v].state = "absent"
                   /\ p.state # "live" =>
                        /\ users'[v].email = users[v].email
                        /\ users'[v].state \in {users[v].state, "deleted"}
    <2> DEFINE v == txn[r].user
               p == job[r].patch
    <2>1. v \in User /\ v = job[r].user
      BY <1>1, <1>3, WritesItsUser
    <2>2. users'[v] = Patched(users[v], p)
      BY <1>2, <2>1
    <2>3. p.state = "live" => p.email # None /\ users[v].state = "absent"
      BY <1>1, <1>3, PatchOf, NamesAssumption DEF Emails, InsertsFree, Inserts
    <2>4. p.state # "live" => p.email = None /\ p.state \in {"deleted", None}
      BY <1>1, PatchOf
    <2> QED
      BY <2>1, <2>2, <2>3, <2>4, NamesAssumption DEF Patched
  <1> QED
    BY <1>2, <1>3

\* A commit writes one account: an INSERT has waited for every holder of its email, and
\* no other write gives an account an email.
LEMMA CommitEmails ==
  ASSUME TypeOK, Shapes, Emails, NEW r \in Req, Commit(r)
  PROVE  Emails'
  <1> USE DEF Emails, TypeOK
  <1> DEFINE u == txn[r].user
             p == job[r].patch
  <1>1. /\ \A v \in User : v # u => users'[v] = users[v]
        /\ u # None =>
              /\ u \in User
              /\ p.state = "live" => /\ users'[u].state = "live" /\ users'[u].email = p.email
                                    /\ users[u].state = "absent"
              /\ p.state # "live" => /\ users'[u].email = users[u].email
                                    /\ users'[u].state \in {users[u].state, "deleted"}
    BY CommitUsers
  <1>2. \A q \in Req : txn'[q].user # None =>
           q # r /\ txn'[q] = txn[q] /\ job'[q].patch = job[q].patch
    <2>1. txn' = [txn EXCEPT ![r] = NoTxn] /\ \A q \in Req \ {r} : job'[q] = job[q]
      BY DEF Commit
    <2> QED
      BY <2>1, NoShape DEF Empty
  <1>3. \A q \in Req : Inserts(q)' =>
           q # r /\ Inserts(q) /\ txn'[q] = txn[q] /\ job'[q].patch = job[q].patch
    BY <1>2 DEF Inserts
  <1>4. OneWriter'
    BY <1>2 DEF OneWriter
  <1>5. InsertsApart'
    BY <1>3 DEF InsertsApart
  <1>6. InsertsFree'
    <2> SUFFICES ASSUME NEW q \in Req, Inserts(q)'
                 PROVE  /\ users'[txn'[q].user].state = "absent"
                        /\ \A v \in User :
                              users'[v].state = "live" => users'[v].email # job'[q].patch.email
      BY DEF InsertsFree
    <2>1. /\ q # r /\ Inserts(q) /\ txn'[q] = txn[q] /\ job'[q].patch = job[q].patch
          /\ txn[q].user # u
      BY <1>3 DEF OneWriter, Inserts
    <2>2. txn[q].user \in User
      BY <2>1 DEF Inserts, Txn
    <2>3. users'[txn[q].user].state = "absent"
      BY <1>1, <2>1, <2>2 DEF InsertsFree
    <2>4. ASSUME NEW v \in User, users'[v].state = "live"
          PROVE  users'[v].email # job[q].patch.email
      <3>1. CASE v # u
        BY <1>1, <2>1, <2>4, <3>1 DEF InsertsFree
      <3>2. CASE v = u /\ p.state = "live"
        BY <1>1, <2>1, <3>2, NamesAssumption DEF InsertsApart, Inserts
      <3>3. CASE v = u /\ p.state # "live"
        BY <1>1, <2>1, <2>4, <3>3, NamesAssumption DEF InsertsFree
      <3> QED
        BY <3>1, <3>2, <3>3
    <2> QED
      BY <2>1, <2>3, <2>4
  <1>7. LiveEmailUnique'
    <2>1. \A v \in User : users'[v].state = "live" =>
             \/ users[v].state = "live" /\ users'[v].email = users[v].email
             \/ v = u /\ Inserts(r) /\ users'[v].email = p.email
      BY <1>1, NamesAssumption DEF Inserts
    <2> QED
      BY <2>1 DEF LiveEmailUnique, InsertsFree
  <1> QED
    BY <1>4, <1>5, <1>6, <1>7

\* A request that begins has written nothing.
LEMMA StartEmails ==
  ASSUME TypeOK, Emails, NEW r \in Req, Start(r) \/ Abort(r)
  PROVE  Emails'
  <1>1. NoTxn.user = None
    BY NoShape DEF Empty
  <1>2. ASSUME NEW next, NEW j, Step(r, next, j, NoTxn) PROVE Emails'
    BY <1>1, <1>2, EmailStep
  <1>3. CASE SessionBegin(r)
    BY <1>2, <1>3 DEF SessionBegin, LoginRead, RefreshRead, LogoutRead, LogoutAllRead, Begin
  <1>4. CASE PasswordBegin(r)
    BY <1>2, <1>4 DEF PasswordBegin, ChangeRead, ForgotRead, ResetRead, Begin
  <1>5. CASE AdminBegin(r)
    BY <1>2, <1>5 DEF AdminBegin, AdminRead, SeedRead, Begin
  <1>6. CASE Abort(r)
    BY <1>2, <1>6 DEF Abort, Rollback
  <1> QED
    BY <1>3, <1>4, <1>5, <1>6 DEF Start

\* Every step keeps the emails of accounts in use, and of those to be, apart.
LEMMA NextEmails ==
  ASSUME TypeOK, Shapes, Emails, [Next]_vars
  PROVE  Emails'
  <1>1. CASE UNCHANGED vars
    BY <1>1 DEF vars, Emails, OneWriter, InsertsFree, InsertsApart, Inserts, LiveEmailUnique
  <1>2. ASSUME NEW r \in Req, Start(r) \/ Work(r) \/ Abort(r)
        PROVE  Emails'
    BY <1>2, StartEmails, WorkEmails, CommitEmails DEF Work
  <1>3. ASSUME NEW y \in Row, Expire(y)
        PROVE  Emails'
    BY <1>3 DEF Expire, Emails, OneWriter, InsertsFree, InsertsApart, Inserts, LiveEmailUnique
  <1> QED
    BY <1>1, <1>2, <1>3 DEF Next

\* Nothing but a commit writes users, and nothing but a commit and the mail after
\* it the links.
LEMMA OnlyCommitWritesUsers ==
  ASSUME NEW r \in Req, Start(r) \/ Work(r) \/ Abort(r), ~Commit(r)
  PROVE  UNCHANGED users /\ (UNCHANGED resets \/ ForgotMail(r))
  <1>1. CASE Start(r)
    BY <1>1
    DEF Start, SessionBegin, PasswordBegin, AdminBegin, LoginRead, RefreshRead, LogoutRead,
        LogoutAllRead, ChangeRead, ForgotRead, ResetRead, AdminRead, SeedRead, Begin, Step,
        tables
  <1>2. CASE SessionStep(r) \/ PasswordStep(r)
    BY <1>2
    DEF SessionStep, PasswordStep, LoginFlush, RefreshMint, RefreshClaim, LogoutFlush,
        ChangeFlush, ForgotInsert, ForgotMail, ResetOwner, ResetMark, ResetFlush,
        LockUser, LockRow, Rollback, Step, tables
  <1>3. CASE AdminStep(r)
    BY <1>3
    DEF AdminStep, CreateCheck, CreateFlush, UpdateLoad, UpdateFlush, DeleteLoad,
        DeleteFlush, LockUser, Rollback, Step, tables
  <1>4. CASE SweepSnapshot(r) \/ SweepRow(r) \/ Abort(r)
    BY <1>4 DEF SweepSnapshot, SweepRow, Abort, Rollback, Step, tables
  <1> QED
    BY <1>1, <1>2, <1>3, <1>4 DEF Work

\* A link that can be used belongs to an account.
LEMMA NextLinks ==
  ASSUME TypeOK, Shapes, LinksOwned, [Next]_vars
  PROVE  LinksOwned'
  <1>1. CASE UNCHANGED resets
    BY <1>1 DEF LinksOwned
  <1>2. ASSUME NEW r \in Req, Commit(r)
        PROVE  LinksOwned'
    <2>1. Shape(pc[r], job[r], txn[r]) /\ job[r].op \in Op \cup {None}
      BY DEF Shapes, TypeOK, Job
    <2>2. txn[r].mint \in Reset => job[r].user \in User
      <3>1. txn[r].mint \in Reset => job[r].op \in {"login", "refresh", "forgot"}
        BY <2>1, NamesAssumption
        DEF Op, Row, Shape, Empty, OrderlySweep, Leaving, LeavingAll, Changing, Resetting,
            Adding, Updating, Deleting
      <3> QED
        BY <2>1, <3>1, NamesAssumption DEF Shape, Op
    <2>3. \A l \in Reset : resets'[l] = IF l = txn[r].mint THEN MintedReset(r)
                                        ELSE IF l \in txn[r].held THEN UsedReset(r, l)
                                        ELSE resets[l]
      BY <1>2 DEF Commit
    <2>4. \A l \in Reset : l \in txn[r].held => UsedReset(r, l).state = "used"
      BY DEF UsedReset, TypeOK, ResetRow
    <2> QED
      BY <2>2, <2>3, <2>4 DEF LinksOwned, MintedReset
  <1>3. ASSUME NEW r \in Req, ForgotMail(r)
        PROVE  LinksOwned'
    BY <1>3 DEF ForgotMail, LinksOwned, TypeOK, ResetRow
  <1> QED
    BY <1>1, <1>2, <1>3, OnlyCommitWritesUsers DEF Next, Expire, vars

-----------------------------------------------------------------------------
(* The theorems.                                                           *)

\* At the start no request has begun and the emails are as in Table0.
LEMMA InitAInv == Init => AInv
  <1> SUFFICES ASSUME Init PROVE AInv
    OBVIOUS
  <1>1. Shapes
    BY NoShape DEF Init, Shapes
  <1>2. LinksOwned
    BY DEF Init, LinksOwned, NoReset
  <1>3. Emails
    <2>1. \A r \in Req : txn[r].user = None
      BY NoShape DEF Init, Empty
    <2>2. LiveEmailUnique
      BY Table0Assumption DEF Init, LiveEmailUnique
    <2> QED
      BY <2>1, <2>2 DEF Emails, OneWriter, InsertsFree, InsertsApart, Inserts
  <1> QED
    BY <1>1, <1>2, <1>3, InitIInv DEF AInv

\* Every step of every request preserves AInv.
LEMMA NextAInv == AInv /\ [Next]_vars => AInv'
  BY NextIInv, NextShape, NextLinks, NextEmails DEF AInv, IInv

\* The inductive invariant: every request has the shape of its endpoint, each row
\* of users has one writer, and no two requests insert one email.
THEOREM SpecAInv == Spec => []AInv
  BY InitAInv, NextAInv, PTL DEF Spec

\* Two accounts in use never have the same email, however creations, deletions,
\* rollbacks and seeds interleave.
THEOREM NoEmailTwice == Spec => []LiveEmailUnique
  <1>1. AInv => LiveEmailUnique
    BY DEF AInv, Emails
  <1> QED
    BY <1>1, SpecAInv, PTL

\* Requests never wait for each other in a circle, however many there are:
\* PostgreSQL has no deadlock to break among the endpoints for accounts.
THEOREM NoDeadlock == Spec => []NoWaitCycle
  <1>1. AInv => NoWaitCycle
    BY NoCircle DEF AInv, IInv
  <1> QED
    BY <1>1, SpecAInv, PTL

\* A step writes of an account only what its request was asked to change.
LEMMA CommitColumns ==
  ASSUME AInv, NEW r \in Req, Commit(r)
  PROVE  OwnColumnsOnly
  <1> USE DEF AInv, IInv
  <1> DEFINE v == txn[r].user
             p == job[r].patch
  <1>1. /\ \A u \in User : u # v => users'[u] = users[u]
        /\ v # None =>
              /\ v = job[r].user /\ users'[v] = Patched(users[v], p)
              /\ p.state = "live" => users[v].state = "absent"
              /\ p.state # "live" => users'[v].state \in {users[v].state, "deleted"}
    BY CommitUsers
  <1>2. /\ p.pw # None => job[r].op \in {"change", "reset"} \/ p.state = "live"
        /\ p.role # None \/ p.active # None =>
              job[r].op \in {"update", "deactivate"} \/ p.state = "live"
    <2>1. Shape(pc[r], job[r], txn[r]) /\ job[r].op \in Op \cup {None}
      BY DEF Shapes, TypeOK, Job
    <2> QED
      BY <2>1, PatchOf
  <1>3. pc[r] = "commit"
    BY DEF Commit
  <1> SUFFICES ASSUME NEW u \in User, u = v
               PROVE  /\ (users[u].state # "absent" /\ users'[u].pw # users[u].pw) =>
                            /\ job[r].op \in {"change", "reset"}
                            /\ job[r].user = u /\ users'[u].pw = p.pw
                      /\ (users[u].state # "absent"
                            /\ <<users'[u].role, users'[u].active>>
                                  # <<users[u].role, users[u].active>>) =>
                            job[r].op \in {"update", "deactivate"} /\ job[r].user = u
                      /\ users[u].state = "deleted" => users'[u].state = "deleted"
    BY <1>1, <1>3 DEF OwnColumnsOnly
  <1>4. /\ users'[u].pw = IF p.pw = None THEN users[u].pw ELSE p.pw
        /\ users'[u].role = IF p.role = None THEN users[u].role ELSE p.role
        /\ users'[u].active = IF p.active = None THEN users[u].active ELSE p.active
    BY <1>1, NamesAssumption DEF Patched
  <1>5. u # None
    BY NamesAssumption
  <1> QED
    BY <1>1, <1>2, <1>4, <1>5

\* No flush writes back a column that another request changed, and no commit
\* brings a deleted account back.
THEOREM NoStaleWrite == Spec => ColumnIsolation
  <1>1. ASSUME UNCHANGED users
        PROVE  OwnColumnsOnly
    BY <1>1 DEF OwnColumnsOnly
  <1>2. AInv /\ [Next]_vars => [OwnColumnsOnly]_vars
    BY <1>1, CommitColumns, OnlyCommitWritesUsers DEF Next, Expire
  <1> QED
    BY <1>2, SpecAInv, PTL DEF Spec, ColumnIsolation
=============================================================================
