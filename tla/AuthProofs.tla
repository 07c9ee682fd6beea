------------------------------ MODULE AuthProofs ------------------------------
(***************************************************************************)
(* Theorems about the authentication service, for any number of users,     *)
(* tokens, links and concurrent requests.                                  *)
(***************************************************************************)
EXTENDS AuthInvariant, TLAPS

-----------------------------------------------------------------------------
(* Rows and values.                                                        *)

\* An idle transaction conforms to everything.
LEMMA NoTxnTyped == NoTxn \in Txn /\ NoTxn.held = {} /\ NoTxn.todo = {} /\ NoTxn.mint \notin Jti
  BY NamesAssumption DEF NoTxn, Txn, Row

\* So does the empty job.
LEMMA NoJobTyped == NoJob \in Job /\ NoPatch \in Patch
  BY DEF NoJob, NoPatch, Job, Patch

LEMMA InitIInv == Init => IInv
  <1> SUFFICES ASSUME Init PROVE IInv
    OBVIOUS
  <1> USE DEF Init
  <1>1. TypeOK
    <2>1. users \in [User -> UserRow]
      BY Table0Assumption
    <2>2. tokens \in [Jti -> TokenRow] /\ resets \in [Reset -> ResetRow]
      BY DEF NoToken, TokenRow, NoReset, ResetRow, MaxUses
    <2> QED
      BY <2>1, <2>2, NoTxnTyped, NoJobTyped DEF TypeOK, Pc
  <1>2. \A r \in Req : WellFormed(pc[r], job[r], txn[r])
    BY NamesAssumption, NoTxnTyped DEF WellFormed, NoJob, Op, Row
  <1>3. Exclusive
    BY NoTxnTyped DEF Exclusive
  <1>4. TokenRows /\ OneLivePerLineage /\ RotationChain
    BY DEF TokenRows, OneLivePerLineage, RotationChain, NoToken
  <1> QED
    BY <1>1, <1>2, <1>3, <1>4 DEF IInv

-----------------------------------------------------------------------------
(* Steps that commit nothing.                                              *)

\* The tables stay, so only request r's own part of the invariant is at stake.
LEMMA StepIInv ==
  ASSUME IInv, NEW r \in Req, NEW next \in Pc, NEW j \in Job, NEW x \in Txn,
         Step(r, next, j, x), WellFormed(next, j, x),
         \A q \in Req \ {r} : /\ x.held \cap txn[q].held = {}
                              /\ x.mint \in Jti => x.mint # txn[q].mint
  PROVE  IInv'
  <1> USE DEF IInv, Step, tables
  <1>1. TypeOK'
    BY DEF TypeOK
  <1>2. ASSUME NEW q \in Req PROVE WellFormed(pc[q], job[q], txn[q])'
    <2>1. CASE q = r
      BY <2>1 DEF WellFormed, TypeOK
    <2>2. CASE q # r
      BY <2>2 DEF WellFormed, TypeOK
    <2> QED
      BY <2>1, <2>2
  <1>3. Exclusive'
    BY DEF Exclusive, TypeOK
  <1>4. TokenRows' /\ OneLivePerLineage' /\ RotationChain'
    BY DEF TokenRows, OneLivePerLineage, RotationChain
  <1> QED
    BY <1>1, <1>2, <1>3, <1>4

LEMMA RollbackIInv ==
  ASSUME IInv, NEW r \in Req, Rollback(r)
  PROVE  IInv'
  <1>1. WellFormed("idle", NoJob, NoTxn)
    BY NoTxnTyped, NamesAssumption DEF WellFormed, NoJob, Op, Row
  <1> QED
    BY <1>1, StepIInv, NoTxnTyped, NoJobTyped DEF Rollback, Pc

LEMMA BeginIInv ==
  ASSUME IInv, NEW r \in Req, NEW op, NEW next \in Pc, NEW j \in Job,
         Begin(r, op, next, j), WellFormed(next, j, NoTxn)
  PROVE  IInv'
  BY StepIInv, NoTxnTyped DEF Begin

\* Requests that neither log in nor refresh conform as long as the tokens they
\* touch exist.
LEMMA OtherWellFormed ==
  ASSUME NEW p, NEW j, NEW x,
         j.op \notin {"login", "refresh"}, p # "claim", p = "link" => j.op = "forgot",
         p = "owner" => x.held = {}, j.row \in Jti => tokens[j.row].state # "absent",
         j.op \in {"logout", "reset"} => j.row \in Row,
         x.mint \notin Jti,
         \A t \in Jti : t \in x.held \cup x.todo => tokens[t].state # "absent"
  PROVE  WellFormed(p, j, x)
  BY DEF WellFormed

LEMMA StartIInv ==
  ASSUME IInv, NEW r \in Req, Start(r)
  PROVE  IInv'
  <1> USE NoTxnTyped, NoJobTyped
  <1>0. TypeOK
    BY DEF IInv
  <1>1. CASE LoginRead(r)
    <2> PICK u \in User :
          Begin(r, "login", "user",
                [NoJob EXCEPT !.op = "login", !.user = u, !.pw = users[u].pw])
      BY <1>1 DEF LoginRead
    <2> DEFINE j == [NoJob EXCEPT !.op = "login", !.user = u, !.pw = users[u].pw]
    <2>1. j \in Job
      BY <1>0 DEF TypeOK, UserRow, Job, Op
    <2>2. WellFormed("user", j, NoTxn)
      BY NamesAssumption DEF WellFormed, NoJob, Row
    <2> QED
      BY <2>1, <2>2, BeginIInv DEF Pc
  <1>2. CASE RefreshRead(r)
    <2> PICK t \in Jti :
          /\ tokens[t].state # "absent"
          /\ Begin(r, "refresh", "owner",
                   [NoJob EXCEPT !.op = "refresh", !.row = t, !.user = tokens[t].user])
      BY <1>2 DEF RefreshRead
    <2> DEFINE j == [NoJob EXCEPT !.op = "refresh", !.row = t, !.user = tokens[t].user]
    <2>1. j \in Job
      BY <1>0 DEF TypeOK, TokenRow, Job, Op, Row
    <2>2. WellFormed("owner", j, NoTxn)
      BY DEF WellFormed, NoJob
    <2> QED
      BY <2>1, <2>2, BeginIInv DEF Pc
  <1>3. CASE LogoutRead(r)
    <2> PICK t \in Jti :
          /\ tokens[t].state = "live"
          /\ Begin(r, "logout", "mark",
                   [NoJob EXCEPT !.op = "logout", !.row = t, !.user = tokens[t].user])
      BY <1>3 DEF LogoutRead
    <2> DEFINE j == [NoJob EXCEPT !.op = "logout", !.row = t, !.user = tokens[t].user]
    <2>1. j \in Job /\ j.op = "logout" /\ j.row = t
      BY <1>0 DEF TypeOK, TokenRow, Job, Op, Row, NoJob
    <2>2. WellFormed("mark", j, NoTxn)
      BY <2>1, OtherWellFormed, NamesAssumption DEF Row
    <2> QED
      BY <2>1, <2>2, BeginIInv DEF Pc
  <1>4. CASE LogoutAllRead(r)
    <2> PICK u \in User :
          Begin(r, "logout_all", "snapshot", [NoJob EXCEPT !.op = "logout_all", !.user = u])
      BY <1>4 DEF LogoutAllRead
    <2> DEFINE j == [NoJob EXCEPT !.op = "logout_all", !.user = u]
    <2>1. j \in Job /\ j.op = "logout_all" /\ j.row = None
      BY DEF Job, Op, NoJob
    <2>2. WellFormed("snapshot", j, NoTxn)
      BY <2>1, OtherWellFormed, NamesAssumption DEF Row
    <2> QED
      BY <2>1, <2>2, BeginIInv DEF Pc
  <1>5. CASE ChangeRead(r)
    <2> PICK u \in User, p \in Password :
          Begin(r, "change", "user",
                [NoJob EXCEPT !.op = "change", !.user = u,
                              !.patch = [NoPatch EXCEPT !.pw = p]])
      BY <1>5 DEF ChangeRead
    <2> DEFINE j == [NoJob EXCEPT !.op = "change", !.user = u,
                                  !.patch = [NoPatch EXCEPT !.pw = p]]
    <2>1. j \in Job /\ j.op = "change" /\ j.row = None
      <3>1. [NoPatch EXCEPT !.pw = p] \in Patch
        BY DEF Patch
      <3> QED
        BY <3>1 DEF Job, Op, NoJob
    <2>2. WellFormed("user", j, NoTxn)
      BY <2>1, OtherWellFormed, NamesAssumption DEF Row
    <2> QED
      BY <2>1, <2>2, BeginIInv DEF Pc
  <1>6. CASE ForgotRead(r)
    <2> PICK u \in User :
          Begin(r, "forgot", "snapshot", [NoJob EXCEPT !.op = "forgot", !.user = u])
      BY <1>6 DEF ForgotRead
    <2> DEFINE j == [NoJob EXCEPT !.op = "forgot", !.user = u]
    <2>1. j \in Job /\ j.op = "forgot" /\ j.row = None
      BY DEF Job, Op, NoJob
    <2>2. WellFormed("snapshot", j, NoTxn)
      BY <2>1, OtherWellFormed, NamesAssumption DEF Row
    <2> QED
      BY <2>1, <2>2, BeginIInv DEF Pc
  <1>7. CASE ResetRead(r)
    <2> PICK l \in Reset, p \in Password :
          Begin(r, "reset", "owner",
                [NoJob EXCEPT !.op = "reset", !.row = l, !.user = resets[l].user,
                              !.patch = [NoPatch EXCEPT !.pw = p]])
      BY <1>7 DEF ResetRead
    <2> DEFINE j == [NoJob EXCEPT !.op = "reset", !.row = l, !.user = resets[l].user,
                                  !.patch = [NoPatch EXCEPT !.pw = p]]
    <2>1. j \in Job /\ j.op = "reset" /\ j.row = l
      <3>1. [NoPatch EXCEPT !.pw = p] \in Patch
        BY DEF Patch
      <3>2. resets[l].user \in User \cup {None}
        BY <1>0 DEF TypeOK, ResetRow
      <3> QED
        BY <3>1, <3>2 DEF Job, Op, NoJob, Row
    <2>2. WellFormed("owner", j, NoTxn)
      BY <2>1, OtherWellFormed, NamesAssumption DEF Row
    <2> QED
      BY <2>1, <2>2, BeginIInv DEF Pc
  <1>8. CASE AdminRead(r)
    <2> PICK a \in User, op \in {"create", "update", "delete"} :
          Begin(r, op, "load", [NoJob EXCEPT !.op = op, !.user = a])
      BY <1>8 DEF AdminRead
    <2> DEFINE j == [NoJob EXCEPT !.op = op, !.user = a]
    <2>1. j \in Job /\ j.op = op /\ j.row = None
      BY DEF Job, Op, NoJob
    <2>2. WellFormed("load", j, NoTxn)
      BY <2>1, OtherWellFormed, NamesAssumption DEF Row
    <2> QED
      BY <2>1, <2>2, BeginIInv DEF Pc
  <1>9. CASE SeedRead(r)
    <2> DEFINE patch(p) == [state |-> "live", email |-> FIRST_SUPERUSER_EMAIL,
                            pw |-> p, role |-> "admin", active |-> TRUE]
    <2> PICK p \in Given :
          Begin(r, "seed", "insert", [NoJob EXCEPT !.op = "seed", !.patch = patch(p)])
      BY <1>9 DEF SeedRead
    <2> DEFINE j == [NoJob EXCEPT !.op = "seed", !.patch = patch(p)]
    <2>1. j \in Job /\ j.op = "seed" /\ j.row = None
      <3>1. patch(p) \in Patch
        BY GivenAssumption, SuperuserAssumption DEF Patch, Role
      <3> QED
        BY <3>1 DEF Job, Op, NoJob
    <2>2. WellFormed("insert", j, NoTxn)
      BY <2>1, OtherWellFormed, NamesAssumption DEF Row
    <2> QED
      BY <2>1, <2>2, BeginIInv DEF Pc
  <1> QED
    BY <1>1, <1>2, <1>3, <1>4, <1>5, <1>6, <1>7, <1>8, <1>9, Start(r)
    DEF Start, SessionBegin, PasswordBegin, AdminBegin

-----------------------------------------------------------------------------
(* Work that commits nothing.                                              *)

\* What the invariant says of request r alone.
LEMMA OwnPart ==
  ASSUME IInv, NEW r \in Req
  PROVE  /\ pc[r] \in Pc /\ job[r] \in Job /\ txn[r] \in Txn
         /\ WellFormed(pc[r], job[r], txn[r])
         /\ job[r].op \notin {"login", "refresh"} => txn[r].mint \notin Jti
         /\ job[r].op \in {"logout", "reset"} => job[r].row \in Row
         /\ \A q \in Req \ {r} :
               /\ txn[r].held \cap txn[q].held = {}
               /\ txn[r].mint \in Jti => txn[r].mint # txn[q].mint
  BY DEF IInv, TypeOK, WellFormed, Exclusive

\* Steps of the other endpoints that touch no row of refresh_tokens.
LEMMA OtherStepIInv ==
  ASSUME IInv, NEW r \in Req, NEW next \in Pc \ {"claim", "owner"}, NEW j \in Job,
         NEW x \in Txn, Step(r, next, j, x), next = "link" => j.op = "forgot",
         j.op \notin {"login", "refresh"}, j.row = job[r].row,
         j.op \in {"logout", "reset"} => j.row \in Row,
         x.held = txn[r].held, x.todo = txn[r].todo, x.mint \notin Jti
  PROVE  IInv'
  <1>1. /\ j.row \in Jti => tokens[j.row].state # "absent"
        /\ \A t \in Jti : t \in x.held \cup x.todo => tokens[t].state # "absent"
    BY OwnPart DEF WellFormed
  <1>2. WellFormed(next, j, x)
    BY <1>1, OtherWellFormed
  <1> QED
    BY <1>2, OwnPart, StepIInv

\* An UPDATE of users.
LEMMA LockUserIInv ==
  ASSUME IInv, NEW r \in Req, NEW next \in {"snapshot", "commit"},
         job[r].op \notin {"login", "refresh"}, LockUser(r, next)
  PROVE  IInv'
  <1> DEFINE x == [txn[r] EXCEPT !.user = job[r].user]
  <1>1. /\ x \in Txn /\ x.held = txn[r].held /\ x.todo = txn[r].todo
        /\ x.mint = txn[r].mint
    BY OwnPart DEF Txn, Job
  <1>2. next \in Pc \ {"claim", "owner"} /\ next # "link"
    BY DEF Pc
  <1>3. Step(r, next, job[r], x)
    BY DEF LockUser
  <1> HIDE DEF x
  <1> QED
    BY <1>1, <1>2, <1>3, OwnPart, OtherStepIInv

\* The rows a request waits for are nobody's once it waits for nobody.
LEMMA WantedIsFree ==
  ASSUME NEW r \in Req, WaitsFor(r) = {}, NEW y \in WantedRow(r)
  PROVE  \A q \in Req \ {r} : y \notin txn[q].held
  BY DEF WaitsFor

\* An UPDATE of the token or link presented.
LEMMA LockRowIInv ==
  ASSUME IInv, NEW r \in Req, NEW next \in {"user", "commit"},
         job[r].op \in {"logout", "reset"}, LockRow(r, next)
  PROVE  IInv'
  <1> DEFINE x == [txn[r] EXCEPT !.held = @ \cup {job[r].row}]
  <1>1. Step(r, next, job[r], x) /\ pc[r] = "mark" /\ WaitsFor(r) = {}
    BY DEF LockRow
  <1>2. \A q \in Req \ {r} : job[r].row \notin txn[q].held
    BY <1>1, WantedIsFree DEF WantedRow
  <1>3. job[r].row \in Row
    BY OwnPart DEF WellFormed
  <1>4. /\ x \in Txn /\ x.held = txn[r].held \cup {job[r].row}
        /\ x.todo = txn[r].todo /\ x.mint = txn[r].mint /\ x.mint \notin Jti
    BY <1>3, OwnPart DEF Txn
  <1> HIDE DEF x
  <1>5. WellFormed(next, job[r], x)
    <2>1. \A t \in Jti : t \in x.held \cup x.todo => tokens[t].state # "absent"
      BY <1>4, OwnPart DEF WellFormed
    <2>2. job[r].row \in Jti => tokens[job[r].row].state # "absent"
      BY OwnPart DEF WellFormed
    <2> QED
      BY <1>3, <1>4, <2>1, <2>2, OtherWellFormed
  <1>6. \A q \in Req \ {r} : x.held \cap txn[q].held = {}
    BY <1>2, <1>4, OwnPart
  <1> QED
    BY <1>1, <1>4, <1>5, <1>6, OwnPart, StepIInv DEF Pc

\* A new name is nobody's.
LEMMA NewName ==
  ASSUME NEW S \in SUBSET Row, NEW y \in S, IsNew(y, S)
  PROVE  /\ y \in Jti => tokens[y].state = "absent"
         /\ \A q \in Req : txn[q].mint # y
  BY DEF IsNew, Unused, Absent

LEMMA SessionStepIInv ==
  ASSUME IInv, NEW r \in Req, SessionStep(r)
  PROVE  IInv'
  <1>1. CASE LoginFlush(r)
    <2>0. PICK t \in Jti :
          /\ IsNew(t, Jti)
          /\ Step(r, "commit", job[r], [txn[r] EXCEPT !.user = job[r].user, !.mint = t])
      BY <1>1 DEF LoginFlush
    <2> DEFINE x == [txn[r] EXCEPT !.user = job[r].user, !.mint = t]
    <2>1. /\ x \in Txn /\ x.held = txn[r].held /\ x.todo = txn[r].todo /\ x.mint = t
      BY <2>0, OwnPart DEF Txn, Job, Row
    <2>2. Step(r, "commit", job[r], x)
      BY <2>0
    <2> HIDE DEF x
    <2>3. tokens[t].state = "absent" /\ \A q \in Req : txn[q].mint # t
      BY <2>0, NewName DEF Row
    <2>4. WellFormed("commit", job[r], x)
      <3>1. pc[r] = "user" /\ job[r].op = "login"
        BY <1>1 DEF LoginFlush
      <3>2. /\ job[r].row = None /\ job[r].user \in User /\ txn[r].held = {}
            /\ job[r].row \in Jti => tokens[job[r].row].state # "absent"
            /\ \A y \in Jti : y \in txn[r].todo => tokens[y].state # "absent"
        BY <3>1, OwnPart DEF WellFormed
      <3> QED
        BY <2>1, <2>3, <3>1, <3>2, NamesAssumption DEF WellFormed, Row
    <2>5. \A q \in Req \ {r} : /\ x.held \cap txn[q].held = {}
                               /\ x.mint \in Jti => x.mint # txn[q].mint
      BY <2>1, <2>3, OwnPart
    <2>6. job[r] \in Job
      BY OwnPart
    <2> QED
      BY <2>1, <2>2, <2>4, <2>5, <2>6, StepIInv DEF Pc
  <1>2. CASE RefreshMint(r) /\ ~Rollback(r)
    <2>0. PICK t \in Jti :
          IsNew(t, Jti) /\ Step(r, "claim", job[r], [txn[r] EXCEPT !.mint = t])
      BY <1>2 DEF RefreshMint
    <2> DEFINE x == [txn[r] EXCEPT !.mint = t]
    <2>1. /\ x \in Txn /\ x.held = txn[r].held /\ x.todo = txn[r].todo /\ x.mint = t
      BY <2>0, OwnPart DEF Txn, Row
    <2>2. Step(r, "claim", job[r], x)
      BY <2>0
    <2> HIDE DEF x
    <2>3. tokens[t].state = "absent" /\ \A q \in Req : txn[q].mint # t
      BY <2>0, NewName DEF Row
    <2>4. job[r].user \in User
      BY <1>2, OwnPart DEF RefreshMint, IInv, TokenRows, WellFormed
    <2>5. WellFormed("claim", job[r], x)
      <3>1. pc[r] = "owner" /\ job[r].op = "refresh"
        BY <1>2 DEF RefreshMint
      <3>2. /\ job[r].row \in Jti /\ tokens[job[r].row].user = job[r].user
            /\ tokens[job[r].row].state # "absent" /\ txn[r].held = {}
            /\ \A y \in Jti : y \in txn[r].todo => tokens[y].state # "absent"
        BY <3>1, OwnPart DEF WellFormed
      <3> QED
        BY <2>1, <2>3, <2>4, <3>1, <3>2 DEF WellFormed
    <2>6. \A q \in Req \ {r} : /\ x.held \cap txn[q].held = {}
                               /\ x.mint \in Jti => x.mint # txn[q].mint
      BY <2>1, <2>3, OwnPart
    <2>7. job[r] \in Job
      BY OwnPart
    <2> QED
      BY <2>1, <2>2, <2>5, <2>6, <2>7, StepIInv DEF Pc
  <1>3. CASE RefreshClaim(r) /\ tokens[job[r].row].state = "live"
    <2> DEFINE x == [txn[r] EXCEPT !.held = {job[r].row}]
    <2>1. /\ pc[r] = "claim" /\ WaitsFor(r) = {} /\ job[r].op = "refresh"
          /\ job[r].row \in Jti /\ Step(r, "commit", job[r], x)
      BY <1>3, OwnPart DEF RefreshClaim, WellFormed
    <2>2. /\ x \in Txn /\ x.held = {job[r].row} /\ x.todo = txn[r].todo
          /\ x.mint = txn[r].mint
      BY <2>1, OwnPart DEF Txn, Row
    <2> HIDE DEF x
    <2>3. \A q \in Req \ {r} : job[r].row \notin txn[q].held
      BY <2>1, WantedIsFree DEF WantedRow
    <2>4. WellFormed("commit", job[r], x)
      BY <1>3, <2>1, <2>2, OwnPart DEF WellFormed
    <2> QED
      BY <2>1, <2>2, <2>3, <2>4, OwnPart, StepIInv DEF Pc
  <1>4. CASE RefreshClaim(r) /\ tokens[job[r].row].state # "live"
    <2>1. Step(r, "snapshot", job[r], NoTxn)
      BY <1>4 DEF RefreshClaim
    <2>2. WellFormed("snapshot", job[r], NoTxn)
      BY <1>4, NoTxnTyped, OwnPart DEF WellFormed, RefreshClaim
    <2> QED
      BY <2>1, <2>2, NoTxnTyped, OwnPart, StepIInv DEF Pc
  <1>5. CASE LogoutFlush(r)
    BY <1>5, LockRowIInv DEF LogoutFlush
  <1> QED
    BY <1>1, <1>2, <1>3, <1>4, <1>5, RollbackIInv, SessionStep(r) DEF SessionStep

LEMMA PasswordStepIInv ==
  ASSUME IInv, NEW r \in Req, PasswordStep(r)
  PROVE  IInv'
  <1>1. CASE ChangeFlush(r)
    BY <1>1, LockUserIInv DEF ChangeFlush
  <1>2. CASE ForgotInsert(r)
    <2> PICK l \in Reset : Step(r, "commit", job[r], [txn[r] EXCEPT !.mint = l])
      BY <1>2 DEF ForgotInsert
    <2> DEFINE x == [txn[r] EXCEPT !.mint = l]
    <2>1. /\ x \in Txn /\ x.held = txn[r].held /\ x.todo = txn[r].todo
          /\ x.mint \notin Jti
      BY OwnPart, NamesAssumption DEF Txn, Row
    <2>2. Step(r, "commit", job[r], x) /\ job[r].op = "forgot"
      BY <1>2, OwnPart DEF ForgotInsert, WellFormed
    <2> HIDE DEF x
    <2> QED
      BY <2>1, <2>2, OwnPart, OtherStepIInv DEF Pc
  <1>3. CASE ForgotMail(r)
    <2> USE DEF IInv, ForgotMail
    <2>1. TypeOK'
      <3>1. resets' \in [Reset -> ResetRow]
        BY <1>3 DEF TypeOK, ResetRow
      <3> QED
        BY <1>3, <3>1, NoJobTyped DEF TypeOK, Pc
    <2>2. ASSUME NEW q \in Req PROVE WellFormed(pc[q], job[q], txn[q])'
      <3>1. CASE q = r
        BY <1>3, <3>1, OwnPart, NamesAssumption DEF WellFormed, TypeOK, NoJob, Row, Op
      <3>2. CASE q # r
        BY <1>3, <3>2 DEF WellFormed, TypeOK
      <3> QED
        BY <3>1, <3>2
    <2>3. Exclusive' /\ TokenRows' /\ OneLivePerLineage' /\ RotationChain'
      BY <1>3 DEF Exclusive, TokenRows, OneLivePerLineage, RotationChain
    <2> QED
      BY <2>1, <2>2, <2>3
  <1>4. CASE ResetOwner(r)
    <2>1. CASE Step(r, "mark", job[r], txn[r])
      BY <1>4, <2>1, OwnPart, OtherStepIInv DEF ResetOwner, Pc
    <2> QED
      BY <1>4, <2>1, RollbackIInv DEF ResetOwner
  <1>5. CASE ResetMark(r)
    BY <1>5, LockRowIInv DEF ResetMark
  <1>6. CASE ResetFlush(r)
    BY <1>6, LockUserIInv DEF ResetFlush
  <1> QED
    BY <1>1, <1>2, <1>3, <1>4, <1>5, <1>6, PasswordStep(r) DEF PasswordStep

LEMMA AdminStepIInv ==
  ASSUME IInv, NEW r \in Req, AdminStep(r)
  PROVE  IInv'
  <1>1. CASE CreateCheck(r) /\ ~Rollback(r)
    <2> PICK e \in Email, p \in Given, role \in Role, active \in BOOLEAN :
          Step(r, "insert",
               [job[r] EXCEPT !.patch = [state |-> "live", email |-> e, pw |-> p,
                                         role |-> role, active |-> active]],
               txn[r])
      BY <1>1 DEF CreateCheck
    <2> DEFINE patch == [state |-> "live", email |-> e, pw |-> p,
                         role |-> role, active |-> active]
               j == [job[r] EXCEPT !.patch = patch]
    <2>1. patch \in Patch
      BY GivenAssumption DEF Patch
    <2>2. Step(r, "insert", j, txn[r]) /\ job[r].op = "create"
      BY <1>1 DEF CreateCheck
    <2> HIDE DEF patch
    <2>3. j \in Job /\ j.op = job[r].op /\ j.row = job[r].row
      BY <2>1, OwnPart DEF Job
    <2> HIDE DEF j
    <2> QED
      BY <2>2, <2>3, OwnPart, OtherStepIInv DEF Pc
  <1>2. CASE CreateFlush(r) /\ ~Rollback(r)
    <2> PICK u \in User : /\ pc[r] = "insert"
                          /\ Step(r, "commit", [job[r] EXCEPT !.user = u],
                                  [txn[r] EXCEPT !.user = u])
      BY <1>2 DEF CreateFlush
    <2> DEFINE j == [job[r] EXCEPT !.user = u]
               x == [txn[r] EXCEPT !.user = u]
    <2>1. Step(r, "commit", j, x) /\ pc[r] = "insert"
      OBVIOUS
    <2>2. /\ j \in Job /\ j.op = job[r].op /\ j.row = job[r].row
          /\ x \in Txn /\ x.held = txn[r].held /\ x.todo = txn[r].todo
          /\ x.mint = txn[r].mint
      BY OwnPart DEF Job, Txn
    <2>3. job[r].op \notin {"login", "refresh"}
      BY <1>2, OwnPart DEF WellFormed, CreateFlush
    <2> HIDE DEF j, x
    <2> QED
      BY <2>1, <2>2, <2>3, OwnPart, OtherStepIInv DEF Pc
  <1>3. CASE UpdateLoad(r) /\ ~Rollback(r)
    <2> PICK u \in User \ {job[r].user}, role \in Role \cup {None},
             active \in BOOLEAN \cup {None} :
          Step(r, IF NetChange(u, role, active) # NoPatch THEN "user"
                  ELSE IF active = FALSE THEN "snapshot" ELSE "commit",
               [job[r] EXCEPT !.op = IF active = FALSE THEN "deactivate" ELSE @,
                              !.user = u, !.patch = NetChange(u, role, active)],
               txn[r])
      BY <1>3 DEF UpdateLoad
    <2> DEFINE patch == NetChange(u, role, active)
               next == IF patch # NoPatch THEN "user"
                       ELSE IF active = FALSE THEN "snapshot" ELSE "commit"
               j == [job[r] EXCEPT !.op = IF active = FALSE THEN "deactivate" ELSE @,
                                   !.user = u, !.patch = patch]
    <2>1. patch \in Patch
      BY NoJobTyped DEF Patch, NetChange
    <2>2. Step(r, next, j, txn[r]) /\ job[r].op = "update"
      BY <1>3 DEF UpdateLoad
    <2>3. next \in Pc \ {"claim", "owner"} /\ next # "link"
      BY DEF Pc
    <2> HIDE DEF patch, next
    <2>4. j \in Job /\ j.op \in {"update", "deactivate"} /\ j.row = job[r].row
      BY <2>1, <2>2, OwnPart DEF Job, Op
    <2> HIDE DEF j
    <2> QED
      BY <2>2, <2>3, <2>4, OwnPart, OtherStepIInv
  <1>4. CASE UpdateFlush(r)
    BY <1>4, LockUserIInv DEF UpdateFlush
  <1>5. CASE DeleteLoad(r) /\ ~Rollback(r)
    <2> PICK u \in User \ {job[r].user} :
          Step(r, "user", [job[r] EXCEPT !.user = u,
                                         !.patch = [NoPatch EXCEPT !.state = "deleted"]],
               txn[r])
      BY <1>5 DEF DeleteLoad
    <2> DEFINE patch == [NoPatch EXCEPT !.state = "deleted"]
               j == [job[r] EXCEPT !.user = u, !.patch = patch]
    <2>1. patch \in Patch
      BY NoJobTyped DEF Patch
    <2>2. Step(r, "user", j, txn[r]) /\ job[r].op = "delete"
      BY <1>5 DEF DeleteLoad
    <2> HIDE DEF patch
    <2>3. j \in Job /\ j.op = job[r].op /\ j.row = job[r].row
      BY <2>1, OwnPart DEF Job
    <2> HIDE DEF j
    <2> QED
      BY <2>2, <2>3, OwnPart, OtherStepIInv DEF Pc
  <1>6. CASE DeleteFlush(r)
    BY <1>6, LockUserIInv DEF DeleteFlush
  <1> QED
    BY <1>1, <1>2, <1>3, <1>4, <1>5, <1>6, RollbackIInv, AdminStep(r) DEF AdminStep

LEMMA SweepIInv ==
  ASSUME IInv, NEW r \in Req, SweepSnapshot(r) \/ SweepRow(r)
  PROVE  IInv'
  <1>1. CASE SweepSnapshot(r)
    <2> DEFINE next == IF Swept(r) = {} THEN AfterSweep(r) ELSE "sweep"
               x == [txn[r] EXCEPT !.todo = Swept(r)]
    <2>1. Step(r, next, job[r], x) /\ pc[r] = "snapshot"
      BY <1>1 DEF SweepSnapshot
    <2>2. next \in {"link", "sweep", "commit"} /\ (next = "link" => job[r].op = "forgot")
      BY DEF AfterSweep
    <2>3. /\ Swept(r) \subseteq Row
          /\ \A t \in Jti : t \in Swept(r) => tokens[t].state # "absent"
      BY NamesAssumption DEF Swept, Row
    <2>4. /\ x \in Txn /\ x.held = txn[r].held /\ x.todo = Swept(r)
          /\ x.mint = txn[r].mint
      BY <2>3, OwnPart DEF Txn
    <2> HIDE DEF next, x
    <2>5. x.mint \notin Jti
      BY <2>1, <2>4, OwnPart DEF WellFormed
    <2>6. WellFormed(next, job[r], x)
      BY <2>1, <2>2, <2>3, <2>4, <2>5, OwnPart DEF WellFormed
    <2> QED
      BY <2>1, <2>2, <2>4, <2>6, OwnPart, StepIInv DEF Pc
  <1>2. CASE SweepRow(r)
    <2>0. PICK y \in WantedRow(r) :
          Step(r, IF txn[r].todo = {y} THEN AfterSweep(r) ELSE "sweep", job[r],
               [txn[r] EXCEPT !.held = @ \cup {y}, !.todo = @ \ {y}])
      BY <1>2 DEF SweepRow
    <2> DEFINE next == IF txn[r].todo = {y} THEN AfterSweep(r) ELSE "sweep"
               x == [txn[r] EXCEPT !.held = @ \cup {y}, !.todo = @ \ {y}]
    <2>1. Step(r, next, job[r], x) /\ pc[r] = "sweep" /\ WaitsFor(r) = {}
      BY <1>2, <2>0 DEF SweepRow
    <2>2. next \in {"link", "sweep", "commit"} /\ (next = "link" => job[r].op = "forgot")
      BY DEF AfterSweep
    <2>3. y \in txn[r].todo /\ \A q \in Req \ {r} : y \notin txn[q].held
      BY <2>0, <2>1, WantedIsFree DEF WantedRow
    <2>4. /\ x \in Txn /\ x.held = txn[r].held \cup {y} /\ x.todo = txn[r].todo \ {y}
          /\ x.mint = txn[r].mint
      BY <2>3, OwnPart DEF Txn
    <2> HIDE DEF next, x
    <2>5. x.mint \notin Jti
      BY <2>1, <2>4, OwnPart DEF WellFormed
    <2>6. WellFormed(next, job[r], x)
      <3>1. \A t \in Jti : t \in x.held \cup x.todo => tokens[t].state # "absent"
        BY <2>3, <2>4, OwnPart DEF WellFormed
      <3>2. /\ job[r].op # "login"
            /\ job[r].op = "refresh" => job[r].row \in Jti /\ tokens[job[r].row].user = job[r].user
            /\ job[r].row \in Jti => tokens[job[r].row].state # "absent"
        BY <2>1, OwnPart DEF WellFormed
      <3>3. job[r].op = "refresh" => next # "link"
        BY <2>2
      <3> QED
        BY <2>2, <2>5, <3>1, <3>2, <3>3, OwnPart DEF WellFormed
    <2>7. \A q \in Req \ {r} : /\ x.held \cap txn[q].held = {}
                               /\ x.mint \in Jti => x.mint # txn[q].mint
      BY <2>3, <2>4, <2>5, OwnPart
    <2>8. job[r] \in Job
      BY OwnPart
    <2> QED
      BY <2>1, <2>2, <2>4, <2>6, <2>7, <2>8, StepIInv DEF Pc
  <1> QED
    BY <1>1, <1>2

\* Time only fills `expired`.
LEMMA ExpireIInv ==
  ASSUME IInv, NEW y \in Row, Expire(y)
  PROVE  IInv'
  <1> USE DEF IInv, Expire
  <1>1. TypeOK'
    BY DEF TypeOK
  <1>2. \A r \in Req : WellFormed(pc[r], job[r], txn[r])'
    BY DEF WellFormed
  <1>3. Exclusive' /\ TokenRows' /\ OneLivePerLineage' /\ RotationChain'
    BY DEF Exclusive, TokenRows, OneLivePerLineage, RotationChain
  <1> QED
    BY <1>1, <1>2, <1>3

-----------------------------------------------------------------------------
(* Commit.                                                                 *)

\* The row of a revoked token.
LEMMA RevokedFields ==
  ASSUME TypeOK, NEW r, NEW t \in Jti
  PROVE  /\ RevokedToken(r, t) \in TokenRow /\ RevokedToken(r, t).state = "revoked"
         /\ RevokedToken(r, t).replaced =
               IF txn[r].mint \in Jti THEN txn[r].mint ELSE tokens[t].replaced
         /\ RevokedToken(r, t).user = tokens[t].user
         /\ RevokedToken(r, t).root = tokens[t].root
         /\ RevokedToken(r, t).parent = tokens[t].parent
  <1>1. tokens[t] \in TokenRow
    BY DEF TypeOK
  <1> QED
    BY <1>1 DEF RevokedToken, TokenRow

\* Commit leaves rows and values well typed.
LEMMA CommitTyped ==
  ASSUME IInv, NEW r \in Req, Commit(r)
  PROVE  TypeOK'
  <1>0. TypeOK /\ job[r] \in Job /\ txn[r] \in Txn
    BY OwnPart DEF IInv
  <1>1. users' \in [User -> UserRow]
    <2>1. ASSUME NEW u \in User PROVE Patched(users[u], job[r].patch) \in UserRow
      <3>1. users[u] \in UserRow /\ job[r].patch \in Patch
        BY <1>0 DEF TypeOK, Job
      <3> QED
        BY <3>1 DEF Patched, UserRow, Patch
    <2> QED
      BY <1>0, <2>1 DEF Commit, TypeOK
  <1>2. tokens' \in [Jti -> TokenRow]
    <2>1. ASSUME txn[r].mint \in Jti PROVE MintedToken(r) \in TokenRow
      <3>1. /\ job[r].user \in User
            /\ job[r].row = None \/ job[r].row \in Jti
            /\ job[r].pw \in Password \cup {None}
        BY <1>0, <2>1, OwnPart DEF WellFormed, Job
      <3>2. job[r].row # None => tokens[job[r].row] \in TokenRow
        BY <1>0, <3>1 DEF TypeOK
      <3> QED
        BY <2>1, <3>1, <3>2 DEF MintedToken, TokenRow
    <2>2. ASSUME NEW t \in Jti PROVE RevokedToken(r, t) \in TokenRow
      BY <1>0, RevokedFields
    <2> QED
      BY <1>0, <2>1, <2>2 DEF Commit, TypeOK
  <1>3. resets' \in [Reset -> ResetRow]
    <2>1. MintedReset(r) \in ResetRow
      BY <1>0 DEF MintedReset, ResetRow, Job, MaxUses
    <2>2. ASSUME NEW l \in Reset PROVE UsedReset(r, l) \in ResetRow
      <3>1. resets[l] \in ResetRow
        BY <1>0 DEF TypeOK
      <3> DEFINE n == resets[l].uses
                 m == IF job[r].op = "reset" /\ n < MaxUses THEN n + 1 ELSE n
      <3>2. UsedReset(r, l) = [resets[l] EXCEPT !.state = "used", !.uses = m]
        BY DEF UsedReset
      <3>3. n \in 0 .. MaxUses
        BY <3>1 DEF ResetRow
      <3>4. m \in 0 .. MaxUses
        BY <3>3 DEF MaxUses
      <3> HIDE DEF m, n
      <3> QED
        BY <3>1, <3>2, <3>4 DEF ResetRow
    <2> QED
      BY <1>0, <2>1, <2>2 DEF Commit, TypeOK
  <1>4. pc' \in [Req -> Pc] /\ job' \in [Req -> Job] /\ txn' \in [Req -> Txn]
    <2>1. [job[r] EXCEPT !.row = txn[r].mint] \in Job
      BY <1>0 DEF Job, Txn
    <2>2. job' = [job EXCEPT ![r] = [job[r] EXCEPT !.row = txn[r].mint]]
             \/ job' = [job EXCEPT ![r] = NoJob]
      BY DEF Commit
    <2> QED
      BY <1>0, <2>1, <2>2, NoJobTyped, NoTxnTyped DEF Commit, TypeOK, Pc
  <1> QED
    BY <1>0, <1>1, <1>2, <1>3, <1>4 DEF TypeOK, Commit

\* What Commit does to a token.
LEMMA CommitTokens ==
  ASSUME IInv, NEW r \in Req, Commit(r), NEW t \in Jti
  PROVE  /\ t \notin txn[r].held \cup {txn[r].mint} => tokens'[t] = tokens[t]
         /\ t \in txn[r].held =>
               /\ tokens[t].state # "absent" /\ tokens'[t] = RevokedToken(r, t)
         /\ t = txn[r].mint => tokens[t].state = "absent" /\ tokens'[t] = MintedToken(r)
         /\ tokens[t].state # "absent" =>
               /\ tokens'[t].state # "absent" /\ tokens'[t].user = tokens[t].user
               /\ tokens'[t].root = tokens[t].root /\ tokens'[t].parent = tokens[t].parent
  <1>1. tokens[t] \in TokenRow
    BY DEF IInv, TypeOK
  <1>2. tokens'[t] = IF t = txn[r].mint THEN MintedToken(r)
                     ELSE IF t \in txn[r].held THEN RevokedToken(r, t) ELSE tokens[t]
    BY DEF Commit
  <1>3. /\ t = txn[r].mint => tokens[t].state = "absent"
        /\ t \in txn[r].held => tokens[t].state # "absent"
    BY OwnPart DEF WellFormed
  <1> QED
    BY <1>1, <1>2, <1>3 DEF RevokedToken, TokenRow

\* What a commit that issues a token issues.
LEMMA CommitMint ==
  ASSUME IInv, NEW r \in Req, Commit(r), txn[r].mint \in Jti
  PROVE  /\ MintedToken(r).state = "live" /\ MintedToken(r).replaced = None
         /\ MintedToken(r).user = job[r].user /\ job[r].user \in User
         /\ \/ /\ txn[r].held = {}
               /\ MintedToken(r).parent = None /\ MintedToken(r).root = txn[r].mint
            \/ /\ job[r].row \in Jti /\ txn[r].held = {job[r].row}
               /\ tokens[job[r].row].state = "live"
               /\ tokens[job[r].row].user = job[r].user
               /\ MintedToken(r).parent = job[r].row
               /\ MintedToken(r).root = tokens[job[r].row].root
  <1>1. pc[r] = "commit"
    BY DEF Commit
  <1>2. CASE job[r].op = "login"
    BY <1>1, <1>2, OwnPart DEF WellFormed, MintedToken
  <1>3. CASE job[r].op = "refresh"
    BY <1>1, <1>3, OwnPart, NamesAssumption DEF WellFormed, MintedToken, Row
  <1> QED
    BY <1>2, <1>3, OwnPart DEF WellFormed

LEMMA CommitIInv ==
  ASSUME IInv, NEW r \in Req, Commit(r)
  PROVE  IInv'
  <1> USE DEF IInv
  <1>1. TypeOK'
    BY CommitTyped
  <1>2. ASSUME NEW q \in Req PROVE WellFormed(pc[q], job[q], txn[q])'
    <2>1. CASE q = r
      <3>1. txn'[q] = NoTxn
        BY <2>1 DEF Commit, TypeOK
      <3>2. CASE job[r].op = "forgot"
        <4>1. pc'[q] = "mail" /\ job'[q].op = "forgot" /\ job'[q].row \notin Jti
          BY <2>1, <3>2, OwnPart DEF Commit, TypeOK, Job
        <4> QED
          BY <3>1, <4>1, NoTxnTyped DEF WellFormed
      <3>3. CASE job[r].op # "forgot"
        <4>1. pc'[q] = "idle" /\ job'[q].op = None /\ job'[q].row = None
          BY <2>1, <3>3 DEF Commit, TypeOK, NoJob
        <4> QED
          BY <3>1, <4>1, NoTxnTyped, NamesAssumption DEF WellFormed, Op, Row
      <3> QED
        BY <3>2, <3>3
    <2>2. CASE q # r
      <3>1. pc'[q] = pc[q] /\ job'[q] = job[q] /\ txn'[q] = txn[q]
        BY <2>2 DEF Commit, TypeOK
      <3>2. WellFormed(pc[q], job[q], txn[q])
        OBVIOUS
      <3>3. txn[q].mint \in Jti => tokens'[txn[q].mint].state = "absent"
        <4> SUFFICES ASSUME txn[q].mint \in Jti PROVE tokens'[txn[q].mint].state = "absent"
          OBVIOUS
        <4>1. tokens[txn[q].mint].state = "absent" /\ txn[q].mint # txn[r].mint
          BY <2>2, <3>2 DEF WellFormed, Exclusive
        <4>2. txn[q].mint \notin txn[r].held
          BY <4>1, CommitTokens
        <4> QED
          BY <4>1, <4>2, CommitTokens
      <3>4. ASSUME job[q].row \in Jti, txn[q].held = {job[q].row},
                   tokens[job[q].row].state = "live"
            PROVE  tokens'[job[q].row].state = "live"
        <4>1. job[q].row \notin txn[r].held
          BY <2>2, <3>4 DEF Exclusive
        <4>2. job[q].row # txn[r].mint
          BY <3>4, CommitTokens
        <4> QED
          BY <3>4, <4>1, <4>2, CommitTokens
      <3>5. \A t \in Jti : tokens[t].state # "absent" =>
                tokens'[t].state # "absent" /\ tokens'[t].user = tokens[t].user
        BY CommitTokens
      <3> QED
        BY <3>1, <3>2, <3>3, <3>4, <3>5 DEF WellFormed
    <2> QED
      BY <2>1, <2>2
  <1>3. Exclusive'
    BY NoTxnTyped DEF Exclusive, Commit, TypeOK
  <1>4. TokenRows'
    <2> SUFFICES ASSUME NEW t \in Jti
                 PROVE  /\ tokens'[t].state = "absent" => tokens'[t] = NoToken
                        /\ tokens'[t].state # "absent" =>
                              /\ tokens'[t].user \in User
                              /\ tokens'[t].root \in Jti
                              /\ tokens'[tokens'[t].root].state # "absent"
                              /\ tokens'[t].parent = None => tokens'[t].root = t
                        /\ tokens'[t].state = "live" => tokens'[t].replaced = None
      BY DEF TokenRows
    <2>1. CASE t \notin txn[r].held \cup {txn[r].mint}
      BY <2>1, CommitTokens DEF TokenRows
    <2>2. CASE t \in txn[r].held
      <3>1. tokens'[t].state = "revoked"
        BY <2>2, CommitTokens, RevokedFields
      <3> QED
        BY <2>2, <3>1, CommitTokens DEF TokenRows
    <2>3. CASE t = txn[r].mint
      <3>1. CASE tokens'[t].root = t
        BY <2>3, <3>1, CommitTokens, CommitMint, NamesAssumption DEF Row
      <3>2. CASE tokens'[t].root # t
        <4>1. /\ tokens'[t] = MintedToken(r) /\ MintedToken(r).root # txn[r].mint
              /\ txn[r].mint \in Jti
          BY <2>3, <3>2, CommitTokens
        <4>2. /\ job[r].row \in Jti /\ tokens[job[r].row].state = "live"
              /\ MintedToken(r).root = tokens[job[r].row].root
              /\ MintedToken(r).parent = job[r].row
          BY <4>1, CommitMint
        <4>3. /\ MintedToken(r).root \in Jti
              /\ tokens[MintedToken(r).root].state # "absent"
          BY <4>2 DEF TokenRows
        <4>4. tokens'[MintedToken(r).root].state # "absent"
          BY <4>3, CommitTokens
        <4> QED
          BY <4>1, <4>2, <4>3, <4>4, CommitMint, NamesAssumption DEF Row
      <3> QED
        BY <3>1, <3>2
    <2> QED
      BY <2>1, <2>2, <2>3
  <1>5. OneLivePerLineage'
    <2>1. ASSUME NEW t \in Jti, tokens'[t].state = "live", t # txn[r].mint
          PROVE  tokens'[t] = tokens[t]
      <3>1. t \notin txn[r].held
        BY <2>1, CommitTokens, RevokedFields
      <3> QED
        BY <2>1, <3>1, CommitTokens
    <2>2. ASSUME NEW t \in Jti, tokens'[t].state = "live", t # txn[r].mint,
                 txn[r].mint \in Jti
          PROVE  tokens'[t].root # tokens'[txn[r].mint].root
      <3>1. tokens'[t] = tokens[t] /\ tokens'[txn[r].mint] = MintedToken(r)
        BY <2>1, <2>2, CommitTokens
      <3>2. CASE MintedToken(r).root = txn[r].mint
        BY <2>2, <3>1, <3>2, CommitTokens DEF TokenRows
      <3>3. CASE /\ job[r].row \in Jti /\ txn[r].held = {job[r].row}
                 /\ tokens[job[r].row].state = "live"
                 /\ MintedToken(r).root = tokens[job[r].row].root
        <4>1. tokens'[job[r].row].state = "revoked"
          BY <3>3, CommitTokens, RevokedFields
        <4> QED
          BY <2>2, <3>1, <3>3, <4>1 DEF OneLivePerLineage
      <3> QED
        BY <2>2, <3>2, <3>3, CommitMint
    <2> QED
      BY <2>1, <2>2 DEF OneLivePerLineage
  <1>6. RotationChain'
    <2> SUFFICES ASSUME NEW t \in Jti
                 PROVE  /\ tokens'[t].parent # None =>
                              LET p == tokens'[tokens'[t].parent] IN
                              /\ p.state = "revoked" /\ p.replaced = t
                              /\ p.user = tokens'[t].user /\ p.root = tokens'[t].root
                        /\ tokens'[t].replaced # None =>
                              tokens'[tokens'[t].replaced].parent = t
      BY DEF RotationChain
    <2>1. tokens[t] \in TokenRow /\ (tokens[t].state = "absent" => tokens[t] = NoToken)
      BY DEF TypeOK, TokenRows
    <2>2. ASSUME t # txn[r].mint, tokens'[t].parent # None
          PROVE  LET p == tokens'[tokens'[t].parent] IN
                 /\ p.state = "revoked" /\ p.replaced = t
                 /\ p.user = tokens'[t].user /\ p.root = tokens'[t].root
      <3> DEFINE p == tokens[t].parent
      <3>1. /\ tokens[t].state # "absent" /\ tokens'[t].parent = p
            /\ tokens'[t].user = tokens[t].user /\ tokens'[t].root = tokens[t].root
        BY <2>1, <2>2, CommitTokens DEF NoToken
      <3>2. /\ p \in Jti /\ tokens[p].state = "revoked" /\ tokens[p].replaced = t
            /\ tokens[p].user = tokens[t].user /\ tokens[p].root = tokens[t].root
        BY <2>1, <2>2, <3>1 DEF RotationChain, TokenRow
      <3>3. p # txn[r].mint
        BY <3>2, CommitTokens
      <3>4. p \in txn[r].held => txn[r].mint \notin Jti
        BY <3>2, CommitMint
      <3>5. /\ tokens'[p].state = "revoked" /\ tokens'[p].replaced = t
            /\ tokens'[p].user = tokens[p].user /\ tokens'[p].root = tokens[p].root
        BY <3>2, <3>3, <3>4, CommitTokens, RevokedFields
      <3> QED
        BY <3>1, <3>2, <3>5
    <2>3. ASSUME t = txn[r].mint, tokens'[t].parent # None
          PROVE  LET p == tokens'[tokens'[t].parent] IN
                 /\ p.state = "revoked" /\ p.replaced = t
                 /\ p.user = tokens'[t].user /\ p.root = tokens'[t].root
      <3>1. tokens'[t] = MintedToken(r)
        BY <2>3, CommitTokens
      <3>2. /\ job[r].row \in Jti /\ txn[r].held = {job[r].row}
            /\ tokens[job[r].row].user = job[r].user
            /\ MintedToken(r).parent = job[r].row /\ MintedToken(r).user = job[r].user
            /\ MintedToken(r).root = tokens[job[r].row].root
        BY <2>3, <3>1, CommitMint
      <3>3. /\ tokens'[job[r].row].state = "revoked" /\ tokens'[job[r].row].replaced = t
            /\ tokens'[job[r].row].user = tokens[job[r].row].user
            /\ tokens'[job[r].row].root = tokens[job[r].row].root
        BY <2>3, <3>2, CommitTokens, RevokedFields
      <3> QED
        BY <3>1, <3>2, <3>3
    <2>4. ASSUME tokens'[t].replaced # None
          PROVE  tokens'[tokens'[t].replaced].parent = t
      <3>1. CASE t \in txn[r].held /\ txn[r].mint \in Jti
        <4>1. tokens'[t].replaced = txn[r].mint
          BY <3>1, CommitTokens, RevokedFields
        <4>2. MintedToken(r).parent = t
          BY <3>1, CommitMint
        <4> QED
          BY <3>1, <4>1, <4>2, CommitTokens
      <3>2. CASE ~(t \in txn[r].held /\ txn[r].mint \in Jti)
        <4>1. t # txn[r].mint
          BY <2>4, CommitTokens, CommitMint
        <4>2. tokens'[t].replaced = tokens[t].replaced
          BY <3>2, <4>1, CommitTokens, RevokedFields
        <4> DEFINE k == tokens[t].replaced
        <4>3. k \in Jti /\ tokens[k].parent = t
          BY <2>1, <2>4, <4>2 DEF RotationChain, TokenRow
        <4>4. tokens[k].state # "absent"
          <5>1. tokens[k].state = "absent" => tokens[k].parent = None
            BY <4>3 DEF TokenRows, NoToken
          <5> QED
            BY <4>3, <5>1, NamesAssumption DEF Row
        <4> QED
          BY <4>2, <4>3, <4>4, CommitTokens
      <3> QED
        BY <3>1, <3>2
    <2> QED
      BY <2>2, <2>3, <2>4
  <1> QED
    BY <1>1, <1>2, <1>3, <1>4, <1>5, <1>6

-----------------------------------------------------------------------------
(* Theorems.                                                               *)

\* Every step preserves the invariant.
LEMMA NextIInv == IInv /\ [Next]_vars => IInv'
  <1> SUFFICES ASSUME IInv, [Next]_vars PROVE IInv'
    OBVIOUS
  <1>1. CASE UNCHANGED vars
    BY <1>1 DEF IInv, vars, TypeOK, WellFormed, Exclusive, TokenRows, OneLivePerLineage,
                RotationChain
  <1>2. ASSUME NEW r \in Req, Start(r) \/ Work(r) \/ Abort(r)
        PROVE  IInv'
    BY <1>2, StartIInv, SessionStepIInv, PasswordStepIInv, AdminStepIInv, SweepIInv,
       CommitIInv, RollbackIInv
    DEF Work, Abort
  <1>3. ASSUME NEW y \in Row, Expire(y)
        PROVE  IInv'
    BY <1>3, ExpireIInv
  <1> QED
    BY <1>1, <1>2, <1>3 DEF Next

THEOREM SpecIInv == Spec => []IInv
  BY InitIInv, NextIInv, PTL DEF Spec

\* Type correctness: rows, jobs and transactions keep their shape.
THEOREM TypeCorrect == Spec => []TypeOK
  <1>1. IInv => TypeOK
    BY DEF IInv
  <1> QED
    BY <1>1, SpecIInv, PTL

\* However many clients refresh, log out and change passwords at once, of the
\* tokens that descend from one login at most one is ever accepted.
THEOREM OneLiveToken == Spec => []OneLivePerLineage
  <1>1. IInv => OneLivePerLineage
    BY DEF IInv
  <1> QED
    BY <1>1, SpecIInv, PTL

\* Rotation leaves an unbroken trail: replaced_by_jti is set exactly on tokens
\* that were rotated, and names the one token that took their place.
THEOREM RotationTrail == Spec => []RotationChain
  <1>1. IInv => RotationChain
    BY DEF IInv
  <1> QED
    BY <1>1, SpecIInv, PTL

-----------------------------------------------------------------------------
(* The refinement.                                                         *)

\* The mapping: what SessionLineage sees of the table.
Issued == {t \in Jti : tokens[t].state # "absent"}
Accepted == [x \in Jti |-> {t \in Jti : tokens[t].state = "live" /\ tokens[t].root = x}]

\* A commit is a login, a refresh, or the end of the lineages it revoked.
LEMMA CommitRefines ==
  ASSUME IInv, NEW r \in Req, Commit(r)
  PROVE  Lineage!Next
  <1> USE DEF IInv
  <1>1. CASE txn[r].mint \in Jti
    <2> DEFINE new == txn[r].mint
    <2>1. /\ tokens[new].state = "absent" /\ tokens'[new] = MintedToken(r)
          /\ MintedToken(r).state = "live"
      BY <1>1, CommitTokens, CommitMint
    <2>2. Issued' = Issued \cup {new} /\ new \notin Issued
      <3>1. \A t \in Jti \ {new} : tokens'[t].state = "absent" <=> tokens[t].state = "absent"
        BY CommitTokens, RevokedFields
      <3> QED
        BY <1>1, <2>1, <3>1 DEF Issued
    <2>3. CASE MintedToken(r).root = new /\ txn[r].held = {}
      <3>1. \A t \in Jti \ {new} : tokens'[t] = tokens[t]
        BY <2>3, CommitTokens
      <3>2. \A t \in Jti : tokens[t].state = "live" => tokens[t].root # new
        BY <2>1 DEF TokenRows
      <3>3. Accepted' = [Accepted EXCEPT ![new] = {new}]
        <4>1. ASSUME NEW y \in Jti, y # new
              PROVE  Accepted'[y] = Accepted[y]
          <5>1. \A t \in Jti : (tokens'[t].state = "live" /\ tokens'[t].root = y) <=>
                                (tokens[t].state = "live" /\ tokens[t].root = y)
            BY <2>1, <2>3, <3>1, <4>1
          <5> QED
            BY <5>1 DEF Accepted
        <4>2. Accepted'[new] = {new}
          <5>1. \A t \in Jti : (tokens'[t].state = "live" /\ tokens'[t].root = new) <=> t = new
            BY <1>1, <2>1, <2>3, <3>1, <3>2
          <5> QED
            BY <1>1, <5>1 DEF Accepted
        <4> QED
          BY <1>1, <4>1, <4>2 DEF Accepted
      <3>4. Lineage!Open(new)
        BY <2>2, <3>3 DEF Lineage!Open, Issued, Accepted
      <3> QED
        BY <1>1, <3>4 DEF Lineage!Next, Lineage!Open
    <2>4. CASE /\ job[r].row \in Jti /\ txn[r].held = {job[r].row}
               /\ tokens[job[r].row].state = "live"
               /\ MintedToken(r).root = tokens[job[r].row].root
      <3> DEFINE old == job[r].row
                 x == tokens[old].root
      <3>1. x \in Jti
        BY <2>4 DEF TokenRows
      <3>2. Accepted[x] = {old}
        BY <2>4, <3>1 DEF Accepted, OneLivePerLineage
      <3>3. tokens'[old].state = "revoked"
        BY <2>4, CommitTokens, RevokedFields
      <3>4. \A t \in Jti \ {new, old} : tokens'[t] = tokens[t]
        BY <2>4, CommitTokens
      <3>5. Accepted' = [Accepted EXCEPT ![x] = {new}]
        <4>1. ASSUME NEW y \in Jti, y # x
              PROVE  Accepted'[y] = Accepted[y]
          <5>1. \A t \in Jti : (tokens'[t].state = "live" /\ tokens'[t].root = y) <=>
                                (tokens[t].state = "live" /\ tokens[t].root = y)
            BY <2>1, <2>4, <3>3, <3>4, <4>1
          <5> QED
            BY <5>1 DEF Accepted
        <4>2. Accepted'[x] = {new}
          <5>1. \A t \in Jti : tokens'[t].state = "live" /\ tokens'[t].root = x => t = new
            BY <2>4, <3>3, <3>4 DEF OneLivePerLineage
          <5> QED
            BY <1>1, <2>1, <2>4, <3>1, <5>1 DEF Accepted
        <4> QED
          BY <3>1, <4>1, <4>2 DEF Accepted
      <3>6. Lineage!Rotate(x, new)
        BY <2>2, <2>4, <3>2, <3>5 DEF Lineage!Rotate, Issued, Accepted
      <3> QED
        BY <1>1, <3>1, <3>6 DEF Lineage!Next, Lineage!Rotate
    <2> QED
      BY <1>1, <2>3, <2>4, CommitMint
  <1>2. CASE txn[r].mint \notin Jti
    <2> DEFINE S == {tokens[t].root : t \in {u \in Jti : u \in txn[r].held
                                                        /\ tokens[u].state = "live"}}
    <2>1. S \in SUBSET Jti
      BY DEF TokenRows
    <2>2. \A t \in Jti : tokens'[t].state = "live" <=>
                           tokens[t].state = "live" /\ t \notin txn[r].held
      BY <1>2, CommitTokens, RevokedFields
    <2>3. \A t \in Jti : /\ tokens'[t].state = "absent" <=> tokens[t].state = "absent"
                         /\ tokens[t].state = "live" => tokens'[t].root = tokens[t].root
      BY <1>2, CommitTokens, RevokedFields
    <2>4. Issued' = Issued
      BY <2>3 DEF Issued
    <2>5. ASSUME NEW x \in Jti
          PROVE  Accepted'[x] = IF x \in S THEN {} ELSE Accepted[x]
      <3>1. CASE x \in S
        <4>1. \A t \in Jti : tokens[t].state = "live" /\ tokens[t].root = x =>
                                t \in txn[r].held
          BY <3>1 DEF OneLivePerLineage
        <4> QED
          BY <2>2, <2>3, <3>1, <4>1 DEF Accepted
      <3>2. CASE x \notin S
        BY <2>2, <2>3, <3>2 DEF Accepted
      <3> QED
        BY <3>1, <3>2
    <2> HIDE DEF S
    <2>6. Accepted' = [x \in Jti |-> IF x \in S THEN {} ELSE Accepted[x]]
      BY <2>5 DEF Accepted
    <2>7. Lineage!Close(S)
      BY <2>4, <2>6 DEF Lineage!Close, Issued, Accepted
    <2> QED
      BY <2>1, <2>7 DEF Lineage!Next, Lineage!Close
  <1> QED
    BY <1>1, <1>2

\* Nothing but a commit writes refresh_tokens.
LEMMA OnlyCommitWrites ==
  ASSUME NEW r \in Req, Start(r) \/ Work(r) \/ Abort(r), ~Commit(r)
  PROVE  UNCHANGED tokens
  <1>1. CASE Start(r)
    BY <1>1
    DEF Start, SessionBegin, PasswordBegin, AdminBegin, LoginRead, RefreshRead, LogoutRead,
        LogoutAllRead, ChangeRead, ForgotRead, ResetRead, AdminRead, SeedRead, Begin, Step,
        tables
  <1>2. CASE SessionStep(r) \/ PasswordStep(r)
    BY <1>2
    DEF SessionStep, PasswordStep, LoginFlush, RefreshMint, RefreshClaim, LogoutFlush,
        ChangeFlush, ForgotInsert, ForgotMail, ResetOwner, ResetMark, ResetFlush,
        LockUser, LockRow, Rollback, Step, tables
  <1>3. CASE AdminStep(r)
    BY <1>3
    DEF AdminStep, CreateCheck, CreateFlush, UpdateLoad, UpdateFlush, DeleteLoad,
        DeleteFlush, LockUser, Rollback, Step, tables
  <1>4. CASE SweepSnapshot(r) \/ SweepRow(r) \/ Abort(r)
    BY <1>4 DEF SweepSnapshot, SweepRow, Abort, Rollback, Step, tables
  <1> QED
    BY <1>1, <1>2, <1>3, <1>4 DEF Work

LEMMA NextRefines ==
  ASSUME IInv, [Next]_vars
  PROVE  Lineage!Next \/ UNCHANGED <<Issued, Accepted>>
  <1>1. ASSUME UNCHANGED tokens
        PROVE  UNCHANGED <<Issued, Accepted>>
    BY <1>1 DEF Issued, Accepted
  <1>2. CASE UNCHANGED vars
    BY <1>1, <1>2 DEF vars
  <1>3. ASSUME NEW r \in Req, Start(r) \/ Work(r) \/ Abort(r)
        PROVE  Lineage!Next \/ UNCHANGED tokens
    BY <1>3, CommitRefines, OnlyCommitWrites
  <1>4. ASSUME NEW y \in Row, Expire(y)
        PROVE  UNCHANGED tokens
    BY <1>4 DEF Expire
  <1> QED
    BY <1>1, <1>2, <1>3, <1>4 DEF Next

\* The service implements SessionLineage: a session that was logged out,
\* swept or caught as reused accepts no token ever again, and every accepted
\* token is fresh when it is issued.
THEOREM ImplementsLineage == Spec => LineageSpec
  <1>1. Init => Lineage!Init
    BY DEF Init, Lineage!Init, NoToken
  <1>2. IInv /\ [Next]_vars => [Lineage!Next]_<<Issued, Accepted>>
    BY NextRefines
  <1> QED
    BY <1>1, <1>2, SpecIInv, PTL DEF Spec, LineageSpec, Lineage!Spec, Issued, Accepted
=============================================================================
