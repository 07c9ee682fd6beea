--------------------------- MODULE LifecycleProofs ---------------------------
(***************************************************************************)
(* Sessions, passwords, links and administrators while one request is      *)
(* served at a time, for any number of users, tokens and links and any     *)
(* sequence of operations.  What a request has read then still holds when  *)
(* it commits; with two in flight it need not, and LinkUsedTwice and       *)
(* SurvivingRotation are runs that show it.                                *)
(***************************************************************************)
EXTENDS AccountProofs

\* There is one slot for requests.
OneAtATime == \A r, q \in Req : r = q

-----------------------------------------------------------------------------
(* What a request at step p with job j and transaction x knows.            *)

Live(u) == {t \in Jti : tokens[t].state = "live" /\ tokens[t].user = u}
Fresh(u) == {l \in Reset : resets[l].state = "fresh" /\ resets[l].user = u}

\* The sweep over S has locked every row of S, or will.
Covered(p, x, S) ==
    /\ p = "sweep" => S \subseteq x.held \cup x.todo
    /\ p \in {"link", "commit"} => S \subseteq x.held

IsAdmin(u) == CanSignIn(u) /\ users[u].role = "admin"

Current(p, j, x) ==
    /\ j.op = "login" => CanSignIn(j.user) /\ j.pw = users[j.user].pw
    /\ j.op \in {"change", "reset", "deactivate", "delete"} => Covered(p, x, Live(j.user))
    /\ j.op = "forgot" => Covered(p, x, Fresh(j.user))
    /\ j.op = "reset" => resets[j.row].state = "fresh"
    /\ j.op \in {"update", "delete"} /\ p = "load" => IsAdmin(j.user)
    /\ j.op \in {"update", "deactivate", "delete"} /\ p # "load" =>
          \E a \in User \ {j.user} : IsAdmin(a)

AllCurrent == \A r \in Req : Current(pc[r], job[r], txn[r])

\* A link that was not used has set no password.
LinkCounts == \A l \in Reset : resets[l].state # "used" => resets[l].uses = 0

FirstAdmin ==
    \E u \in User : Table0[u].state = "live" /\ Table0[u].active /\ Table0[u].role = "admin"

Records ==
    /\ SessionsMatchPassword /\ InactiveHasNoSession
    /\ ResetSingleUse /\ LinkCounts /\ OneResetLink
    /\ FirstAdmin => AdminRemains

LInv == AInv /\ AllCurrent /\ Records

-----------------------------------------------------------------------------
(* Steps that commit nothing.                                              *)

\* A step that commits nothing changes only what one request knows.
LEMMA StepCurrent ==
  ASSUME TypeOK, AllCurrent, Records, NEW r \in Req, NEW next, NEW j, NEW x,
         Step(r, next, j, x), Current(next, j, x)
  PROVE  AllCurrent' /\ Records'
  <1> USE DEF Step, tables
  <1>1. Current(next, j, x)'
    BY DEF Current, Covered, Live, Fresh, IsAdmin, CanSignIn
  <1>2. ASSUME NEW q \in Req, q # r PROVE Current(pc[q], job[q], txn[q])'
    BY <1>2 DEF AllCurrent, Current, Covered, Live, Fresh, IsAdmin, CanSignIn, TypeOK
  <1>3. AllCurrent'
    BY <1>1, <1>2 DEF AllCurrent, TypeOK
  <1>4. Records'
    BY DEF Records, SessionsMatchPassword, InactiveHasNoSession, ResetSingleUse, LinkCounts,
           OneResetLink, AdminRemains, CanSignIn
  <1> QED
    BY <1>3, <1>4

\* A request that was rolled back knows nothing.
LEMMA RollbackCurrent ==
  ASSUME TypeOK, AllCurrent, Records, NEW r \in Req, Rollback(r)
  PROVE  AllCurrent' /\ Records'
  <1>1. Current("idle", NoJob, NoTxn)
    BY NamesAssumption DEF Current, NoJob, Op
  <1> QED
    BY <1>1, StepCurrent DEF Rollback

\* A request that goes on with the same job.
LEMMA Later ==
  ASSUME NEW p, NEW j, NEW x, Current(p, j, x), p # "load", NEW n, n # "load", NEW y,
         j.op \in {"change", "reset", "deactivate", "delete"} => Covered(n, y, Live(j.user)),
         j.op = "forgot" => Covered(n, y, Fresh(j.user))
  PROVE  Current(n, j, y)
  BY DEF Current

\* What a request has just read holds.
LEMMA StartCurrent ==
  ASSUME TypeOK, AllCurrent, Records, NEW r \in Req, Start(r)
  PROVE  AllCurrent' /\ Records'
  <1> USE DEF NoJob
  <1>1. ASSUME NEW op, NEW next, NEW j, Begin(r, op, next, j), Current(next, j, NoTxn)
        PROVE  AllCurrent' /\ Records'
    BY <1>1, StepCurrent DEF Begin
  <1>2. CASE LoginRead(r)
    <2> PICK u \in User :
          /\ CanSignIn(u)
          /\ Begin(r, "login", "user",
                   [NoJob EXCEPT !.op = "login", !.user = u, !.pw = users[u].pw])
      BY <1>2 DEF LoginRead
    <2>1. Current("user", [NoJob EXCEPT !.op = "login", !.user = u, !.pw = users[u].pw], NoTxn)
      BY DEF Current
    <2> QED
      BY <1>1, <2>1
  <1>3. CASE RefreshRead(r)
    <2> PICK t \in Jti :
          Begin(r, "refresh", "owner",
                [NoJob EXCEPT !.op = "refresh", !.row = t, !.user = tokens[t].user])
      BY <1>3 DEF RefreshRead
    <2>1. Current("owner", [NoJob EXCEPT !.op = "refresh", !.row = t, !.user = tokens[t].user],
                  NoTxn)
      BY DEF Current
    <2> QED
      BY <1>1, <2>1
  <1>4. CASE LogoutRead(r)
    <2> PICK t \in Jti :
          Begin(r, "logout", "mark",
                [NoJob EXCEPT !.op = "logout", !.row = t, !.user = tokens[t].user])
      BY <1>4 DEF LogoutRead
    <2>1. Current("mark", [NoJob EXCEPT !.op = "logout", !.row = t, !.user = tokens[t].user],
                  NoTxn)
      BY DEF Current
    <2> QED
      BY <1>1, <2>1
  <1>5. CASE LogoutAllRead(r)
    <2> PICK u \in User :
          Begin(r, "logout_all", "snapshot", [NoJob EXCEPT !.op = "logout_all", !.user = u])
      BY <1>5 DEF LogoutAllRead
    <2>1. Current("snapshot", [NoJob EXCEPT !.op = "logout_all", !.user = u], NoTxn)
      BY DEF Current
    <2> QED
      BY <1>1, <2>1
  <1>6. CASE ChangeRead(r)
    <2> PICK u \in User, p \in Password :
          Begin(r, "change", "user",
                [NoJob EXCEPT !.op = "change", !.user = u,
                              !.patch = [NoPatch EXCEPT !.pw = p]])
      BY <1>6 DEF ChangeRead
    <2>1. Current("user", [NoJob EXCEPT !.op = "change", !.user = u,
                                        !.patch = [NoPatch EXCEPT !.pw = p]], NoTxn)
      BY DEF Current, Covered
    <2> QED
      BY <1>1, <2>1
  <1>7. CASE ForgotRead(r)
    <2> PICK u \in User :
          Begin(r, "forgot", "snapshot", [NoJob EXCEPT !.op = "forgot", !.user = u])
      BY <1>7 DEF ForgotRead
    <2>1. Current("snapshot", [NoJob EXCEPT !.op = "forgot", !.user = u], NoTxn)
      BY DEF Current, Covered
    <2> QED
      BY <1>1, <2>1
  <1>8. CASE ResetRead(r)
    <2> PICK l \in Reset, p \in Password :
          /\ resets[l].state = "fresh"
          /\ Begin(r, "reset", "owner",
                   [NoJob EXCEPT !.op = "reset", !.row = l, !.user = resets[l].user,
                                 !.patch = [NoPatch EXCEPT !.pw = p]])
      BY <1>8 DEF ResetRead
    <2>1. Current("owner", [NoJob EXCEPT !.op = "reset", !.row = l, !.user = resets[l].user,
                                         !.patch = [NoPatch EXCEPT !.pw = p]], NoTxn)
      BY DEF Current, Covered
    <2> QED
      BY <1>1, <2>1
  <1>9. CASE AdminRead(r)
    <2> PICK a \in User, op \in {"create", "update", "delete"} :
          /\ IsAdmin(a)
          /\ Begin(r, op, "load", [NoJob EXCEPT !.op = op, !.user = a])
      BY <1>9 DEF AdminRead, HasAccess, IsAdmin
    <2> DEFINE j == [NoJob EXCEPT !.op = op, !.user = a]
    <2>1. j.op = op /\ j.user = a
      OBVIOUS
    <2> HIDE DEF j
    <2>2. Current("load", j, NoTxn)
      BY <2>1 DEF Current, Covered
    <2> QED
      BY <1>1, <2>2 DEF j
  <1>10. CASE SeedRead(r)
    <2> PICK p \in Given :
          Begin(r, "seed", "insert",
                [NoJob EXCEPT !.op = "seed",
                              !.patch = [state |-> "live", email |-> FIRST_SUPERUSER_EMAIL,
                                         pw |-> p, role |-> "admin", active |-> TRUE]])
      BY <1>10 DEF SeedRead
    <2>1. Current("insert",
                  [NoJob EXCEPT !.op = "seed",
                                !.patch = [state |-> "live", email |-> FIRST_SUPERUSER_EMAIL,
                                           pw |-> p, role |-> "admin", active |-> TRUE]],
                  NoTxn)
      BY DEF Current
    <2> QED
      BY <1>1, <2>1
  <1> QED
    BY <1>2, <1>3, <1>4, <1>5, <1>6, <1>7, <1>8, <1>9, <1>10
    DEF Start, SessionBegin, PasswordBegin, AdminBegin

\* What a login or a sweep of sessions has read stays true while it goes on.
LEMMA SessionStepCurrent ==
  ASSUME TypeOK, Shapes, AllCurrent, Records, NEW r \in Req, SessionStep(r)
  PROVE  AllCurrent' /\ Records'
  <1>0. Current(pc[r], job[r], txn[r])
    BY DEF AllCurrent
  <1>1. ASSUME NEW next, NEW x, job[r].op \in {"login", "refresh", "logout"},
               Step(r, next, job[r], x)
        PROVE  AllCurrent' /\ Records'
    <2>1. Current(next, job[r], x)
      BY <1>0, <1>1 DEF Current
    <2> QED
      BY <1>1, <2>1, StepCurrent
  <1>2. CASE LoginFlush(r)
    BY <1>1, <1>2 DEF LoginFlush
  <1>3. CASE RefreshMint(r)
    <2>1. CASE CanSignIn(job[r].user)
      <3> PICK t \in Jti : Step(r, "claim", job[r], [txn[r] EXCEPT !.mint = t])
        BY <1>3, <2>1 DEF RefreshMint
      <3> QED
        BY <1>1, <1>3 DEF RefreshMint
    <2> QED
      BY <1>3, <2>1, RollbackCurrent DEF RefreshMint
  <1>4. CASE RefreshClaim(r)
    <2>1. job[r].op = "refresh"
      <3>1. Shape("claim", job[r], txn[r]) /\ job[r].op \in Op \cup {None}
        BY <1>4 DEF Shapes, TypeOK, Job, RefreshClaim
      <3> QED
        BY <3>1 DEF Op, Shape, Signing, Leaving, LeavingAll, Changing, Asking, Resetting,
                    Adding, Updating, Deleting
    <2> QED
      BY <1>1, <1>4, <2>1 DEF RefreshClaim
  <1>5. CASE LogoutFlush(r)
    BY <1>1, <1>5 DEF LogoutFlush, LockRow
  <1> QED
    BY <1>2, <1>3, <1>4, <1>5 DEF SessionStep

\* A flush that is not followed by the commit.
LEMMA FlushCurrent ==
  ASSUME TypeOK, AllCurrent, Records, NEW r \in Req, pc[r] # "load",
         NEW next \in {"user", "mark", "snapshot"}, NEW x, Step(r, next, job[r], x)
  PROVE  AllCurrent' /\ Records'
  <1>1. Current(next, job[r], x)
    BY Later DEF AllCurrent, Covered
  <1> QED
    BY <1>1, StepCurrent

\* A sweep of change, forgot or reset covers every session, or link, of the account:
\* with one request nothing is inserted while it waits.
LEMMA PasswordStepCurrent ==
  ASSUME OneAtATime, TypeOK, Shapes, AllCurrent, Records, NEW r \in Req, PasswordStep(r)
  PROVE  AllCurrent' /\ Records'
  <1>0. Current(pc[r], job[r], txn[r]) /\ txn[r] \in Txn
    BY DEF AllCurrent, TypeOK
  <1>1. CASE ChangeFlush(r) \/ ResetFlush(r) \/ ResetMark(r)
    BY <1>1, FlushCurrent DEF ChangeFlush, ResetFlush, ResetMark, LockUser, LockRow
  <1>2. CASE ResetOwner(r)
    BY <1>2, FlushCurrent, RollbackCurrent DEF ResetOwner
  <1>3. CASE ForgotInsert(r)
    <2> PICK l \in Reset : Step(r, "commit", job[r], [txn[r] EXCEPT !.mint = l])
      BY <1>3 DEF ForgotInsert
    <2>0. job[r].op = "forgot"
      <3>1. Shape("link", job[r], txn[r]) /\ job[r].op \in Op \cup {None}
        BY <1>3 DEF Shapes, TypeOK, Job, ForgotInsert
      <3> QED
        BY <3>1 DEF Op, Shape, Signing, Rotating, Leaving, LeavingAll, Changing, Resetting,
                    Adding, Updating, Deleting
    <2> DEFINE x == [txn[r] EXCEPT !.mint = l]
    <2>1. x.held = txn[r].held
      BY <1>0 DEF Txn
    <2> HIDE DEF x
    <2>2. Current("commit", job[r], x)
      BY <1>0, <1>3, <2>0, <2>1 DEF ForgotInsert, Current, Covered
    <2> QED
      BY <2>2, StepCurrent DEF x
  <1>4. CASE ForgotMail(r)
    <2>1. \A l \in Reset : /\ resets'[l].state = resets[l].state
                           /\ resets'[l].user = resets[l].user
                           /\ resets'[l].uses = resets[l].uses
      BY <1>4 DEF ForgotMail, TypeOK, ResetRow
    <2>2. users' = users /\ tokens' = tokens /\ job' = [job EXCEPT ![r] = NoJob]
      BY <1>4 DEF ForgotMail
    <2>3. AllCurrent'
      <3>1. \A q \in Req : job'[q].op = None
        BY <2>2 DEF OneAtATime, TypeOK, NoJob
      <3> QED
        BY <3>1, NamesAssumption DEF AllCurrent, Current, Op
    <2>4. Records'
      BY <2>1, <2>2
      DEF Records, SessionsMatchPassword, InactiveHasNoSession, ResetSingleUse, LinkCounts,
          OneResetLink, AdminRemains, CanSignIn
    <2> QED
      BY <2>3, <2>4
  <1> QED
    BY <1>1, <1>2, <1>3, <1>4 DEF PasswordStep

\* The administrator who acts is not the account acted on, and stays one.
LEMMA AdminStepCurrent ==
  ASSUME TypeOK, Shapes, AllCurrent, Records, NEW r \in Req, AdminStep(r)
  PROVE  AllCurrent' /\ Records'
  <1>0. /\ Current(pc[r], job[r], txn[r]) /\ txn[r] \in Txn /\ job[r] \in Job
        /\ Shape(pc[r], job[r], txn[r])
    BY DEF AllCurrent, Shapes, TypeOK
  <1>1. CASE CreateCheck(r)
    <2> SUFFICES ASSUME NEW p, Step(r, "insert", [job[r] EXCEPT !.patch = p], txn[r])
                 PROVE  AllCurrent' /\ Records'
      BY <1>1, RollbackCurrent DEF CreateCheck
    <2> DEFINE j == [job[r] EXCEPT !.patch = p]
    <2>1. j.op = "create"
      BY <1>0, <1>1 DEF CreateCheck, Job
    <2> HIDE DEF j
    <2>2. Current("insert", j, txn[r])
      BY <2>1 DEF Current
    <2> QED
      BY <2>2, StepCurrent DEF j
  <1>2. CASE CreateFlush(r)
    <2> SUFFICES ASSUME NEW u \in User,
                        Step(r, "commit", [job[r] EXCEPT !.user = u],
                             [txn[r] EXCEPT !.user = u])
                 PROVE  AllCurrent' /\ Records'
      BY <1>2, RollbackCurrent DEF CreateFlush
    <2>1. job[r].op \in {"create", "seed"}
      <3>1. job[r].op \in Op \cup {None} /\ pc[r] = "insert"
        BY <1>0, <1>2 DEF Job, CreateFlush
      <3> QED
        BY <1>0, <3>1 DEF Op, Shape, Signing, Rotating, Leaving, LeavingAll, Changing, Asking,
                          Resetting, Updating, Deleting
    <2> DEFINE j == [job[r] EXCEPT !.user = u]
               x == [txn[r] EXCEPT !.user = u]
    <2>2. j.op = job[r].op
      BY <1>0 DEF Job
    <2> HIDE DEF j, x
    <2>3. Current("commit", j, x)
      BY <2>1, <2>2 DEF Current
    <2> QED
      BY <2>3, StepCurrent DEF j, x
  <1>3. ASSUME pc[r] = "load", job[r].op \in {"update", "delete"}
        PROVE  IsAdmin(job[r].user) /\ job[r].user \in User
    BY <1>0, <1>3, NamesAssumption DEF Current, Shape, Op
  <1>4. CASE UpdateLoad(r)
    <2> SUFFICES ASSUME NEW u \in User \ {job[r].user}, NEW p, NEW role,
                        NEW active \in BOOLEAN \cup {None},
                        Step(r, IF p # NoPatch THEN "user"
                                ELSE IF active = FALSE THEN "snapshot" ELSE "commit",
                             [job[r] EXCEPT !.op = IF active = FALSE THEN "deactivate" ELSE @,
                                            !.user = u, !.patch = p],
                             txn[r])
                 PROVE  AllCurrent' /\ Records'
      BY <1>4, RollbackCurrent DEF UpdateLoad
    <2> DEFINE n == IF p # NoPatch THEN "user"
                    ELSE IF active = FALSE THEN "snapshot" ELSE "commit"
               j == [job[r] EXCEPT !.op = IF active = FALSE THEN "deactivate" ELSE @,
                                   !.user = u, !.patch = p]
    <2>1. j.op = (IF active = FALSE THEN "deactivate" ELSE "update") /\ j.user = u
      BY <1>0, <1>4 DEF Job, UpdateLoad
    <2>2. IsAdmin(job[r].user) /\ job[r].user \in User \ {u}
      BY <1>3, <1>4 DEF UpdateLoad
    <2> HIDE DEF j
    <2>3. Current(n, j, txn[r])
      BY <2>1, <2>2 DEF Current, Covered
    <2> QED
      BY <2>3, StepCurrent DEF j
  <1>5. CASE DeleteLoad(r)
    <2> SUFFICES ASSUME NEW u \in User \ {job[r].user}, NEW p,
                        Step(r, "user", [job[r] EXCEPT !.user = u, !.patch = p], txn[r])
                 PROVE  AllCurrent' /\ Records'
      BY <1>5, RollbackCurrent DEF DeleteLoad
    <2> DEFINE j == [job[r] EXCEPT !.user = u, !.patch = p]
    <2>1. j.op = "delete" /\ j.user = u
      BY <1>0, <1>5 DEF Job, DeleteLoad
    <2>2. IsAdmin(job[r].user) /\ job[r].user \in User \ {u}
      BY <1>3, <1>5 DEF DeleteLoad
    <2> HIDE DEF j
    <2>3. Current("user", j, txn[r])
      BY <2>1, <2>2 DEF Current, Covered
    <2> QED
      BY <2>3, StepCurrent DEF j
  <1>6. CASE UpdateFlush(r) /\ job[r].op = "update"
    <2>1. Current("commit", job[r], [txn[r] EXCEPT !.user = job[r].user])
      BY <1>0, <1>6, Later DEF UpdateFlush, LockUser
    <2> QED
      BY <1>6, <2>1, StepCurrent DEF UpdateFlush, LockUser
  <1>7. CASE UpdateFlush(r) /\ job[r].op = "deactivate"
    BY <1>7, FlushCurrent DEF UpdateFlush, LockUser
  <1>8. CASE DeleteFlush(r)
    BY <1>8, FlushCurrent DEF DeleteFlush, LockUser
  <1> QED
    BY <1>1, <1>2, <1>4, <1>5, <1>6, <1>7, <1>8 DEF AdminStep, UpdateFlush

\* A sweep locks every row that matched when it began; one request at a time, no
\* row comes to match later.
LEMMA SweepCurrent ==
  ASSUME TypeOK, Shapes, AllCurrent, Records, NEW r \in Req, SweepSnapshot(r) \/ SweepRow(r)
  PROVE  AllCurrent' /\ Records'
  <1>0. Current(pc[r], job[r], txn[r]) /\ txn[r] \in Txn
    BY DEF AllCurrent, TypeOK
  <1>1. pc[r] \in {"snapshot", "sweep"} /\ AfterSweep(r) \in {"link", "commit"}
    BY DEF SweepSnapshot, SweepRow, AfterSweep
  <1>2. ASSUME NEW n \in {"sweep", AfterSweep(r)}, NEW x, Step(r, n, job[r], x),
               \/ x.todo = Swept(r) /\ (n # "sweep" => Swept(r) = {})
               \/ /\ pc[r] = "sweep" /\ txn[r].held \cup txn[r].todo = x.held \cup x.todo
                  /\ n # "sweep" => x.todo = {}
        PROVE  AllCurrent' /\ Records'
    <2> DEFINE S == IF job[r].op = "forgot" THEN Fresh(job[r].user) ELSE Live(job[r].user)
    <2>1. Swept(r) = S
      BY DEF Swept, Fresh, Live
    <2>2. pc[r] = "sweep" /\ job[r].op \in {"change", "reset", "deactivate", "delete", "forgot"}
             => S \subseteq txn[r].held \cup txn[r].todo
      BY <1>0 DEF Current, Covered
    <2> HIDE DEF S
    <2>3. job[r].op \in {"change", "reset", "deactivate", "delete", "forgot"} => Covered(n, x, S)
      BY <1>1, <1>2, <2>1, <2>2 DEF Covered
    <2>4. Current(n, job[r], x)
      BY <1>0, <1>1, <2>3, Later DEF S
    <2> QED
      BY <1>2, <2>4, StepCurrent
  <1>3. CASE SweepSnapshot(r)
    <2> DEFINE x == [txn[r] EXCEPT !.todo = Swept(r)]
    <2>1. x.todo = Swept(r)
      BY <1>0 DEF Txn
    <2> HIDE DEF x
    <2> QED
      BY <1>2, <1>3, <2>1 DEF SweepSnapshot, x
  <1>4. CASE SweepRow(r)
    <2> PICK y \in WantedRow(r) :
          Step(r, IF txn[r].todo = {y} THEN AfterSweep(r) ELSE "sweep", job[r],
               [txn[r] EXCEPT !.held = @ \cup {y}, !.todo = @ \ {y}])
      BY <1>4 DEF SweepRow
    <2> DEFINE x == [txn[r] EXCEPT !.held = @ \cup {y}, !.todo = @ \ {y}]
               n == IF txn[r].todo = {y} THEN AfterSweep(r) ELSE "sweep"
    <2>0. pc[r] = "sweep" /\ y \in txn[r].todo
      BY <1>4 DEF SweepRow, WantedRow
    <2>1. x.held = txn[r].held \cup {y} /\ x.todo = txn[r].todo \ {y}
      BY <1>0 DEF Txn
    <2> HIDE DEF x
    <2>2. txn[r].held \cup txn[r].todo = x.held \cup x.todo /\ (n # "sweep" => x.todo = {})
      BY <2>0, <2>1
    <2> QED
      BY <1>2, <2>0, <2>2 DEF x
  <1> QED
    BY <1>3, <1>4

-----------------------------------------------------------------------------
(* Commit.                                                                 *)

\* Patches that take no session's ground away, and patches that leave the rights.
KeepsActive(p) == p.state = None /\ p.pw = None /\ p.active \in {TRUE, None}
KeepsRights(p) == p.state = None /\ p.role = None /\ p.active = None

\* Which endpoints write what into users.
LEMMA WhoWrites ==
  ASSUME NEW p, NEW j, NEW x, Shape(p, j, x), j.op \in Op \cup {None}, x.user # None
  PROVE  /\ j.op \in {"login", "change", "reset", "create", "seed", "update", "deactivate",
                      "delete"}
         /\ j.op \in {"login", "update"} => KeepsActive(j.patch)
         /\ j.op \in {"login", "change", "reset"} => KeepsRights(j.patch)
         /\ j.op \in {"create", "seed"} => j.patch.state = "live"
  <1> USE DEF Shape
  <1>0. KeepsActive(NoPatch) /\ KeepsRights(NoPatch)
    <2>1. KeepsActive(NoPatch)
      BY DEF KeepsActive, NoPatch
    <2>2. KeepsRights(NoPatch)
      BY DEF KeepsRights, NoPatch
    <2> QED
      BY <2>1, <2>2
  <1>1. CASE j.op \in {"create", "seed"}
    BY <1>1 DEF Adding, Op, Empty
  <1>2. CASE j.op \in {"update", "deactivate"}
    BY <1>2 DEF Updating, SetsRights, Op, KeepsActive
  <1>3. CASE j.op = "delete"
    BY <1>3
  <1>4. CASE j.op \in {"change", "reset"}
    BY <1>4 DEF Changing, Resetting, SetsPassword, Op, KeepsRights
  <1>5. CASE j.op = "login"
    BY <1>0, <1>5 DEF Signing
  <1>6. CASE j.op \in {"refresh", "logout", "logout_all", "forgot", None}
    BY <1>6 DEF Rotating, Leaving, LeavingAll, Asking, Op, Empty
  <1> QED
    BY <1>1, <1>2, <1>3, <1>4, <1>5, <1>6 DEF Op

\* An account that was in use before a commit: it is as before, or it is the one
\* the request has written.
LEMMA UsedAccount ==
  ASSUME AInv, NEW r \in Req, Commit(r), NEW u \in User, users[u].state = "live"
  PROVE  \/ users'[u] = users[u]
         \/ /\ u = job[r].user /\ u = txn[r].user
            /\ job[r].op \in {"login", "change", "reset", "update", "deactivate", "delete"}
            /\ job[r].op \in {"login", "update"} =>
                  /\ users'[u].state = "live" /\ users'[u].pw = users[u].pw
                  /\ users[u].active => users'[u].active
            /\ job[r].op \in {"login", "change", "reset"} =>
                  /\ users'[u].state = "live"
                  /\ users'[u].active = users[u].active /\ users'[u].role = users[u].role
  <1> USE DEF AInv, IInv
  <1>1. CASE u # txn[r].user
    BY <1>1, CommitUsers
  <1>2. CASE u = txn[r].user
    <2> DEFINE p == job[r].patch
    <2>1. Shape(pc[r], job[r], txn[r]) /\ job[r].op \in Op \cup {None}
      BY DEF Shapes, TypeOK, Job
    <2>2. txn[r].user # None
      BY <1>2, NamesAssumption
    <2>3. u = job[r].user /\ users'[u] = Patched(users[u], p) /\ p.state # "live"
      BY <1>2, <2>2, CommitUsers
    <2>4. /\ job[r].op \in {"login", "change", "reset", "update", "deactivate", "delete"}
          /\ job[r].op \in {"login", "update"} => KeepsActive(p)
          /\ job[r].op \in {"login", "change", "reset"} => KeepsRights(p)
      BY <2>1, <2>2, <2>3, WhoWrites
    <2>5. ASSUME KeepsActive(p)
          PROVE  /\ users'[u].state = "live" /\ users'[u].pw = users[u].pw
                 /\ users[u].active => users'[u].active
      <3>1. users'[u].state = "live" /\ users'[u].pw = users[u].pw
        BY <2>3, <2>5 DEF KeepsActive, Patched
      <3>2. p.active \in {TRUE, None} /\ users'[u] = Patched(users[u], p)
        BY <2>3, <2>5 DEF KeepsActive
      <3>3. users[u].active => Patched(users[u], p).active
        BY <3>2 DEF Patched
      <3> QED
        BY <3>1, <3>2, <3>3
    <2>6. ASSUME KeepsRights(p)
          PROVE  /\ users'[u].state = "live"
                 /\ users'[u].active = users[u].active /\ users'[u].role = users[u].role
      BY <2>3, <2>6 DEF KeepsRights, Patched
    <2> QED
      BY <1>2, <2>3, <2>4, <2>5, <2>6
  <1> QED
    BY <1>1, <1>2

\* The sessions left by a commit match the password of an account in use.
LEMMA CommitSessions ==
  ASSUME LInv, NEW r \in Req, Commit(r), NEW t \in Jti, tokens'[t].state = "live"
  PROVE  /\ tokens'[t].pw = users'[tokens'[t].user].pw
         /\ CanSignIn(tokens[t].user)'
  <1> USE DEF LInv, AInv, IInv
  <1>0. /\ Shape("commit", job[r], txn[r]) /\ Current("commit", job[r], txn[r])
        /\ WellFormed("commit", job[r], txn[r]) /\ job[r].op \in Op \cup {None}
    BY DEF Shapes, AllCurrent, TypeOK, Job, Commit
  <1>1. CASE t = txn[r].mint
    <2> DEFINE u == job[r].user
    <2>1. /\ tokens'[t] = MintedToken(r) /\ MintedToken(r).user = u /\ u \in User
      BY <1>1, CommitTokens, CommitMint
    <2>2. \/ job[r].op = "login" /\ job[r].row = None
          \/ /\ job[r].op = "refresh" /\ job[r].row \in Jti
             /\ tokens[job[r].row].state = "live" /\ tokens[job[r].row].user = u
      BY <1>0, <1>1 DEF WellFormed
    <2>3. CASE job[r].op = "login" /\ job[r].row = None
      <3>1. MintedToken(r).pw = users[u].pw /\ CanSignIn(u)
        BY <1>0, <2>3 DEF Current, MintedToken
      <3>2. users'[u].pw = users[u].pw /\ users'[u].state = "live" /\ users'[u].active
        BY <2>1, <2>3, <3>1, UsedAccount DEF CanSignIn
      <3> QED
        BY <2>1, <3>1, <3>2 DEF CanSignIn
    <2>4. CASE /\ job[r].op = "refresh" /\ job[r].row \in Jti
               /\ tokens[job[r].row].state = "live" /\ tokens[job[r].row].user = u
      <3>1. MintedToken(r).pw = users[u].pw /\ CanSignIn(u)
        BY <2>4, NamesAssumption
        DEF MintedToken, Records, SessionsMatchPassword, InactiveHasNoSession, Row
      <3>2. users'[u] = users[u]
        BY <2>1, <2>4, <3>1, UsedAccount DEF CanSignIn
      <3> QED
        BY <2>1, <3>1, <3>2 DEF CanSignIn
    <2> QED
      BY <2>2, <2>3, <2>4
  <1>2. CASE t # txn[r].mint
    <2> DEFINE u == tokens[t].user
    <2>1. t \notin txn[r].held /\ tokens'[t] = tokens[t]
      BY <1>2, CommitTokens, RevokedFields
    <2>2. tokens[t].state = "live" /\ u \in User /\ tokens[t].pw = users[u].pw /\ CanSignIn(u)
      BY <2>1 DEF TokenRows, Records, SessionsMatchPassword, InactiveHasNoSession
    <2>3. u = job[r].user => job[r].op \notin {"change", "reset", "deactivate", "delete"}
      BY <1>0, <2>1, <2>2 DEF Current, Covered, Live
    <2>4. users'[u].pw = users[u].pw /\ users'[u].state = "live" /\ users'[u].active
      BY <2>2, <2>3, UsedAccount DEF CanSignIn
    <2> QED
      BY <2>1, <2>2, <2>4 DEF CanSignIn
  <1> QED
    BY <1>1, <1>2

\* A link is used at most once, and a new one takes the older back.
LEMMA CommitLinks ==
  ASSUME LInv, NEW r \in Req, Commit(r)
  PROVE  ResetSingleUse' /\ LinkCounts' /\ OneResetLink'
  <1> USE DEF LInv, AInv, IInv
  <1>0. /\ Shape("commit", job[r], txn[r]) /\ Current("commit", job[r], txn[r])
        /\ job[r].op \in Op \cup {None}
    BY DEF Shapes, AllCurrent, TypeOK, Job, Commit
  <1>1. \A l \in Reset : /\ resets[l] \in ResetRow /\ resets[l].uses \in Nat
                         /\ resets[l].uses <= 1
                         /\ resets[l].state # "used" => resets[l].uses = 0
    BY DEF TypeOK, ResetRow, MaxUses, Records, ResetSingleUse, LinkCounts
  <1>2. \A l \in Reset : l = txn[r].mint =>
           /\ job[r].op = "forgot"
           /\ resets'[l].state = "fresh" /\ resets'[l].user = job[r].user /\ resets'[l].uses = 0
    <2>1. txn[r].mint \in Reset => job[r].op = "forgot"
      BY <1>0, NamesAssumption
      DEF Op, Row, Shape, Empty, OrderlySweep, Signing, Rotating, Leaving, LeavingAll, Changing,
          Resetting, Adding, Updating, Deleting
    <2>2. \A l \in Reset : l = txn[r].mint => resets'[l] = MintedReset(r)
      BY DEF Commit
    <2> QED
      BY <2>1, <2>2 DEF MintedReset
  <1>3. \A l \in Reset : (l \in txn[r].held /\ l # txn[r].mint) =>
           /\ resets'[l].state = "used" /\ resets'[l].uses <= 1 /\ resets'[l].uses \in Nat
    <2> SUFFICES ASSUME NEW l \in Reset, l \in txn[r].held, l # txn[r].mint
                 PROVE  /\ resets'[l].state = "used"
                        /\ resets'[l].uses <= 1 /\ resets'[l].uses \in Nat
      OBVIOUS
    <2>1. resets'[l] = UsedReset(r, l)
      BY DEF Commit
    <2>2. job[r].op = "reset" => resets[l].uses = 0
      <3>1. job[r].op = "reset" => l = job[r].row
        BY <1>0, NamesAssumption DEF Shape, Resetting, OrderlySweep
      <3> QED
        BY <1>0, <1>1, <3>1 DEF Current
    <2>3. CASE job[r].op = "reset"
      <3> DEFINE n == resets[l].uses
                 m == IF job[r].op = "reset" /\ n < MaxUses THEN n + 1 ELSE n
      <3>1. UsedReset(r, l) = [resets[l] EXCEPT !.state = "used", !.uses = m]
        BY DEF UsedReset
      <3>2. n = 0
        BY <2>2, <2>3
      <3>3. m = 1
        BY <2>3, <3>2 DEF MaxUses
      <3> HIDE DEF m
      <3>4. resets'[l].state = "used" /\ resets'[l].uses = m
        BY <1>1, <2>1, <3>1 DEF ResetRow
      <3> QED
        BY <3>3, <3>4
    <2>4. CASE job[r].op # "reset"
      BY <1>1, <2>1, <2>4 DEF UsedReset, ResetRow
    <2> QED
      BY <2>3, <2>4
  <1>4. \A l \in Reset : (l \notin txn[r].held /\ l # txn[r].mint) => resets'[l] = resets[l]
    BY DEF Commit
  <1>5. ResetSingleUse' /\ LinkCounts'
    <2>1. \A l \in Reset : resets'[l].uses <= 1 /\ (resets'[l].state # "used" => resets'[l].uses = 0)
      BY <1>1, <1>2, <1>3, <1>4
    <2> QED
      BY <2>1 DEF ResetSingleUse, LinkCounts
  <1>6. OneResetLink'
    <2>1. \A l \in Reset : (resets'[l].state = "fresh" /\ l # txn[r].mint) =>
             /\ resets[l].state = "fresh" /\ l \notin txn[r].held
             /\ resets'[l].user = resets[l].user
      BY <1>3, <1>4
    <2>2. \A l, m \in Reset :
             (resets'[l].state = "fresh" /\ l # txn[r].mint /\ m = txn[r].mint) =>
                resets'[l].user # resets'[m].user
      BY <1>0, <1>2, <2>1 DEF Current, Covered, Fresh
    <2>3. \A l, m \in Reset :
             (resets'[l].state = "fresh" /\ l # txn[r].mint
                /\ resets'[m].state = "fresh" /\ m # txn[r].mint
                /\ resets'[l].user = resets'[m].user) => l = m
      BY <2>1 DEF Records, OneResetLink
    <2> QED
      BY <2>2, <2>3 DEF OneResetLink
  <1> QED
    BY <1>5, <1>6

\* The administrator whose request it is stays one, or another does.
LEMMA CommitAdmin ==
  ASSUME LInv, NEW r \in Req, Commit(r), AdminRemains
  PROVE  AdminRemains'
  <1> USE DEF LInv, AInv, IInv
  <1>0. Shape("commit", job[r], txn[r]) /\ Current("commit", job[r], txn[r])
    BY DEF Shapes, AllCurrent, Commit
  <1>1. ASSUME NEW a \in User, IsAdmin(a),
               \/ a # job[r].user
               \/ job[r].op \notin {"update", "deactivate", "delete"}
        PROVE  users'[a].state = "live" /\ users'[a].active /\ users'[a].role = "admin"
    BY <1>1, UsedAccount DEF IsAdmin, CanSignIn
  <1> DEFINE Untouched(a) == \/ a # job[r].user
                             \/ job[r].op \notin {"update", "deactivate", "delete"}
  <1>2. \E a \in User : IsAdmin(a) /\ Untouched(a)
    <2>1. CASE job[r].op \in {"update", "deactivate", "delete"}
      BY <1>0, <2>1 DEF Current
    <2>2. CASE job[r].op \notin {"update", "deactivate", "delete"}
      BY <2>2 DEF AdminRemains, IsAdmin
    <2> QED
      BY <2>1, <2>2
  <1>3. \A a \in User : IsAdmin(a) /\ Untouched(a) =>
           users'[a].state = "live" /\ users'[a].active /\ users'[a].role = "admin"
    BY <1>1
  <1> HIDE DEF Untouched
  <1>4. PICK a \in User :
           users'[a].state = "live" /\ users'[a].active /\ users'[a].role = "admin"
    BY <1>2, <1>3, Zenon
  <1>5. CanSignIn(a)' /\ users'[a].role = "admin"
    BY <1>4 DEF CanSignIn
  <1> QED
    BY <1>5 DEF AdminRemains

\* Nothing has changed since the request read it, so what it commits keeps the records.
LEMMA CommitCurrent ==
  ASSUME OneAtATime, LInv, NEW r \in Req, Commit(r)
  PROVE  AllCurrent' /\ Records'
  <1> USE DEF LInv, AInv, IInv
  <1>1. AllCurrent'
    <2>1. CASE job[r].op = "forgot"
      <3>1. \A q \in Req : pc'[q] = "mail" /\ job'[q].op = "forgot"
        BY <2>1 DEF Commit, OneAtATime, TypeOK, Job
      <3> QED
        BY <3>1 DEF AllCurrent, Current, Covered
    <2>2. CASE job[r].op # "forgot"
      <3>1. \A q \in Req : job'[q].op = None
        BY <2>2 DEF Commit, OneAtATime, TypeOK, NoJob
      <3> QED
        BY <3>1, NamesAssumption DEF AllCurrent, Current, Op
    <2> QED
      BY <2>1, <2>2
  <1>2. SessionsMatchPassword' /\ InactiveHasNoSession'
    BY CommitSessions DEF SessionsMatchPassword, InactiveHasNoSession
  <1>3. FirstAdmin => AdminRemains'
    BY CommitAdmin DEF Records
  <1> QED
    BY <1>1, <1>2, <1>3, CommitLinks DEF Records, FirstAdmin

-----------------------------------------------------------------------------
(* The theorems.                                                           *)

\* At the start there are no sessions and no links.
LEMMA InitLInv == Init => LInv
  <1> SUFFICES ASSUME Init PROVE LInv
    OBVIOUS
  <1>1. AllCurrent
    BY NamesAssumption DEF Init, AllCurrent, Current, NoJob, Op
  <1>2. /\ \A t \in Jti : tokens[t].state # "live"
        /\ \A l \in Reset : resets[l].state = "absent" /\ resets[l].uses = 0
    BY DEF Init, NoToken, NoReset
  <1>3. FirstAdmin => AdminRemains
    BY DEF Init, FirstAdmin, AdminRemains, CanSignIn
  <1>4. Records
    BY <1>2, <1>3
    DEF Records, SessionsMatchPassword, InactiveHasNoSession, ResetSingleUse, LinkCounts,
        OneResetLink
  <1> QED
    BY <1>1, <1>4, InitAInv DEF LInv

\* Every step preserves LInv if there is one slot for requests.
LEMMA NextLInv == OneAtATime /\ LInv /\ [Next]_vars => LInv'
  <1> SUFFICES ASSUME OneAtATime, LInv, [Next]_vars
               PROVE  LInv'
    OBVIOUS
  <1> USE DEF LInv
  <1>0. TypeOK /\ Shapes
    BY DEF AInv, IInv
  <1>1. ASSUME UNCHANGED <<users, tokens, resets, pc, job, txn>>
        PROVE  AllCurrent' /\ Records'
    BY <1>1
    DEF AllCurrent, Current, Covered, Live, Fresh, IsAdmin, CanSignIn, Records,
        SessionsMatchPassword, InactiveHasNoSession, ResetSingleUse, LinkCounts, OneResetLink,
        AdminRemains
  <1>2. ASSUME NEW r \in Req, Start(r) \/ Work(r) \/ Abort(r)
        PROVE  AllCurrent' /\ Records'
    BY <1>0, <1>2, StartCurrent, SessionStepCurrent, PasswordStepCurrent, AdminStepCurrent,
       SweepCurrent, CommitCurrent, RollbackCurrent
    DEF Work, Abort
  <1>3. AllCurrent' /\ Records'
    BY <1>1, <1>2 DEF Next, Expire, vars
  <1> QED
    BY <1>3, NextAInv

\* The inductive invariant of a service with one slot: what the request in it has
\* read is still so, and the sweep it makes misses nothing.
THEOREM SpecLInv == OneAtATime => (Spec => []LInv)
  <1> SUFFICES ASSUME OneAtATime PROVE Spec => []LInv
    OBVIOUS
  <1>1. LInv /\ [Next]_vars => LInv'
    BY NextLInv
  <1> QED
    BY <1>1, InitLInv, PTL DEF Spec

\* With one request at a time every live session was opened under the password its
\* account has now: a change or a reset takes the others back in the commit that
\* stores the new hash (services/auth.py, change_password and reset_password).
THEOREM SessionsFollowPassword == OneAtATime => (Spec => []SessionsMatchPassword)
  <1> SUFFICES ASSUME OneAtATime PROVE Spec => []SessionsMatchPassword
    OBVIOUS
  <1>1. LInv => SessionsMatchPassword
    BY DEF LInv, Records
  <1> QED
    BY <1>1, SpecLInv, PTL

\* With one request at a time a reset link changes at most one password
\* (services/auth.py, reset_password: is_usable, then mark_used).
THEOREM LinkUsedOnce == OneAtATime => (Spec => []ResetSingleUse)
  <1> SUFFICES ASSUME OneAtATime PROVE Spec => []ResetSingleUse
    OBVIOUS
  <1>1. LInv => ResetSingleUse
    BY DEF LInv, Records
  <1> QED
    BY <1>1, SpecLInv, PTL

\* With one request at a time an account has at most one link that still works
\* (services/auth.py, forgot_password: the older ones go before the new one).
THEOREM OneLinkPerAccount == OneAtATime => (Spec => []OneResetLink)
  <1> SUFFICES ASSUME OneAtATime PROVE Spec => []OneResetLink
    OBVIOUS
  <1>1. LInv => OneResetLink
    BY DEF LInv, Records
  <1> QED
    BY <1>1, SpecLInv, PTL

\* With one request at a time an account that may not sign in holds no live session
\* (services/user.py, update, deactivate and delete sweep the tokens they orphan).
THEOREM NoSessionWhenInactive == OneAtATime => (Spec => []InactiveHasNoSession)
  <1> SUFFICES ASSUME OneAtATime PROVE Spec => []InactiveHasNoSession
    OBVIOUS
  <1>1. LInv => InactiveHasNoSession
    BY DEF LInv, Records
  <1> QED
    BY <1>1, SpecLInv, PTL

\* With one request at a time, a service that starts with an administrator keeps one:
\* an administrator may neither demote nor delete themself (services/user.py, the
\* self-checks of update, deactivate and delete).
THEOREM AnAdministratorStays == OneAtATime /\ FirstAdmin => (Spec => []AdminRemains)
  <1> SUFFICES ASSUME OneAtATime, FirstAdmin PROVE Spec => []AdminRemains
    OBVIOUS
  <1>1. LInv => AdminRemains
    BY DEF LInv, Records
  <1> QED
    BY <1>1, SpecLInv, PTL
=============================================================================
