------------------------------ MODULE UserAdmin ------------------------------
(***************************************************************************)
(* The administrator's endpoints on accounts (app/services/user.py):       *)
(* create, update (role, is_active) and soft-delete; and the script that   *)
(* gives the service its first administrator (app/db/seed.py).             *)
(***************************************************************************)
EXTENDS RadiumDb

CONSTANT FIRST_SUPERUSER_EMAIL

ASSUME SuperuserAssumption == FIRST_SUPERUSER_EMAIL \in Email

\* Bound: an account is created only while a key is left for it.
NewUser(u) == users[u].state = "absent" /\ \A q \in Req : txn[q].user # u

UserRoom ==
    Cardinality({u \in User : users[u].state = "absent"})
        > Cardinality({q \in Req : job[q].op \in {"create", "seed"}})

\* get_current_user and require_roles.  job[r].user is the administrator until
\* the account to work on is loaded.
AdminRead(r) ==
    \E a \in User, op \in {"create", "update", "delete"} :
        /\ HasAccess(a) /\ users[a].role = "admin"
        /\ op = "create" => UserRoom
        /\ Begin(r, op, "load", [NoJob EXCEPT !.op = op, !.user = a])

EmailTaken(e) == \E u \in User : users[u].state = "live" /\ users[u].email = e

\* email_exists, then the password is hashed.
CreateCheck(r) ==
    /\ pc[r] = "load" /\ job[r].op = "create"
    /\ \E e \in Email, p \in Given, role \in Role, active \in BOOLEAN :
          IF EmailTaken(e) THEN Rollback(r)
          ELSE Step(r, "insert",
                    [job[r] EXCEPT !.patch = [state |-> "live", email |-> e, pw |-> p,
                                              role |-> role, active |-> active]],
                    txn[r])

\* seed: nothing to do once an account in use has the email; otherwise the
\* password is hashed and the row added.  It may be run at any time, more than
\* once, also while the service runs.
SeedRead(r) ==
    /\ UserRoom /\ ~EmailTaken(FIRST_SUPERUSER_EMAIL)
    /\ \E p \in Given :
          Begin(r, "seed", "insert",
                [NoJob EXCEPT !.op = "seed",
                              !.patch = [state |-> "live", email |-> FIRST_SUPERUSER_EMAIL,
                                         pw |-> p, role |-> "admin", active |-> TRUE]])

\* Mistake: no unique index, email_exists alone guards the INSERT.
CreateFlushUnguarded(r) ==
    /\ pc[r] = "insert" /\ WaitsFor(r) = {}
    /\ \E u \in User :
          /\ NewUser(u)
          /\ Step(r, "commit", [job[r] EXCEPT !.user = u], [txn[r] EXCEPT !.user = u])

\* The INSERT: the partial unique index lets one live row per email in; the
\* IntegrityError is caught, rolled back and answered with a 409.  It ends the
\* seed script, whose session is rolled back as it closes.
CreateFlush(r) ==
    /\ pc[r] = "insert" /\ WaitsFor(r) = {}
    /\ IF EmailTaken(job[r].patch.email) THEN Rollback(r)
       ELSE \E u \in User :
               /\ NewUser(u)
               /\ Step(r, "commit", [job[r] EXCEPT !.user = u],
                       [txn[r] EXCEPT !.user = u])

\* Mistake: the loaded copy is written back whole.
WholeRow(u, role, active) ==
    [NoPatch EXCEPT !.pw = users[u].pw,
                    !.role = IF role = None THEN users[u].role ELSE role,
                    !.active = IF active = None THEN users[u].active ELSE active]

\* What the ORM will UPDATE: the columns that differ from the loaded copy.
NetChange(u, role, active) ==
    [NoPatch EXCEPT !.role = IF role = users[u].role THEN None ELSE role,
                    !.active = IF active = users[u].active THEN None ELSE active]

\* get_user, then the self-checks.  For the administrator's own account the
\* request is refused or changes nothing that is modelled.  A request whose
\* changes hold is_active False goes on as "deactivate": it will sweep.
UpdateLoad(r) ==
    /\ pc[r] = "load" /\ job[r].op = "update"
    /\ \/ Rollback(r)
       \/ \E u \in User \ {job[r].user}, role \in Role \cup {None},
             active \in BOOLEAN \cup {None} :
             LET patch == NetChange(u, role, active) IN
             /\ users[u].state = "live"
             /\ Step(r, IF patch # NoPatch THEN "user"
                        ELSE IF active = FALSE THEN "snapshot" ELSE "commit",
                     [job[r] EXCEPT !.op = IF active = FALSE THEN "deactivate" ELSE @,
                                    !.user = u, !.patch = patch],
                     txn[r])

\* Mistake: a deactivated account keeps its sessions.
UpdateFlushOnly(r) == job[r].op \in {"update", "deactivate"} /\ LockUser(r, "commit")

UpdateFlush(r) ==
    \/ job[r].op = "update" /\ LockUser(r, "commit")
    \/ job[r].op = "deactivate" /\ LockUser(r, "snapshot")

\* Mistake: no self-check.
DeleteLoadSelf(r) ==
    /\ pc[r] = "load" /\ job[r].op = "delete"
    /\ \E u \in User :
          /\ users[u].state = "live"
          /\ Step(r, "user",
                  [job[r] EXCEPT !.user = u, !.patch = [NoPatch EXCEPT !.state = "deleted"]],
                  txn[r])

\* The self-check comes before get_user; an unknown account is a 404.
DeleteLoad(r) ==
    /\ pc[r] = "load" /\ job[r].op = "delete"
    /\ \/ Rollback(r)
       \/ \E u \in User \ {job[r].user} :
             /\ users[u].state = "live"
             /\ Step(r, "user",
                     [job[r] EXCEPT !.user = u,
                                    !.patch = [NoPatch EXCEPT !.state = "deleted"]],
                     txn[r])

DeleteFlush(r) == job[r].op = "delete" /\ LockUser(r, "snapshot")

AdminBegin(r) == AdminRead(r) \/ SeedRead(r)
AdminStep(r) ==
    CreateCheck(r) \/ CreateFlush(r) \/ UpdateLoad(r) \/ UpdateFlush(r)
        \/ DeleteLoad(r) \/ DeleteFlush(r)
=============================================================================
