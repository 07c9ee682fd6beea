-------------------------------- MODULE Auth --------------------------------
(***************************************************************************)
(* Authentication as a whole: the requests of AuthSessions,                *)
(* PasswordLifecycle and UserAdmin interleaved over one database, and what *)
(* must be true of them.                                                   *)
(***************************************************************************)
EXTENDS AuthSessions, PasswordLifecycle, UserAdmin

Start(r) == SessionBegin(r) \/ PasswordBegin(r) \/ AdminBegin(r)

Work(r) ==
    \/ SessionStep(r) \/ PasswordStep(r) \/ AdminStep(r)
    \/ SweepSnapshot(r) \/ SweepRow(r) \/ Commit(r)

Next ==
    \/ \E r \in Req : Start(r) \/ Work(r) \/ Abort(r)
    \/ \E x \in Row : Expire(x)

Spec == Init /\ [][Next]_vars

\* A request that has begun goes on: the event loop and PostgreSQL run what is
\* ready, and PostgreSQL queues the waiters of a row lock, so that one of them
\* is not passed over for ever (hence strong fairness).
Fairness == \A r \in Req : SF_vars(Work(r))

FairSpec == Spec /\ Fairness

-----------------------------------------------------------------------------
(* Safety, whatever the interleaving.                                      *)

\* claim lets one of two concurrent refreshes through: of all the tokens that
\* descend from one login at most one is ever accepted.
OneLivePerLineage ==
    \A s, t \in Jti :
        (tokens[s].state = "live" /\ tokens[t].state = "live"
            /\ tokens[s].root = tokens[t].root) => s = t

\* A replacement exists exactly if the token it replaces was revoked for it and
\* says so: the loser's replacement is never stored, no other revocation
\* overwrites replaced_by_jti, and owner and login are handed on.
RotationChain ==
    \A s \in Jti :
        /\ tokens[s].parent # None =>
              LET p == tokens[tokens[s].parent] IN
              /\ p.state = "revoked" /\ p.replaced = s
              /\ p.user = tokens[s].user /\ p.root = tokens[s].root
        /\ tokens[s].replaced # None => tokens[tokens[s].replaced].parent = s

\* Among requests that wait for row locks there is always one that waits for
\* none of the others: PostgreSQL never has a deadlock to break.
NoWaitCycle ==
    \A S \in (SUBSET Req) \ {{}} : \E r \in S : WaitsFor(r) \cap S = {}

\* The partial unique index: two accounts in use never have the same email,
\* however creations, deletions and rollbacks interleave.
LiveEmailUnique ==
    \A u, v \in User :
        (users[u].state = "live" /\ users[v].state = "live"
            /\ users[u].email = users[v].email) => u = v

\* What ColumnIsolation says of one step.
OwnColumnsOnly ==
    \A u \in User :
        /\ (users[u].state # "absent" /\ users'[u].pw # users[u].pw) =>
              \E r \in Req : /\ pc[r] = "commit" /\ job[r].op \in {"change", "reset"}
                             /\ job[r].user = u /\ users'[u].pw = job[r].patch.pw
        /\ (users[u].state # "absent"
              /\ <<users'[u].role, users'[u].active>> # <<users[u].role, users[u].active>>) =>
              \E r \in Req : /\ pc[r] = "commit" /\ job[r].op \in {"update", "deactivate"}
                             /\ job[r].user = u
        /\ users[u].state = "deleted" => users'[u].state = "deleted"

\* The ORM writes the columns a request changed and not the stale copy it read:
\* a password changes only in the commit of the request that was asked to set
\* it, a role or is_active only in an administrator's, and no commit brings a
\* deleted account back.
ColumnIsolation == [][OwnColumnsOnly]_vars

\* The refresh tokens implement SessionLineage: a lineage that ended never
\* accepts a token again, not even one minted by a request that was in flight.
Lineage ==
    INSTANCE SessionLineage WITH
        issued <- {t \in Jti : tokens[t].state # "absent"},
        accepted <- [x \in Jti |->
                        {t \in Jti : tokens[t].state = "live" /\ tokens[t].root = x}]

LineageSpec == Lineage!Spec

\* Every request that begins ends: no step waits for ever for another request.
RequestCompletes == \A r \in Req : pc[r] # "idle" ~> pc[r] = "idle"

-----------------------------------------------------------------------------
(* Safety of one request at a time (runs with a single slot).              *)

\* After a password was set, no session that an older password opened is left
\* (change_password and reset_password: "Invalidate every existing session").
SessionsMatchPassword ==
    \A t \in Jti : tokens[t].state = "live" => tokens[t].pw = users[tokens[t].user].pw

\* A reset link sets a password once.
ResetSingleUse == \A l \in Reset : resets[l].uses <= 1

\* Asking for a link takes back the links that were sent before.
OneResetLink ==
    \A l, m \in Reset :
        (resets[l].state = "fresh" /\ resets[m].state = "fresh"
            /\ resets[l].user = resets[m].user) => l = m

\* An account that was deactivated or deleted keeps no session.
InactiveHasNoSession ==
    \A t \in Jti : tokens[t].state = "live" => CanSignIn(tokens[t].user)

\* The self-checks keep one administrator who can sign in.
AdminRemains == \E u \in User : CanSignIn(u) /\ users[u].role = "admin"

-----------------------------------------------------------------------------
(* What the documentation says of concurrent requests too.                 *)

Sweeping == {"refresh", "logout_all", "change", "reset", "deactivate", "delete"}

\* "revoke every session": once the UPDATE over a user's sessions is committed,
\* none of the logins it found open has a session left.
EverySessionRevoked ==
    [][\A r \in Req :
          (Commit(r) /\ job[r].op \in Sweeping /\ txn[r].mint = None) =>
             \A t \in Jti :
                tokens'[t].state = "live" =>
                   tokens'[t].root \notin {tokens[x].root : x \in txn[r].held \cap Jti}]_vars
=============================================================================
