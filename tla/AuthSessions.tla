---------------------------- MODULE AuthSessions ----------------------------
(***************************************************************************)
(* Login, refresh, logout and logout-all (app/services/auth.py).  A login  *)
(* starts a lineage of refresh tokens; each refresh revokes the token it   *)
(* was given and mints the next one.                                       *)
(***************************************************************************)
EXTENDS RadiumDb

Minting == {"login", "refresh"}

\* authenticate: the user is loaded by email and the password checked against
\* the loaded hash; the check runs in a thread, so others run meanwhile.  The
\* 401s of an unknown email, a wrong password or an inactive user change nothing.
LoginRead(r) ==
    \E u \in User :
        /\ CanSignIn(u) /\ Room(Jti, Minting)
        /\ Begin(r, "login", "user",
                 [NoJob EXCEPT !.op = "login", !.user = u, !.pw = users[u].pw])

\* The flush: UPDATE users SET last_login_at, then INSERT the refresh token.
LoginFlush(r) ==
    /\ pc[r] = "user" /\ job[r].op = "login" /\ WaitsFor(r) = {}
    /\ \E t \in Jti :
          /\ IsNew(t, Jti)
          /\ Step(r, "commit", job[r], [txn[r] EXCEPT !.user = job[r].user, !.mint = t])

\* Mistake: the saved jti and user id are mixed up.
RefreshReadSwapped(r) ==
    \E t \in Jti :
        /\ tokens[t].state # "absent" /\ t \notin expired /\ Room(Jti, Minting)
        /\ Begin(r, "refresh", "owner",
                 [NoJob EXCEPT !.op = "refresh", !.row = tokens[t].user, !.user = t])

\* _decode_refresh, get_by_jti and the expiry test.  A revoked token passes:
\* whether it was revoked is for claim to find out.
RefreshRead(r) ==
    \E t \in Jti :
        /\ tokens[t].state # "absent" /\ t \notin expired /\ Room(Jti, Minting)
        /\ Begin(r, "refresh", "owner",
                 [NoJob EXCEPT !.op = "refresh", !.row = t, !.user = tokens[t].user])

\* users.get and the is_active test, then the INSERT of the replacement.
RefreshMint(r) ==
    /\ pc[r] = "owner" /\ job[r].op = "refresh"
    /\ IF CanSignIn(job[r].user)
       THEN \E t \in Jti :
               /\ IsNew(t, Jti)
               /\ Step(r, "claim", job[r], [txn[r] EXCEPT !.mint = t])
       ELSE Rollback(r)

\* Mistake: the UPDATE without "AND revoked_at IS NULL".
RefreshClaimAlways(r) ==
    /\ pc[r] = "claim" /\ WaitsFor(r) = {}
    /\ Step(r, "commit", job[r], [txn[r] EXCEPT !.held = {job[r].row}])

\* Mistake: no rollback before the sweep, so the replacement is committed.
RefreshClaimKeepsMint(r) ==
    /\ pc[r] = "claim" /\ WaitsFor(r) = {}
    /\ IF tokens[job[r].row].state = "live"
       THEN Step(r, "commit", job[r], [txn[r] EXCEPT !.held = {job[r].row}])
       ELSE Step(r, "snapshot", job[r], txn[r])

\* Mistake: a claim that fails is tried again.
RefreshClaimRetries(r) ==
    /\ pc[r] = "claim" /\ WaitsFor(r) = {}
    /\ IF tokens[job[r].row].state = "live"
       THEN Step(r, "commit", job[r], [txn[r] EXCEPT !.held = {job[r].row}])
       ELSE Step(r, "claim", job[r], txn[r])

\* claim: UPDATE ... WHERE jti AND revoked_at IS NULL.  It waits for the row's
\* lock and sees the row as it is then.  No row updated means the token was
\* revoked before: the replacement is rolled back, every session of the user is
\* swept, and the client gets a 401.
RefreshClaim(r) ==
    /\ pc[r] = "claim" /\ WaitsFor(r) = {}
    /\ IF tokens[job[r].row].state = "live"
       THEN Step(r, "commit", job[r], [txn[r] EXCEPT !.held = {job[r].row}])
       ELSE Step(r, "snapshot", job[r], NoTxn)

\* A token that does not decode, is unknown or is already revoked is ignored.
LogoutRead(r) ==
    \E t \in Jti :
        /\ tokens[t].state = "live" /\ t \notin expired
        /\ Begin(r, "logout", "mark",
                 [NoJob EXCEPT !.op = "logout", !.row = t, !.user = tokens[t].user])

\* RefreshTokenRepository.revoke: the ORM updates the row by primary key, so it
\* revokes whatever happened to it since it was read.
LogoutFlush(r) == job[r].op = "logout" /\ LockRow(r, "commit")

LogoutAllRead(r) ==
    \E u \in User :
        /\ HasAccess(u)
        /\ Begin(r, "logout_all", "snapshot",
                 [NoJob EXCEPT !.op = "logout_all", !.user = u])

SessionBegin(r) == LoginRead(r) \/ RefreshRead(r) \/ LogoutRead(r) \/ LogoutAllRead(r)
SessionStep(r) == LoginFlush(r) \/ RefreshMint(r) \/ RefreshClaim(r) \/ LogoutFlush(r)
=============================================================================
