-------------------------- MODULE PasswordLifecycle --------------------------
(***************************************************************************)
(* change-password, forgot-password and reset-password                     *)
(* (app/services/auth.py).                                                 *)
(***************************************************************************)
EXTENDS RadiumDb

\* The caller was loaded by get_current_user; the current password is checked
\* against that copy, then the new one is hashed.  A wrong one is a 400.
ChangeRead(r) ==
    \E u \in User, p \in Password :
        /\ HasAccess(u)
        /\ Begin(r, "change", "user",
                 [NoJob EXCEPT !.op = "change", !.user = u,
                               !.patch = [NoPatch EXCEPT !.pw = p]])

\* Mistake: the sessions are left alone.
ChangeFlushOnly(r) == job[r].op = "change" /\ LockUser(r, "commit")

\* The UPDATE of users is flushed before revoke_all_for_user executes.
ChangeFlush(r) == job[r].op = "change" /\ LockUser(r, "snapshot")

\* Mistake: the links sent before stay valid.
ForgotReadKeeps(r) ==
    \E u \in User :
        /\ CanSignIn(u) /\ Room(Reset, {"forgot"})
        /\ Begin(r, "forgot", "link", [NoJob EXCEPT !.op = "forgot", !.user = u])

\* An unknown or inactive user gets the same answer and nothing is written.
ForgotRead(r) ==
    \E u \in User :
        /\ CanSignIn(u) /\ Room(Reset, {"forgot"})
        /\ Begin(r, "forgot", "snapshot", [NoJob EXCEPT !.op = "forgot", !.user = u])

\* After the sweep of the user's unused links (invalidate_all_for_user).
ForgotInsert(r) ==
    /\ pc[r] = "link"
    /\ \E l \in Reset :
          /\ IsNew(l, Reset)
          /\ Step(r, "commit", job[r], [txn[r] EXCEPT !.mint = l])

\* The mail goes out after the commit: if sending fails the link stays stored.
ForgotMail(r) ==
    /\ pc[r] = "mail"
    /\ resets' = [resets EXCEPT ![job[r].row].mailed = TRUE]
    /\ pc' = [pc EXCEPT ![r] = "idle"]
    /\ job' = [job EXCEPT ![r] = NoJob]
    /\ UNCHANGED <<users, tokens, expired, txn>>

\* Mistake: used_at is not looked at.
ResetReadUsed(r) ==
    \E l \in Reset, p \in Password :
        /\ resets[l].state # "absent" /\ resets[l].mailed /\ l \notin expired
        /\ Begin(r, "reset", "owner",
                 [NoJob EXCEPT !.op = "reset", !.row = l, !.user = resets[l].user,
                               !.patch = [NoPatch EXCEPT !.pw = p]])

\* get_valid_by_hash: unused and not expired, when it is read.
ResetRead(r) ==
    \E l \in Reset, p \in Password :
        /\ resets[l].state = "fresh" /\ resets[l].mailed /\ l \notin expired
        /\ Begin(r, "reset", "owner",
                 [NoJob EXCEPT !.op = "reset", !.row = l, !.user = resets[l].user,
                               !.patch = [NoPatch EXCEPT !.pw = p]])

ResetOwner(r) ==
    /\ pc[r] = "owner" /\ job[r].op = "reset"
    /\ IF CanSignIn(job[r].user) THEN Step(r, "mark", job[r], txn[r]) ELSE Rollback(r)

\* mark_used flushes both instances.  No relationship() orders their mappers, so
\* SQLAlchemy takes them by name and password_reset_tokens comes before users; the
\* link is updated by primary key, used or not.
ResetMark(r) == job[r].op = "reset" /\ LockRow(r, "user")
ResetFlush(r) == job[r].op = "reset" /\ LockUser(r, "snapshot")

PasswordBegin(r) == ChangeRead(r) \/ ForgotRead(r) \/ ResetRead(r)
PasswordStep(r) ==
    \/ ChangeFlush(r)
    \/ ForgotInsert(r) \/ ForgotMail(r)
    \/ ResetOwner(r) \/ ResetMark(r) \/ ResetFlush(r)
=============================================================================
