------------------------------- MODULE MCAuth -------------------------------
(***************************************************************************)
(* Finite instances of Auth for TLC.                                       *)
(***************************************************************************)
EXTENDS AuthInvariant, TLC

CONSTANTS u1, u2, e1, e2, p1

NoAccount == [u \in User |-> NoUser]

Account(email, role) ==
    [state |-> "live", email |-> email, pw |-> p1, role |-> role, active |-> TRUE]

\* One administrator; the other keys are free.
AdminOnly == [u \in User |-> IF u = u1 THEN Account(e1, "admin") ELSE NoAccount[u]]

\* And one member of staff.
TwoUsers == [u \in User |-> IF u = u2 THEN Account(e2, "staff") ELSE AdminOnly[u]]

\* The slots are interchangeable (safety runs only).
AnySlot == Permutations(Req)

\* So are the keys of users while the table is empty.
AnySlotOrKey == Permutations(Req) \cup Permutations(User)
=============================================================================
