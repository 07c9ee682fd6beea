--------------------------- MODULE SessionLineage ---------------------------
(***************************************************************************)
(* What the refresh-token service promises.  A lineage is named by the     *)
(* token its login was answered with.  While it is open exactly one token  *)
(* is accepted for it; a refresh replaces that token by one that was never *)
(* issued before; closed, it accepts nothing any more and stays closed.    *)
(***************************************************************************)
CONSTANT Jti

VARIABLES
    issued,   \* tokens handed out so far
    accepted  \* the tokens accepted for each lineage

Init ==
    /\ issued = {}
    /\ accepted = [x \in Jti |-> {}]

\* A login.
Open(x) ==
    /\ x \notin issued
    /\ issued' = issued \cup {x}
    /\ accepted' = [accepted EXCEPT ![x] = {x}]

\* A refresh of lineage x.
Rotate(x, new) ==
    /\ \E t \in Jti : accepted[x] = {t}
    /\ new \notin issued
    /\ issued' = issued \cup {new}
    /\ accepted' = [accepted EXCEPT ![x] = {new}]

\* A logout, or the end of many sessions at once.
Close(S) ==
    /\ accepted' = [x \in Jti |-> IF x \in S THEN {} ELSE accepted[x]]
    /\ UNCHANGED issued

Next ==
    \/ \E x \in Jti : Open(x)
    \/ \E x, new \in Jti : Rotate(x, new)
    \/ \E S \in SUBSET Jti : Close(S)

Spec == Init /\ [][Next]_<<issued, accepted>>
=============================================================================
