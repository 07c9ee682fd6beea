---------------------------- MODULE AuthInvariant ----------------------------
(***************************************************************************)
(* Why OneLivePerLineage and RotationChain hold: the strengthening that    *)
(* every step of Auth preserves.                                           *)
(***************************************************************************)
EXTENDS Auth

\* A request at step p with job j and transaction x that is about to touch
\* refresh tokens.
WellFormed(p, j, x) ==
    /\ p = "claim" => j.op = "refresh"
    /\ p = "link" => j.op = "forgot"
    /\ p = "owner" => x.held = {}
    /\ j.row \in Jti => tokens[j.row].state # "absent"
    /\ j.op \in {"logout", "reset"} => j.row \in Row
    /\ j.op = "login" =>
          p \in {"user", "commit"} /\ j.row = None /\ j.user \in User /\ x.held = {}
    /\ j.op = "refresh" =>
          /\ p \in {"owner", "claim", "snapshot", "sweep", "commit"}
          /\ j.row \in Jti /\ tokens[j.row].user = j.user
    /\ x.mint \in Jti =>
          /\ tokens[x.mint].state = "absent" /\ j.user \in User
          /\ \/ j.op = "login" /\ p = "commit"
             \/ j.op = "refresh" /\ p = "claim" /\ x.held = {}
             \/ /\ j.op = "refresh" /\ p = "commit" /\ x.held = {j.row}
                /\ tokens[j.row].state = "live"
    /\ \A t \in Jti : t \in x.held \cup x.todo => tokens[t].state # "absent"

\* A row has one writer at a time, and two transactions never insert one token.
Exclusive ==
    \A r, q \in Req :
        r # q => /\ txn[r].held \cap txn[q].held = {}
                 /\ txn[r].mint \in Jti => txn[r].mint # txn[q].mint

TokenRows ==
    \A t \in Jti :
        /\ tokens[t].state = "absent" => tokens[t] = NoToken
        /\ tokens[t].state # "absent" =>
              /\ tokens[t].user \in User
              /\ tokens[t].root \in Jti /\ tokens[tokens[t].root].state # "absent"
              /\ tokens[t].parent = None => tokens[t].root = t
        /\ tokens[t].state = "live" => tokens[t].replaced = None

IInv ==
    /\ TypeOK
    /\ \A r \in Req : WellFormed(pc[r], job[r], txn[r])
    /\ Exclusive
    /\ TokenRows
    /\ OneLivePerLineage
    /\ RotationChain
=============================================================================
