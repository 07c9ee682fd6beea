------------------------------- MODULE MCLists -------------------------------
(***************************************************************************)
(* A finite instance of Lists for TLC.                                     *)
(***************************************************************************)
EXTENDS Lists

\* Up to four pages of one row or two of two, by either kind of column and in
\* either order.
Walks ==
    {[sort_by |-> None, order |-> "asc", page_size |-> n] : n \in {1, 2}} \cup
    {[sort_by |-> "field", order |-> "asc", page_size |-> 1],
     [sort_by |-> "field", order |-> "desc", page_size |-> 2]}
=============================================================================
