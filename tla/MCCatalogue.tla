----------------------------- MODULE MCCatalogue -----------------------------
(***************************************************************************)
(* Finite instances of Catalogue for TLC.                                  *)
(***************************************************************************)
EXTENDS Catalogue, TLC

\* The slots are interchangeable, and so are the names, the categories, the
\* products and the variants: every configuration treats them alike.
Interchangeable ==
    UNION {Permutations(s) : s \in {Req, Name, Category, Product, Variant}}

\* No step reads the log: states that differ in it alone are the same state.
RowsAndRequests == <<rows, pc, job, txn>>
=============================================================================
