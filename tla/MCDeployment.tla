---------------------------- MODULE MCDeployment ----------------------------
(***************************************************************************)
(* A finite instance of Deployment for TLC.                                *)
(***************************************************************************)
EXTENDS Deployment, TLC

CONSTANTS v1, v2, k1

\* One coded variant, of jupiter-models.json.
OneCoded == [v \in Variant |->
    IF v = v1 THEN [code |-> k1, wide |-> FALSE, card |-> FALSE] ELSE None]

\* The imports are interchangeable.
AnyImport == Permutations(Importer)
=============================================================================
