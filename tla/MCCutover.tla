------------------------------ MODULE MCCutover ------------------------------
(***************************************************************************)
(* Cutover for TLC: two processes configured for TigerBeetle and one for    *)
(* PostgreSQL.                                                              *)
(***************************************************************************)
EXTENDS Cutover, TLC

CONSTANTS p1, p2, p3, x1, x2, k1, a1

MCAuthorityOf == [p \in Processes |-> IF p = p3 THEN "postgresql" ELSE "tigerbeetle"]

CutoverSymmetry ==
    Permutations({p1, p2}) \cup Permutations(Artifacts)
=============================================================================
