---------------------------- MODULE MCAccess ----------------------------
(* The instance of Access for TLC.                                         *)
EXTENDS Access, TLC

CONSTANTS u1, u2, t1, s1, q1, q2, admin

\* One capability stands for the six, so that all are held or none.
Coarse == [op \in Operations |-> admin]

Bootstrapped == <<admin>>

AccessSymmetry == Permutations({u1, u2}) \cup Permutations({q1, q2})
=============================================================================
