------------------------ MODULE MCFinancialOperations ------------------------
(***************************************************************************)
(* Instances of FinancialOperations for TLC: an operation o1 and, where     *)
(* they are among the operations, o2 and o3, two reversals of its journal.  *)
(***************************************************************************)
EXTENDS FinancialOperations, TLC

CONSTANTS p1, p2, p3, p4, o1, o2, o3

MCSourceOf == [o \in Ops |-> IF o \in {o2, o3} THEN o1 ELSE None]

AllTigerBeetle == [p \in Processes |-> "tigerbeetle"]

AllPostgreSQL == [p \in Processes |-> "postgresql"]

(* During a roll-out of the new configuration.                              *)
Mixed == [p \in Processes |-> IF p \in {p3, p4} THEN "tigerbeetle" ELSE "postgresql"]

OpsSymmetry == Permutations({p1, p2}) \cup Permutations({p3, p4})
=============================================================================
