-------------------------- MODULE MCFinancialWorker --------------------------
(***************************************************************************)
(* FinancialWorker for TLC: two workers, one operation.                     *)
(***************************************************************************)
EXTENDS FinancialWorker, TLC

CONSTANTS p1, p2, w1

MCSourceOf == [o \in Ops |-> None]

MCAuthorityOf == [p \in Processes |-> "tigerbeetle"]

MCWorkerIdOf == [p \in Processes |-> w1]

WorkerSymmetry == Permutations(Processes)
=============================================================================
