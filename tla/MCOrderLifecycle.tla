--------------------------- MODULE MCOrderLifecycle ---------------------------
(* OrderLifecycle with two orders: one of two lines, one of a single line,  *)
(* both wanting the same cell.                                              *)
EXTENDS OrderLifecycle, TLC

CONSTANTS o1, o2, c1, c2, k1, k2, cellA, cellB

MCLines ==
    (o1 :> << [cell |-> cellA, quantity |-> 1], [cell |-> cellB, quantity |-> 1] >>)
    @@ (o2 :> << [cell |-> cellA, quantity |-> 1] >>)

MCReceiptCap == cellA :> 2 @@ cellB :> 1

MCReservations == Keys \X LineNumbers

LifecycleSymmetry == Permutations({c1, c2}) \cup Permutations({k1, k2})
===============================================================================
