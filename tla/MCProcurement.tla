---------------------------- MODULE MCProcurement ----------------------------
(* Procurement and inventory on a small instance: one order received in      *)
(* parts, from a supplier of the first of two legal entities that is also a   *)
(* customer, and two reservations that compete for the goods.                *)
EXTENDS Procurement, TLC

CONSTANTS w1, w2, p1, p2, i1, e1, e2, s1, l1, r1, r2

MCCells == Warehouses \X Items
MCLineItem == [l \in OrderLines |-> i1]
MCRelationships ==
    [party : {s1}, legalEntity : {e1}, kind : {"supplier", "customer"}, active : {TRUE}]

ProcurementSymmetry == Permutations({p1, p2}) \cup Permutations({w1, w2})
                         \cup Permutations({r1, r2})
==============================================================================
