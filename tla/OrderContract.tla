---------------------------- MODULE OrderContract ----------------------------
(***************************************************************************)
(* What the order workflows promise about one order, without keys, tables,  *)
(* locks, retries or lost answers (ADR 0033): an order is confirmed once,   *)
(* with its goods held and its revenue recognised; a confirmed order is     *)
(* either cancelled, with the goods given back and the revenue reversed, or *)
(* fulfilled, with the goods shipped, and never both.                       *)
(***************************************************************************)
EXTENDS Naturals

CONSTANTS Orders

VARIABLES
    stage,      \* order -> "draft", "confirmed", "cancelled" or "fulfilled"
    goods,      \* order -> "none", "held", "returned" or "shipped"
    revenue     \* order -> postings less reversals

contractVars == <<stage, goods, revenue>>

ContractInit ==
    /\ stage = [o \in Orders |-> "draft"]
    /\ goods = [o \in Orders |-> "none"]
    /\ revenue = [o \in Orders |-> 0]

Move(o, from, to, newGoods, newRevenue) ==
    /\ stage[o] = from
    /\ stage' = [stage EXCEPT ![o] = to]
    /\ goods' = [goods EXCEPT ![o] = newGoods]
    /\ revenue' = [revenue EXCEPT ![o] = newRevenue]

ContractNext ==
    \E o \in Orders :
      \/ Move(o, "draft", "confirmed", "held", 1)
      \/ Move(o, "confirmed", "cancelled", "returned", 0)
      \/ Move(o, "confirmed", "fulfilled", "shipped", 1)

ContractSpec == ContractInit /\ [][ContractNext]_contractVars
==============================================================================
