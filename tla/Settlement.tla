------------------------------ MODULE Settlement ------------------------------
(***************************************************************************)
(* What the accounting package promises about financial operations, without *)
(* workers, receipts, retries, engines or transactions.  An operation is    *)
(* opened once and its fate is decided once: posted or refused.  A posted   *)
(* operation is published once.  A reversal is posted after the original    *)
(* was published.  A period is sealed when nothing in it is undecided, and  *)
(* nothing in it is decided afterwards.                                     *)
(*                                                                         *)
(* FinancialOperations implements this specification (ImplementsSettlement  *)
(* there), with the fate of an operation read off the authority ledger.     *)
(***************************************************************************)
CONSTANTS Ops, SourceOf, None

VARIABLES
    fate,       \* op -> "none", "open", "posted" or "refused"
    published,  \* op -> its event has been published
    sealed      \* the period is closed

settlementVars == <<fate, published, sealed>>

SettlementInit ==
    /\ fate = [o \in Ops |-> "none"]
    /\ published = [o \in Ops |-> FALSE]
    /\ sealed = FALSE

(* At most one reversal of an operation is ever opened.                     *)
Open(o) ==
    /\ ~ sealed
    /\ fate[o] = "none"
    /\ SourceOf[o] # None =>
         /\ published[SourceOf[o]]
         /\ \A other \in Ops \ {o} :
              SourceOf[other] = SourceOf[o] => fate[other] = "none"
    /\ fate' = [fate EXCEPT ![o] = "open"]
    /\ UNCHANGED <<published, sealed>>

Decide(o, verdict) ==
    /\ ~ sealed
    /\ fate[o] = "open"
    /\ fate' = [fate EXCEPT ![o] = verdict]
    /\ UNCHANGED <<published, sealed>>

Publish(o) ==
    /\ ~ sealed
    /\ fate[o] = "posted" /\ ~ published[o]
    /\ published' = [published EXCEPT ![o] = TRUE]
    /\ UNCHANGED <<fate, sealed>>

Seal ==
    /\ ~ sealed
    /\ \A o \in Ops : fate[o] \in {"none", "refused"} \/ published[o]
    /\ sealed' = TRUE
    /\ UNCHANGED <<fate, published>>

SettlementNext ==
    \/ \E o \in Ops :
         Open(o) \/ Decide(o, "posted") \/ Decide(o, "refused") \/ Publish(o)
    \/ Seal

SettlementSpec == SettlementInit /\ [][SettlementNext]_settlementVars
===============================================================================
