------------------------------ MODULE Messaging ------------------------------
(***************************************************************************)
(* packages/messaging/src/service.ts: the outbox (append) and the consumer  *)
(* receipts (consumeOnce), for one tenant.                                  *)
(*                                                                         *)
(* append is one statement that inserts or does nothing, and a read of what *)
(* is there: one action.  consumeOnce looks for a receipt, runs the effect  *)
(* and inserts the receipt in one transaction, but the lookup locks         *)
(* nothing: two handlers can both find no receipt and both run the effect.  *)
(* What they wrote shows when they commit, so the lookup is one action and  *)
(* the commit another.  A handler that fails, or whose commit is not        *)
(* acknowledged, is started again by whoever delivers the event.            *)
(***************************************************************************)
EXTENDS Naturals, FiniteSets

CONSTANTS
    EventIds,
    EventKeys,      \* (event type, version, idempotency key)
    Bodies,         \* the rest of an envelope
    Consumers,      \* consumer ids
    Handlers,       \* concurrent calls of consumeOnce
    None

ASSUME NoneAssumption == None \notin Consumers \X EventIds

VARIABLES
    outbox,         \* event_outbox: a set of envelopes
    accepted,       \* envelopes a producer was told are in the outbox
    receipts,       \* consumer_receipts: <<consumer, event id>>
    effects,        \* <<consumer, event id>> -> committed effects
    delivery,       \* handler -> the <<consumer, event id>> it works on
    told            \* handler -> what it was last told has been consumed

messagingVars == <<outbox, accepted, receipts, effects, delivery, told>>

Envelopes == [id : EventIds, key : EventKeys, body : Bodies]

Pairs == Consumers \X EventIds

(* The types, with the foreign key: a receipt is of an event that exists.   *)
MessagingTypeOK ==
    /\ outbox \subseteq Envelopes
    /\ accepted \subseteq Envelopes
    /\ receipts \subseteq Pairs
    /\ effects \in [Pairs -> Nat]
    /\ delivery \in [Handlers -> Pairs \cup {None}]
    /\ told \in [Handlers -> Pairs \cup {None}]
    /\ \A p \in receipts : \E e \in outbox : e.id = p[2]

MessagingInit ==
    /\ outbox = {}
    /\ accepted = {}
    /\ receipts = {}
    /\ effects = [p \in Pairs |-> 0]
    /\ delivery = [h \in Handlers |-> None]
    /\ told = [h \in Handlers |-> None]

-----------------------------------------------------------------------------
(* Rows that keep the envelope out: its id or its key is taken.             *)
Clashing(e) == {f \in outbox : f.id = e.id \/ f.key = e.key}

(* MUTANT of append: the row in the way is not compared with the envelope.  *)
append_AnyRow(e) ==
    /\ outbox' = IF Clashing(e) = {} THEN outbox \cup {e} ELSE outbox
    /\ accepted' = accepted \cup {e}
    /\ UNCHANGED <<receipts, effects, delivery, told>>

(* The envelope is inserted; or the one row in its way is the envelope      *)
(* itself, from an earlier call; or the call ends in a conflict.            *)
append(e) ==
    /\ \/ /\ Clashing(e) = {}
          /\ outbox' = outbox \cup {e}
          /\ accepted' = accepted \cup {e}
       \/ /\ Clashing(e) = {e}
          /\ accepted' = accepted \cup {e}
          /\ UNCHANGED outbox
       \/ /\ Clashing(e) \notin {{}, {e}}
          /\ UNCHANGED <<outbox, accepted>>
    /\ UNCHANGED <<receipts, effects, delivery, told>>

Tell(h, p) == told' = [told EXCEPT ![h] = p]

(* MUTANT of findReceipt: the receipt is written before the effect is run.  *)
findReceipt_Claims(h, p) ==
    /\ delivery[h] = None
    /\ \E e \in outbox : e.id = p[2]
    /\ IF p \in receipts
       THEN Tell(h, p) /\ UNCHANGED <<delivery, receipts>>
       ELSE /\ delivery' = [delivery EXCEPT ![h] = p]
            /\ receipts' = receipts \cup {p}
            /\ UNCHANGED told
    /\ UNCHANGED <<outbox, accepted, effects>>

(* MUTANT of findReceipt: the source event is not looked up.                *)
findReceipt_NoSource(h, p) ==
    /\ delivery[h] = None
    /\ IF p \in receipts
       THEN Tell(h, p) /\ UNCHANGED delivery
       ELSE delivery' = [delivery EXCEPT ![h] = p] /\ UNCHANGED told
    /\ UNCHANGED <<outbox, accepted, receipts, effects>>

(* consumeOnce up to the effect: the event exists; a receipt makes the call *)
(* a duplicate.                                                             *)
findReceipt(h, p) ==
    /\ delivery[h] = None
    /\ \E e \in outbox : e.id = p[2]
    /\ IF p \in receipts
       THEN Tell(h, p) /\ UNCHANGED delivery
       ELSE delivery' = [delivery EXCEPT ![h] = p] /\ UNCHANGED told
    /\ UNCHANGED <<outbox, accepted, receipts, effects>>

Finish(h) == delivery' = [delivery EXCEPT ![h] = None]

(* MUTANT of completeReceipt: consumer_receipts_pkey is missing.            *)
completeReceipt_NoKey(h) ==
    /\ receipts' = receipts \cup {delivery[h]}
    /\ effects' = [effects EXCEPT ![delivery[h]] = @ + 1]

(* The effect and the insert of the receipt.  The primary key of the        *)
(* receipts rolls the transaction back when another handler was faster.     *)
completeReceipt(h) ==
    IF delivery[h] \in receipts
    THEN UNCHANGED <<receipts, effects>>
    ELSE /\ receipts' = receipts \cup {delivery[h]}
         /\ effects' = [effects EXCEPT ![delivery[h]] = @ + 1]

(* Done, or a duplicate of the handler that was faster.                     *)
Complete(h) ==
    /\ delivery[h] # None
    /\ completeReceipt(h)
    /\ Tell(h, delivery[h])
    /\ Finish(h)
    /\ UNCHANGED <<outbox, accepted>>

(* The commit, or the answer to it, is lost: the handler fails.             *)
CompleteUnacknowledged(h) ==
    /\ delivery[h] # None
    /\ completeReceipt(h)
    /\ Finish(h)
    /\ UNCHANGED <<outbox, accepted, told>>

(* The effect fails or the process dies: everything is rolled back.         *)
EffectFails(h) ==
    /\ delivery[h] # None
    /\ Finish(h)
    /\ UNCHANGED <<outbox, accepted, receipts, effects, told>>

MessagingNext ==
    \/ \E e \in Envelopes : append(e)
    \/ \E h \in Handlers :
         \/ \E p \in Pairs : findReceipt(h, p)
         \/ Complete(h)
         \/ CompleteUnacknowledged(h)
         \/ EffectFails(h)

MessagingSpec == MessagingInit /\ [][MessagingNext]_messagingVars

-----------------------------------------------------------------------------
(* Exactly once: the effect of an event on a consumer is committed with its *)
(* receipt and never a second time, however many handlers, retries and lost *)
(* acknowledgements there are.                                              *)
EffectIffReceipt ==
    \A p \in Pairs : effects[p] = IF p \in receipts THEN 1 ELSE 0

(* A handler that is told that the event has been consumed, by itself or as *)
(* a duplicate, can rely on the effect.                                     *)
ToldIsApplied == \A h \in Handlers : told[h] # None => effects[told[h]] = 1

(* A producer is told that its event is stored only when this very envelope *)
(* is, and no two envelopes share an id or a key.                           *)
AcceptedIsStored ==
    /\ accepted \subseteq outbox
    /\ \A e, f \in outbox : e.id = f.id \/ e.key = f.key => e = f
==============================================================================
