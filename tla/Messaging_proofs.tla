-------------------------- MODULE Messaging_proofs --------------------------
(***************************************************************************)
(* Exactly-once consumption and the integrity of the outbox, for any        *)
(* number of events, consumers and concurrent handlers.                     *)
(***************************************************************************)
EXTENDS Messaging, TLAPS

(* A handler at work knows that its event exists: what its commit needs for *)
(* the foreign key of the receipt.                                          *)
WorkHasEvent ==
    \A h \in Handlers :
      delivery[h] # None => \E e \in outbox : e.id = delivery[h][2]

(* ToldIsApplied is not inductive by itself: an answer is about receipts,   *)
(* and EffectIffReceipt ties them to the effects.                           *)
ToldHasReceipt == \A h \in Handlers : told[h] # None => told[h] \in receipts

MessagingInv ==
    /\ MessagingTypeOK
    /\ EffectIffReceipt
    /\ AcceptedIsStored
    /\ WorkHasEvent
    /\ ToldHasReceipt

(* The empty tables satisfy the invariant.                                  *)
LEMMA InitInv == MessagingInit => MessagingInv
BY NoneAssumption
   DEF MessagingInit, MessagingInv, MessagingTypeOK, EffectIffReceipt,
       AcceptedIsStored, WorkHasEvent, ToldHasReceipt

(* append keeps the invariant: what it inserts clashes with nothing.        *)
LEMMA AppendInv ==
    ASSUME MessagingInv, NEW e \in Envelopes, append(e)
    PROVE  MessagingInv'
<1> USE DEF append, Clashing, Envelopes
<1>1. outbox \subseteq outbox'
  OBVIOUS
<1>2. UNCHANGED <<receipts, effects, delivery, told>>
  OBVIOUS
<1>3. MessagingTypeOK'
  <2>1. outbox' \subseteq Envelopes /\ accepted' \subseteq Envelopes
    BY DEF MessagingInv, MessagingTypeOK
  <2> QED
    BY <1>1, <1>2, <2>1 DEF MessagingInv, MessagingTypeOK
<1>4. AcceptedIsStored'
  <2>1. CASE Clashing(e) = {}
    BY <2>1 DEF MessagingInv, AcceptedIsStored, MessagingTypeOK
  <2>2. CASE Clashing(e) = {e}
    BY <2>2 DEF MessagingInv, AcceptedIsStored
  <2>3. CASE Clashing(e) \notin {{}, {e}}
    BY <2>3 DEF MessagingInv, AcceptedIsStored
  <2> QED
    BY <2>1, <2>2, <2>3
<1>5. WorkHasEvent'
  BY <1>1, <1>2 DEF MessagingInv, WorkHasEvent
<1> QED
  BY <1>2, <1>3, <1>4, <1>5 DEF MessagingInv, EffectIffReceipt, ToldHasReceipt

(* The lookup keeps the invariant: it answers only from a receipt and       *)
(* starts only for an event that exists.                                    *)
LEMMA LookupInv ==
    ASSUME MessagingInv, NEW h \in Handlers, NEW p \in Pairs, findReceipt(h, p)
    PROVE  MessagingInv'
<1> USE DEF findReceipt, Tell
<1>1. MessagingTypeOK'
  BY DEF MessagingInv, MessagingTypeOK
<1>2. WorkHasEvent'
  BY DEF MessagingInv, MessagingTypeOK, WorkHasEvent
<1>3. ToldHasReceipt'
  BY DEF MessagingInv, MessagingTypeOK, ToldHasReceipt
<1> QED
  BY <1>1, <1>2, <1>3 DEF MessagingInv, EffectIffReceipt, AcceptedIsStored

(* The commit, acknowledged or not, writes the effect with the receipt, and *)
(* neither when the receipt is there.                                       *)
LEMMA CommitKeepsRecords ==
    ASSUME MessagingInv, NEW h \in Handlers, delivery[h] # None,
           completeReceipt(h), UNCHANGED outbox
    PROVE  /\ delivery[h] \in Pairs
           /\ delivery[h] \in receipts'
           /\ receipts \subseteq receipts'
           /\ receipts' \subseteq Pairs
           /\ effects' \in [Pairs -> Nat]
           /\ EffectIffReceipt'
           /\ \A p \in receipts' : \E e \in outbox' : e.id = p[2]
<1> USE DEF MessagingInv, MessagingTypeOK
<1>1. delivery[h] \in Pairs
  OBVIOUS
<1>2. CASE delivery[h] \in receipts
  BY <1>1, <1>2 DEF completeReceipt, EffectIffReceipt
<1>3. CASE delivery[h] \notin receipts
  <2>1. /\ receipts' = receipts \cup {delivery[h]}
        /\ effects' = [effects EXCEPT ![delivery[h]] = @ + 1]
    BY <1>3 DEF completeReceipt
  <2>2. effects[delivery[h]] = 0
    BY <1>1, <1>3 DEF EffectIffReceipt
  <2>3. effects' \in [Pairs -> Nat] /\ EffectIffReceipt'
    BY <1>1, <2>1, <2>2 DEF EffectIffReceipt
  <2>4. \A p \in receipts' : \E e \in outbox' : e.id = p[2]
    BY <2>1 DEF WorkHasEvent
  <2> QED
    BY <1>1, <2>1, <2>3, <2>4
<1> QED
  BY <1>2, <1>3

(* Every step keeps the invariant.                                          *)
LEMMA NextInv == MessagingInv /\ [MessagingNext]_messagingVars => MessagingInv'
<1> SUFFICES ASSUME MessagingInv, [MessagingNext]_messagingVars
             PROVE  MessagingInv'
  OBVIOUS
<1>1. CASE UNCHANGED messagingVars
  BY <1>1 DEF messagingVars, MessagingInv, MessagingTypeOK, EffectIffReceipt,
              AcceptedIsStored, WorkHasEvent, ToldHasReceipt
<1>2. ASSUME NEW e \in Envelopes, append(e) PROVE MessagingInv'
  BY <1>2, AppendInv
<1>3. ASSUME NEW h \in Handlers, NEW p \in Pairs, findReceipt(h, p) PROVE MessagingInv'
  BY <1>3, LookupInv
<1>4. ASSUME NEW h \in Handlers, Complete(h) PROVE MessagingInv'
  <2> USE <1>4 DEF Complete, Finish, Tell
  <2>1. /\ delivery[h] \in Pairs
        /\ delivery[h] \in receipts'
        /\ receipts \subseteq receipts'
        /\ receipts' \subseteq Pairs
        /\ effects' \in [Pairs -> Nat]
        /\ EffectIffReceipt'
        /\ \A p \in receipts' : \E e \in outbox' : e.id = p[2]
    BY CommitKeepsRecords
  <2>2. MessagingTypeOK'
    BY <2>1 DEF MessagingInv, MessagingTypeOK
  <2>3. WorkHasEvent'
    BY DEF MessagingInv, MessagingTypeOK, WorkHasEvent
  <2>4. ToldHasReceipt'
    BY <2>1 DEF MessagingInv, MessagingTypeOK, ToldHasReceipt
  <2> QED
    BY <2>1, <2>2, <2>3, <2>4 DEF MessagingInv, AcceptedIsStored
<1>5. ASSUME NEW h \in Handlers, CompleteUnacknowledged(h) PROVE MessagingInv'
  <2> USE <1>5 DEF CompleteUnacknowledged, Finish
  <2>1. /\ receipts \subseteq receipts'
        /\ receipts' \subseteq Pairs
        /\ effects' \in [Pairs -> Nat]
        /\ EffectIffReceipt'
        /\ \A p \in receipts' : \E e \in outbox' : e.id = p[2]
    BY CommitKeepsRecords
  <2>2. MessagingTypeOK'
    BY <2>1 DEF MessagingInv, MessagingTypeOK
  <2>3. WorkHasEvent'
    BY DEF MessagingInv, MessagingTypeOK, WorkHasEvent
  <2>4. ToldHasReceipt'
    BY <2>1 DEF MessagingInv, ToldHasReceipt
  <2> QED
    BY <2>1, <2>2, <2>3, <2>4 DEF MessagingInv, AcceptedIsStored
<1>6. ASSUME NEW h \in Handlers, EffectFails(h) PROVE MessagingInv'
  BY <1>6 DEF EffectFails, Finish, MessagingInv, MessagingTypeOK, EffectIffReceipt,
              AcceptedIsStored, WorkHasEvent, ToldHasReceipt
<1> QED
  BY <1>1, <1>2, <1>3, <1>4, <1>5, <1>6 DEF MessagingNext

(* The inductive invariant holds in every reachable state.                  *)
THEOREM MessagingInvariant == MessagingSpec => []MessagingInv
BY InitInv, NextInv, PTL DEF MessagingSpec

(* The types, and a receipt is only of an event that is in the outbox: the  *)
(* lookup of the event and the insert of the receipt are two steps.         *)
THEOREM MessagingTypeCorrect == MessagingSpec => []MessagingTypeOK
<1>1. MessagingInv => MessagingTypeOK
  BY DEF MessagingInv
<1> QED
  BY <1>1, MessagingInvariant, PTL

(* consumeOnce applies the effect of an event to a consumer exactly when    *)
(* there is a receipt, and once.                                            *)
THEOREM ExactlyOnce == MessagingSpec => []EffectIffReceipt
<1>1. MessagingInv => EffectIffReceipt
  BY DEF MessagingInv
<1> QED
  BY <1>1, MessagingInvariant, PTL

(* A handler that is told that the event is consumed, by itself or as a     *)
(* duplicate of another, can rely on the effect.                            *)
THEOREM ToldApplied == MessagingSpec => []ToldIsApplied
<1>1. MessagingInv => ToldIsApplied
  BY DEF MessagingInv, MessagingTypeOK, EffectIffReceipt, ToldHasReceipt, ToldIsApplied
<1> QED
  BY <1>1, MessagingInvariant, PTL

(* append answers with success only for an envelope that is stored, and     *)
(* never stores two with one id or one key.                                 *)
THEOREM OutboxIntegrity == MessagingSpec => []AcceptedIsStored
<1>1. MessagingInv => AcceptedIsStored
  BY DEF MessagingInv
<1> QED
  BY <1>1, MessagingInvariant, PTL
=============================================================================
