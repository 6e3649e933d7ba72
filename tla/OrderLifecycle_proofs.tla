------------------------ MODULE OrderLifecycle_proofs ------------------------
(***************************************************************************)
(* The order workflows for any number of orders, clients, keys and cells:   *)
(* each order is confirmed, cancelled and fulfilled at most once, what      *)
(* callers and consumers are told is true, and the workflows implement      *)
(* OrderContract.                                                           *)
(***************************************************************************)
EXTENDS OrderLifecycle, Stock_proofs

WorkflowRequests == [type : WorkflowTypes, order : Orders, key : Keys, retry : BOOLEAN]

RunsOf(type, o) == {r \in runs : r.type = type /\ r.order = o}

(* The reservations made under the key that confirmed the order.            *)
HeldRows(o) == {<<orderKey[o], n>> : n \in DOMAIN LinesOf[o]}

HeldAre(o, st) == \A r \in HeldRows(o) : reservation[r].status = st

(* What the tables say about one order agrees: its status and key, its      *)
(* runs, its journals and the reservations of its confirmation.             *)
Draft(o) ==
    /\ orderStatus[o] = "draft" /\ orderKey[o] = None
    /\ \A r \in runs : r.order # o
    /\ o \notin journal /\ o \notin reversal

Confirmed(o) ==
    /\ orderKey[o] \in Keys
    /\ ConfirmationsOf(o) = {[type |-> "confirmation", order |-> o, key |-> orderKey[o]]}
    /\ o \in journal

Held(o) ==
    /\ orderStatus[o] = "confirmed" /\ Confirmed(o)
    /\ RunsOf("cancellation", o) = {} /\ RunsOf("fulfillment", o) = {}
    /\ o \notin reversal
    /\ HeldAre(o, "active")

Shipped(o) ==
    /\ orderStatus[o] = "confirmed" /\ Confirmed(o)
    /\ RunsOf("cancellation", o) = {}
    /\ \E r \in runs : RunsOf("fulfillment", o) = {r}
    /\ o \notin reversal
    /\ HeldAre(o, "fulfilled")

Returned(o) ==
    /\ orderStatus[o] = "cancelled" /\ Confirmed(o)
    /\ \E r \in runs : RunsOf("cancellation", o) = {r}
    /\ RunsOf("fulfillment", o) = {}
    /\ o \in reversal
    /\ HeldAre(o, "released")

OrdersAgree == \A o \in Orders : Draft(o) \/ Held(o) \/ Shipped(o) \/ Returned(o)

(* A key confirms one order.                                                *)
KeysDiffer == \A o, x \in Orders : orderKey[o] = orderKey[x] /\ orderKey[o] # None => o = x

(* Only a workflow of its order ends a reservation.                         *)
EndedRowsAreHeld ==
    \A r \in Reservations :
      reservation[r].status \in {"released", "fulfilled"} => \E o \in Orders : r \in HeldRows(o)

(* Consumers and workers see the runs.                                      *)
RunsAreTold ==
    /\ jobs = runs
    /\ runs = {e \in outbox : e.type \in WorkflowTypes}
    /\ \A e \in outbox : ConfirmationsOf(e.order) # {}

(* What a cancellation or a fulfilment found at its lookup holds until it   *)
(* commits, because it holds the lock.                                      *)
CallsHoldLocks ==
    \A c \in Clients :
      /\ pc[c] # "idle" => request[c] \in WorkflowRequests
      /\ pc[c] \in {"fence", "commit"} /\ request[c].type # "confirmation" =>
           /\ lock[request[c].order] = c
           /\ ConfirmationsOf(request[c].order) # {}
           /\ RunsOf(request[c].type, request[c].order) = {}

LifecycleInv ==
    /\ LifecycleTypeOK
    /\ ReservedIsBacked
    /\ OrdersAgree
    /\ KeysDiffer
    /\ EndedRowsAreHeld
    /\ RunsAreTold
    /\ CallsHoldLocks
    /\ SuccessIsRecorded

-----------------------------------------------------------------------------
(* The calls.                                                               *)

CallTypes ==
    /\ lock \in [Orders -> Clients \cup {None}]
    /\ \A o \in Orders, c \in Clients :
         lock[o] = c => pc[c] \in {"fence", "commit"} /\ request[c].order = o
    /\ pc \in [Clients -> {"idle", "lookup", "fence", "commit"}]
    /\ request \in [Clients -> {None} \cup WorkflowRequests]
    /\ reply \in [Clients -> {"none", "ok", "refused", "unknown"}]

(* What the invariant says of one client.                                   *)
CallFine(c) ==
    /\ pc[c] # "idle" => request[c] \in WorkflowRequests
    /\ pc[c] \in {"fence", "commit"} /\ request[c].type # "confirmation" =>
         /\ lock[request[c].order] = c
         /\ ConfirmationsOf(request[c].order) # {}
         /\ RunsOf(request[c].type, request[c].order) = {}
    /\ reply[c] = "ok" => RunOf(request[c]) \in runs

CallsFine == CallTypes /\ \A c \in Clients : CallFine(c)

(* CallsFine is what LifecycleInv says of the calls, client by client.      *)
LEMMA CallsFineIs ==
  /\ LifecycleInv => CallsFine
  /\ CallsFine' => CallsHoldLocks' /\ SuccessIsRecorded'
  BY DEF LifecycleInv, LifecycleTypeOK, CallsFine, CallTypes, CallFine, CallsHoldLocks,
         SuccessIsRecorded, WorkflowRequests

(* The runs are what they were, or c, about to commit, adds its own.        *)
RunsGrow(c) ==
    \/ runs' = runs
    \/ pc[c] = "commit" /\ runs' = runs \cup {RunOf(request[c])}

(* Whoever does not move keeps what it knows: a run of its order and type   *)
(* could only be added under the lock it holds.                             *)
LEMMA OtherCalls ==
  ASSUME CallsFine, NEW c \in Clients, RunsGrow(c), NEW d \in Clients, d # c,
         pc'[d] = pc[d], request'[d] = request[d], reply'[d] = reply[d],
         \A o \in Orders : lock[o] = d => lock'[o] = d
  PROVE  CallFine(d)'
<1>1. CallFine(d) /\ CallFine(c)
  BY DEF CallsFine
<1>2. runs \subseteq runs'
  BY DEF RunsGrow
<1>3. ASSUME pc[d] \in {"fence", "commit"}, request[d].type # "confirmation"
      PROVE  /\ lock'[request[d].order] = d
             /\ ConfirmationsOf(request[d].order)' # {}
             /\ RunsOf(request[d].type, request[d].order)' = {}
  <2>1. /\ request[d] \in WorkflowRequests
        /\ lock[request[d].order] = d
        /\ ConfirmationsOf(request[d].order) # {}
        /\ RunsOf(request[d].type, request[d].order) = {}
    BY <1>1, <1>3 DEF CallFine
  <2>2. ConfirmationsOf(request[d].order)' # {}
    BY <1>2, <1>3, <2>1 DEF ConfirmationsOf
  <2>3. lock'[request[d].order] = d
    BY <2>1 DEF WorkflowRequests
  <2>4. ASSUME pc[c] = "commit", request[c].type = request[d].type
        PROVE  request[c].order # request[d].order
    BY <1>1, <1>3, <2>1, <2>4 DEF CallFine
  <2>5. RunsOf(request[d].type, request[d].order)' = {}
    BY <1>3, <2>1, <2>4 DEF RunsGrow, RunsOf, RunOf
  <2> QED
    BY <2>2, <2>3, <2>5
<1>4. pc[d] # "idle" => request[d] \in WorkflowRequests
  BY <1>1 DEF CallFine
<1>5. reply[d] = "ok" => RunOf(request[d]) \in runs'
  BY <1>1, <1>2 DEF CallFine
<1> QED
  BY <1>3, <1>4, <1>5 DEF CallFine, RunOf, ConfirmationsOf, RunsOf

(* A call ends.                                                             *)
LEMMA ReplyKeeps ==
  ASSUME CallsFine, NEW c \in Clients, RunsGrow(c), NEW how \in {"ok", "refused", "unknown"},
         Reply(c, how), how = "ok" => RunOf(request[c]) \in runs'
  PROVE  CallsFine'
<1>t. CallTypes
  BY DEF CallsFine
<1>1. /\ pc' = [pc EXCEPT ![c] = "idle"]
      /\ reply' = [reply EXCEPT ![c] = how]
      /\ lock' = [o \in Orders |-> IF lock[o] = c THEN None ELSE lock[o]]
      /\ request' = [request EXCEPT ![c] = IF how = "ok" THEN request[c] ELSE None]
  BY DEF Reply, FreeLock
<1>2. \A d \in Clients : d # c => /\ pc'[d] = pc[d] /\ request'[d] = request[d]
                                  /\ reply'[d] = reply[d]
                                  /\ \A o \in Orders : lock[o] = d => lock'[o] = d
  BY <1>t, <1>1 DEF CallTypes
<1>3. CallTypes'
  <2>1. /\ pc' \in [Clients -> {"idle", "lookup", "fence", "commit"}]
        /\ request' \in [Clients -> {None} \cup WorkflowRequests]
        /\ reply' \in [Clients -> {"none", "ok", "refused", "unknown"}]
    BY <1>t, <1>1 DEF CallTypes
  <2>2. lock' \in [Orders -> Clients \cup {None}]
    BY <1>t, <1>1 DEF CallTypes
  <2>3. ASSUME NEW o \in Orders, NEW d \in Clients, lock'[o] = d
        PROVE  pc'[d] \in {"fence", "commit"} /\ request'[d].order = o
    <3>1. d # c /\ lock[o] = d
      BY <1>1, <2>3, LifecycleConstants
    <3> QED
      BY <1>t, <1>2, <3>1 DEF CallTypes
  <2> QED
    BY <2>1, <2>2, <2>3 DEF CallTypes
<1>4. CallFine(c)'
  <2>1. pc'[c] = "idle" /\ reply'[c] = how
    BY <1>t, <1>1 DEF CallTypes
  <2>2. how = "ok" => request'[c] = request[c]
    BY <1>t, <1>1 DEF CallTypes
  <2> QED
    BY <2>1, <2>2 DEF CallFine, RunOf
<1>5. \A d \in Clients : d # c => CallFine(d)'
  BY <1>2, OtherCalls
<1> QED
  BY <1>3, <1>4, <1>5 DEF CallsFine

(* A call that meets a unique key adds no run: it looks again, or fails.    *)
LEMMA ConflictKeeps ==
  ASSUME CallsFine, NEW c \in Clients, pc[c] # "idle", runs' = runs, Conflict(c)
  PROVE  CallsFine'
<1>t. CallTypes /\ CallFine(c) /\ RunsGrow(c)
  BY DEF CallsFine, RunsGrow
<1>1. CASE ~ (request[c].type # "confirmation" /\ ~ request[c].retry)
  BY <1>t, <1>1, ReplyKeeps DEF Conflict
<1>2. CASE request[c].type # "confirmation" /\ ~ request[c].retry
  <2> DEFINE r == [request[c] EXCEPT !.retry = TRUE]
  <2>1. /\ r \in WorkflowRequests /\ RunOf(r) = RunOf(request[c])
    BY <1>t DEF CallFine, WorkflowRequests, RunOf
  <2>2. /\ pc' = [pc EXCEPT ![c] = "lookup"]
        /\ request' = [request EXCEPT ![c] = r]
        /\ lock' = [o \in Orders |-> IF lock[o] = c THEN None ELSE lock[o]]
        /\ reply' = reply
    BY <1>2 DEF Conflict, FreeLock
  <2> HIDE DEF r
  <2>3. \A d \in Clients : d # c => /\ pc'[d] = pc[d] /\ request'[d] = request[d]
                                    /\ reply'[d] = reply[d]
                                    /\ \A o \in Orders : lock[o] = d => lock'[o] = d
    BY <1>t, <2>2 DEF CallTypes
  <2>4. CallTypes'
    <3>1. /\ pc' \in [Clients -> {"idle", "lookup", "fence", "commit"}]
          /\ request' \in [Clients -> {None} \cup WorkflowRequests]
          /\ reply' \in [Clients -> {"none", "ok", "refused", "unknown"}]
      BY <1>t, <2>1, <2>2 DEF CallTypes
    <3>2. lock' \in [Orders -> Clients \cup {None}]
      BY <1>t, <2>2 DEF CallTypes
    <3>3. ASSUME NEW o \in Orders, NEW d \in Clients, lock'[o] = d
          PROVE  pc'[d] \in {"fence", "commit"} /\ request'[d].order = o
      <4>1. d # c /\ lock[o] = d
        BY <2>2, <3>3, LifecycleConstants
      <4> QED
        BY <1>t, <2>3, <4>1 DEF CallTypes
    <3> QED
      BY <3>1, <3>2, <3>3 DEF CallTypes
  <2>5. CallFine(c)'
    <3>1. pc'[c] = "lookup" /\ request'[c] = r /\ reply'[c] = reply[c]
      BY <1>t, <2>2 DEF CallTypes
    <3>2. reply[c] = "ok" => RunOf(r) \in runs'
      BY <1>t, <2>1 DEF CallFine
    <3> QED
      BY <2>1, <3>1, <3>2 DEF CallFine, RunOf
  <2>6. \A d \in Clients : d # c => CallFine(d)'
    BY <1>t, <2>3, OtherCalls
  <2> QED
    BY <2>4, <2>5, <2>6 DEF CallsFine
<1> QED
  BY <1>1, <1>2

(* A call goes on, perhaps with the lock of its order.                      *)
LEMMA GotoKeeps ==
  ASSUME CallsFine, NEW c \in Clients, NEW label \in {"fence", "commit"}, pc[c] # "idle",
         runs' = runs, Goto(c, label),
         \/ request[c].type = "confirmation" /\ UNCHANGED lock
         \/ pc[c] = "fence" /\ UNCHANGED lock
         \/ /\ request[c].type # "confirmation" /\ loadConfirmation(c, request[c].order)
            /\ pc[c] = "lookup"
            /\ ConfirmationsOf(request[c].order) # {}
            /\ RunsOf(request[c].type, request[c].order) = {}
  PROVE  CallsFine'
<1>t. CallTypes /\ CallFine(c) /\ RunsGrow(c) /\ request[c] \in WorkflowRequests
  BY DEF CallsFine, RunsGrow, CallFine
<1>o. request[c].order \in Orders
  BY <1>t DEF WorkflowRequests
<1>1. /\ pc' = [pc EXCEPT ![c] = label]
      /\ request' = request /\ reply' = reply
      /\ lock' = lock \/ (lock[request[c].order] = None
                            /\ lock' = [lock EXCEPT ![request[c].order] = c])
  BY DEF Goto, loadConfirmation
<1>2. \A d \in Clients : d # c => /\ pc'[d] = pc[d] /\ request'[d] = request[d]
                                  /\ reply'[d] = reply[d]
                                  /\ \A o \in Orders : lock[o] = d => lock'[o] = d
  BY <1>t, <1>1, LifecycleConstants DEF CallTypes
<1>3. pc'[c] = label
  BY <1>t, <1>1 DEF CallTypes
<1>4. CallTypes'
  <2>1. /\ pc' \in [Clients -> {"idle", "lookup", "fence", "commit"}]
        /\ lock' \in [Orders -> Clients \cup {None}]
    BY <1>t, <1>1 DEF CallTypes
  <2>2. ASSUME NEW o \in Orders, NEW d \in Clients, lock'[o] = d
        PROVE  pc'[d] \in {"fence", "commit"} /\ request'[d].order = o
    <3>1. CASE lock[o] = d
      BY <1>t, <1>1, <1>2, <1>3, <3>1 DEF CallTypes
    <3>2. CASE lock[o] # d
      BY <1>t, <1>1, <1>3, <2>2, <3>2 DEF CallTypes
    <3> QED
      BY <3>1, <3>2
  <2> QED
    BY <1>t, <1>1, <2>1, <2>2 DEF CallTypes
<1>5. CallFine(c)'
  <2>1. ASSUME request[c].type # "confirmation"
        PROVE  /\ lock'[request[c].order] = c
               /\ ConfirmationsOf(request[c].order)' # {}
               /\ RunsOf(request[c].type, request[c].order)' = {}
    <3>1. CASE pc[c] = "fence" /\ UNCHANGED lock
      BY <1>t, <1>1, <2>1, <3>1 DEF CallFine, ConfirmationsOf, RunsOf
    <3>2. CASE ~ (pc[c] = "fence" /\ UNCHANGED lock)
      <4>1. /\ loadConfirmation(c, request[c].order)
            /\ ConfirmationsOf(request[c].order) # {}
            /\ RunsOf(request[c].type, request[c].order) = {}
        BY <2>1, <3>2
      <4> QED
        BY <1>t, <1>o, <1>1, <4>1 DEF loadConfirmation, CallTypes, ConfirmationsOf, RunsOf
    <3> QED
      BY <3>1, <3>2
  <2>2. reply[c] = "ok" => RunOf(request[c]) \in runs'
    BY <1>t DEF CallFine
  <2> QED
    BY <1>t, <1>1, <2>1, <2>2 DEF CallFine, RunOf, ConfirmationsOf, RunsOf
<1>6. \A d \in Clients : d # c => CallFine(d)'
  BY <1>t, <1>2, OtherCalls
<1> QED
  BY <1>4, <1>5, <1>6 DEF CallsFine

(* Every action of a call.                                                  *)
LEMMA CallPart ==
  ASSUME LifecycleInv, [LifecycleNext]_lifecycleVars
  PROVE  CallsFine'
<1>t. CallsFine
  BY CallsFineIs
<1>f. \A c \in Clients : CallFine(c)
  BY <1>t DEF CallsFine
<1>1. ASSUME UNCHANGED <<runs, callVars>>
      PROVE  CallsFine'
  BY <1>t, <1>1 DEF callVars, CallsFine, CallTypes, CallFine, RunOf, ConfirmationsOf, RunsOf
<1>2. ASSUME NEW c \in Clients, NEW type \in WorkflowTypes, NEW o \in Orders, NEW k \in Keys,
             CallWorkflow(c, type, o, k)
      PROVE  CallsFine'
  <2> DEFINE r == [type |-> type, order |-> o, key |-> k, retry |-> FALSE]
  <2>1. /\ pc[c] = "idle"
        /\ pc' = [pc EXCEPT ![c] = "lookup"]
        /\ request' = [request EXCEPT ![c] = r]
        /\ reply' = [reply EXCEPT ![c] = "none"]
        /\ lock' = lock /\ runs' = runs
    BY <1>2 DEF CallWorkflow, recordVars
  <2>2. r \in WorkflowRequests
    BY DEF WorkflowRequests
  <2> HIDE DEF r
  <2>3. CallTypes'
    BY <1>t, <2>1, <2>2 DEF CallsFine, CallTypes
  <2>4. \A d \in Clients : d # c => CallFine(d)'
    BY <1>t, <2>1, OtherCalls DEF CallsFine, CallTypes, RunsGrow
  <2>5. CallFine(c)'
    BY <1>t, <2>1, <2>2 DEF CallsFine, CallTypes, CallFine
  <2> QED
    BY <2>3, <2>4, <2>5 DEF CallsFine
<1>3. ASSUME NEW c \in Clients, NEW row \in runs, pc[c] # "idle", runs' = runs,
             request[c].type = "confirmation", row.type = "confirmation",
             row.key = request[c].key, resolveExisting(c, row)
      PROVE  CallsFine'
  <2>1. CASE row.order = request[c].order
    <3>1. row \in [type : WorkflowTypes, order : Orders, key : Keys]
      BY DEF LifecycleInv, LifecycleTypeOK
    <3>2. RunOf(request[c]) = row
      BY <1>3, <2>1, <3>1 DEF RunOf
    <3> QED
      BY <1>t, <1>3, <2>1, <3>2, ReplyKeeps DEF resolveExisting, RunsGrow
  <2>2. CASE row.order # request[c].order
    BY <1>t, <1>3, <2>2, ConflictKeeps DEF resolveExisting
  <2> QED
    BY <2>1, <2>2
<1>4. ASSUME NEW c \in Clients, LookupConfirmation(c)
      PROVE  CallsFine'
  <2>1. pc[c] = "lookup" /\ request[c].type = "confirmation" /\ runs' = runs
    BY <1>4 DEF LookupConfirmation, recordVars
  <2>2. \/ Goto(c, "fence") /\ UNCHANGED lock
        \/ \E row \in runs : /\ row.type = "confirmation" /\ row.key = request[c].key
                             /\ resolveExisting(c, row)
    BY <1>4 DEF LookupConfirmation
  <2>3. CASE Goto(c, "fence") /\ UNCHANGED lock
    BY <1>t, <2>1, <2>3, GotoKeeps
  <2> QED
    BY <1>3, <2>1, <2>2, <2>3
<1>5. ASSUME NEW c \in Clients, LookupLifecycle(c)
      PROVE  CallsFine'
  <2> DEFINE o == request[c].order
             rows == {r \in runs : /\ r.type = request[c].type
                                   /\ r.order = o \/ r.key = request[c].key}
  <2>1. pc[c] = "lookup" /\ request[c].type # "confirmation" /\ runs' = runs
    BY <1>5 DEF LookupLifecycle, recordVars
  <2>2. \/ Reply(c, "refused")
        \/ rows = {RunOf(request[c])} /\ Reply(c, "ok")
        \/ Conflict(c)
        \/ /\ Cardinality(ConfirmationsOf(o)) = 1 /\ rows = {}
           /\ loadConfirmation(c, o)
           /\ \E label \in {"fence", "commit"} : Goto(c, label)
    BY <1>5 DEF LookupLifecycle, resolveLifecycleExisting
  <2>3. CASE Reply(c, "refused")
    BY <1>t, <2>1, <2>3, ReplyKeeps DEF RunsGrow
  <2>4. CASE rows = {RunOf(request[c])} /\ Reply(c, "ok")
    <3>1. RunOf(request[c]) \in runs
      BY <2>4
    <3> QED
      BY <1>t, <2>1, <2>4, <3>1, ReplyKeeps DEF RunsGrow
  <2>5. CASE Conflict(c)
    BY <1>t, <2>1, <2>5, ConflictKeeps
  <2>6. ASSUME Cardinality(ConfirmationsOf(o)) = 1, rows = {}, loadConfirmation(c, o),
               NEW label \in {"fence", "commit"}, Goto(c, label)
        PROVE  CallsFine'
    <3>1. ConfirmationsOf(o) # {}
      BY <2>6, FS_EmptySet
    <3>2. RunsOf(request[c].type, o) = {}
      BY <2>6 DEF RunsOf
    <3> QED
      BY <1>t, <2>1, <2>6, <3>1, <3>2, GotoKeeps
  <2> HIDE DEF rows
  <2> QED
    BY <2>2, <2>3, <2>4, <2>5, <2>6
<1>6. ASSUME NEW c \in Clients, ensureLegacyEngine(c)
      PROVE  CallsFine'
  <2>1. pc[c] = "fence" /\ runs' = runs
    BY <1>6 DEF ensureLegacyEngine, recordVars
  <2>2. \/ Goto(c, "commit") /\ UNCHANGED lock
        \/ Reply(c, "refused")
    BY <1>6 DEF ensureLegacyEngine
  <2>3. CASE Goto(c, "commit") /\ UNCHANGED lock
    BY <1>t, <2>1, <2>3, GotoKeeps
  <2>4. CASE Reply(c, "refused")
    BY <1>t, <2>1, <2>4, ReplyKeeps DEF RunsGrow
  <2> QED
    BY <2>2, <2>3, <2>4
<1>7. ASSUME NEW c \in Clients, pc[c] = "commit", Effect(c), NEW how \in {"ok", "unknown"},
             Reply(c, how)
      PROVE  CallsFine'
  <2>1. runs' = runs \cup {RunOf(request[c])}
    BY <1>7 DEF Effect, confirmOrder, cancelOrder, fulfillOrder, RecordRun
  <2> QED
    BY <1>t, <1>7, <2>1, ReplyKeeps DEF RunsGrow
<1>8. ASSUME NEW c \in Clients, CommitFindsKey(c)
      PROVE  CallsFine'
  <2>1. pc[c] = "commit" /\ runs' = runs
    BY <1>8 DEF CommitFindsKey, recordVars
  <2>2. CASE request[c].type = "confirmation"
    BY <1>3, <1>8, <2>1, <2>2 DEF CommitFindsKey
  <2>3. CASE request[c].type # "confirmation"
    BY <1>t, <1>8, <2>1, <2>3, ConflictKeeps DEF CommitFindsKey
  <2> QED
    BY <2>2, <2>3
<1>9. ASSUME NEW c \in Clients, CommitRefused(c)
      PROVE  CallsFine'
  BY <1>t, <1>9, ReplyKeeps DEF CommitRefused, recordVars, RunsGrow
<1>10. ASSUME NEW c \in Clients, DatabaseFails(c)
       PROVE  CallsFine'
  BY <1>t, <1>10, ReplyKeeps DEF DatabaseFails, recordVars, RunsGrow
<1>11. ASSUME Receive \/ ReserveDirectly \/ SwitchPeriod \/ ActivateEngine
                \/ UNCHANGED lifecycleVars
       PROVE  CallsFine'
  BY <1>1, <1>11 DEF Receive, ReserveDirectly, SwitchPeriod, ActivateEngine, recordVars, callVars,
                     lifecycleVars
<1>12. ASSUME NEW c \in Clients, Commit(c) \/ CommitUnacknowledged(c)
       PROVE  CallsFine'
  BY <1>7, <1>12 DEF Commit, CommitUnacknowledged
<1> QED
  BY <1>2, <1>4, <1>5, <1>6, <1>8, <1>9, <1>10, <1>11, <1>12 DEF LifecycleNext, WorkflowStep

-----------------------------------------------------------------------------
(* The orders.                                                              *)

OrderAgrees(o) == Draft(o) \/ Held(o) \/ Shipped(o) \/ Returned(o)

(* OrdersAgree order by order, before and after a step.                     *)
LEMMA OrdersAgreeIs ==
  /\ OrdersAgree <=> \A o \in Orders : OrderAgrees(o)
  /\ OrdersAgree' <=> \A o \in Orders : OrderAgrees(o)'
  BY DEF OrdersAgree, OrderAgrees

(* Keys and rows.                                                           *)
LEMMA HeldRowsType ==
  ASSUME NEW o \in Orders, orderKey[o] \in Keys
  PROVE  /\ HeldRows(o) \subseteq Reservations /\ HeldRows(o) # {}
         /\ \A r \in HeldRows(o) : r[1] = orderKey[o]
<1>1. /\ DOMAIN LinesOf[o] \subseteq LineNumbers /\ DOMAIN LinesOf[o] # {}
      /\ Reservations = Keys \X LineNumbers
  BY LifecycleConstants
<1>2. \A n \in LineNumbers : <<orderKey[o], n>> \in Keys \X LineNumbers
  OBVIOUS
<1>3. \A n : <<orderKey[o], n>>[1] = orderKey[o]
  OBVIOUS
<1> QED
  BY <1>1, <1>2, <1>3 DEF HeldRows

(* A workflow finds the reservations of its order by the key of the         *)
(* confirmation run: they are the rows made under the key of the order.     *)
LEMMA ReservationsOfIs ==
  ASSUME NEW o \in Orders, Confirmed(o)
  PROVE  ReservationsOf(o) = HeldRows(o)
<1> DEFINE run == [type |-> "confirmation", order |-> o, key |-> orderKey[o]]
<1>1. ConfirmationsOf(o) = {run} /\ run.key = orderKey[o]
  BY DEF Confirmed
<1> HIDE DEF run
<1>2. ReservationsOf(o) = {<<r.key, n>> : r \in {run}, n \in DOMAIN LinesOf[o]}
  BY <1>1 DEF ReservationsOf
<1> QED
  BY <1>1, <1>2 DEF HeldRows

(* An order that nothing happens to.                                        *)
LEMMA OrderUntouched ==
  ASSUME NEW o \in Orders, OrderAgrees(o),
         orderStatus'[o] = orderStatus[o], orderKey'[o] = orderKey[o],
         {r \in runs' : r.order = o} = {r \in runs : r.order = o},
         o \in journal' <=> o \in journal, o \in reversal' <=> o \in reversal,
         orderStatus[o] # "draft" => \A r \in HeldRows(o) : reservation'[r] = reservation[r]
  PROVE  OrderAgrees(o)'
<1>1. /\ HeldRows(o)' = HeldRows(o)
      /\ ConfirmationsOf(o)' = ConfirmationsOf(o)
      /\ \A type \in WorkflowTypes : RunsOf(type, o)' = RunsOf(type, o)
  BY DEF HeldRows, ConfirmationsOf, RunsOf
<1>2. Confirmed(o) => Confirmed(o)'
  BY <1>1 DEF Confirmed
<1>3. orderStatus[o] # "draft" => \A st : HeldAre(o, st) => HeldAre(o, st)'
  BY <1>1 DEF HeldAre
<1>4. CASE Draft(o)
  BY <1>4 DEF Draft, OrderAgrees
<1>5. CASE Held(o)
  BY <1>1, <1>2, <1>3, <1>5 DEF Held, OrderAgrees, WorkflowTypes
<1>6. CASE Shipped(o)
  <2>1. PICK r \in runs : RunsOf("fulfillment", o) = {r}
    BY <1>6 DEF Shipped
  <2>2. RunsOf("fulfillment", o)' = {r} /\ r \in runs'
    BY <1>1, <2>1 DEF RunsOf, WorkflowTypes
  <2> QED
    BY <1>1, <1>2, <1>3, <1>6, <2>2 DEF Shipped, OrderAgrees, WorkflowTypes
<1>7. CASE Returned(o)
  <2>1. PICK r \in runs : RunsOf("cancellation", o) = {r}
    BY <1>7 DEF Returned
  <2>2. RunsOf("cancellation", o)' = {r} /\ r \in runs'
    BY <1>1, <2>1 DEF RunsOf, WorkflowTypes
  <2> QED
    BY <1>1, <1>2, <1>3, <1>7, <2>2 DEF Returned, OrderAgrees, WorkflowTypes
<1> QED
  BY <1>4, <1>5, <1>6, <1>7 DEF OrderAgrees

(* The reservations of an order that is not a draft have rows.              *)
LEMMA HeldRowsThere ==
  ASSUME NEW o \in Orders, OrderAgrees(o), orderStatus[o] # "draft"
  PROVE  /\ orderKey[o] \in Keys /\ Confirmed(o)
         /\ \A r \in HeldRows(o) : reservation[r].status # "absent"
  BY DEF OrderAgrees, Draft, Held, Shipped, Returned, Confirmed, HeldAre

-----------------------------------------------------------------------------
(* The requests of a confirmation.                                          *)
LEMMA RequestsAre ==
  ASSUME NEW o \in Orders, NEW k \in Keys
  PROVE  /\ IsFiniteSet(RequestsOf(o, k))
         /\ \A q \in RequestsOf(o, k) :
              /\ q.id \in Reservations /\ q.cell \in Cells /\ q.quantity \in Nat \ {0}
              /\ \E n \in DOMAIN LinesOf[o] : q.id = <<k, n>>
         /\ \A q1, q2 \in RequestsOf(o, k) : q1.id = q2.id => q1 = q2
         /\ \A n \in DOMAIN LinesOf[o] : \E q \in RequestsOf(o, k) : q.id = <<k, n>>
<1> DEFINE N == DOMAIN LinesOf[o]
           line(n) == [id |-> <<k, n>>, cell |-> LinesOf[o][n].cell,
                       quantity |-> LinesOf[o][n].quantity]
<1>1. RequestsOf(o, k) = {line(n) : n \in N}
  BY DEF RequestsOf
<1>2. N \subseteq {1, 2}
  BY LifecycleConstants DEF LineNumbers
<1>3. IsFiniteSet({line(n) : n \in N})
  <2> HIDE DEF N, line
  <2>1. {line(n) : n \in N} \subseteq {line(1)} \cup {line(2)}
    BY <1>2
  <2>2. IsFiniteSet({line(1)} \cup {line(2)})
    BY FS_Singleton, FS_AddElement
  <2> QED
    BY <2>1, <2>2, FS_Subset
<1>4. ASSUME NEW n \in N
      PROVE  /\ line(n).id = <<k, n>> /\ <<k, n>> \in Reservations
             /\ line(n).cell \in Cells /\ line(n).quantity \in Nat \ {0}
  BY LifecycleConstants
<1>5. \A n, m \in N : line(n).id = line(m).id => line(n) = line(m)
  <2>1. \A n, m \in N : <<k, n>> = <<k, m>> => n = m
    OBVIOUS
  <2> QED
    BY <1>4, <2>1
<1> HIDE DEF line, N
<1>6. \A q \in RequestsOf(o, k) :
        /\ q.id \in Reservations /\ q.cell \in Cells /\ q.quantity \in Nat \ {0}
        /\ \E n \in N : q.id = <<k, n>>
  BY <1>1, <1>4
<1>7. \A q1, q2 \in RequestsOf(o, k) : q1.id = q2.id => q1 = q2
  BY <1>1, <1>5
<1>8. \A n \in N : \E q \in RequestsOf(o, k) : q.id = <<k, n>>
  BY <1>1, <1>4
<1> QED
  BY <1>1, <1>3, <1>6, <1>7, <1>8 DEF N

(* An insertion writes rows that were not there.                            *)
LEMMA InsertedStatus ==
  ASSUME StockTypeOK, NEW requests, NewKeys(requests), InsertReservations(requests)
  PROVE  \A r \in Reservations :
           \/ reservation'[r] = reservation[r]
           \/ reservation[r].status = "absent" /\ reservation'[r].status = "active"
<1>1. /\ \A q \in requests :
           reservation'[q.id] = [status |-> "active", cell |-> q.cell, quantity |-> q.quantity]
      /\ \A r \in Reservations :
           (\A q \in requests : q.id # r) => reservation'[r] = reservation[r]
  BY InsertedRows
<1>2. ASSUME NEW q \in requests
      PROVE  reservation[q.id].status = "absent" /\ reservation'[q.id].status = "active"
  <2>1. reservation[q.id].status = "absent"
    BY DEF NewKeys, Exists
  <2>2. reservation'[q.id] = [status |-> "active", cell |-> q.cell, quantity |-> q.quantity]
    BY <1>1
  <2>3. reservation'[q.id].status = "active"
    BY <2>2
  <2> QED
    BY <2>1, <2>3
<1> QED
  BY <1>1, <1>2

(* What a commit tells consumers and workers.                               *)
LEMMA ToldPart ==
  ASSUME RunsAreTold, NEW c, request[c] \in WorkflowRequests, NEW events,
         RecordRun(c, events), NEW o \in Orders, request[c].order = o,
         \A e \in events : e.type \notin WorkflowTypes /\ e.order = o,
         ConfirmationsOf(o)' # {}
  PROVE  RunsAreTold'
<1> DEFINE run == RunOf(request[c])
<1>1. run.type \in WorkflowTypes /\ run.order = o
  BY DEF RunOf, WorkflowRequests
<1>2. /\ runs' = runs \cup {run} /\ jobs' = jobs \cup {run}
      /\ outbox' = outbox \cup events \cup {run}
  BY DEF RecordRun
<1> HIDE DEF run
<1>3. jobs' = runs' /\ runs' = {e \in outbox' : e.type \in WorkflowTypes}
  BY <1>1, <1>2 DEF RunsAreTold
<1>4. ASSUME NEW e \in outbox'
      PROVE  ConfirmationsOf(e.order)' # {}
  <2>1. CASE e \in outbox
    <3>1. ConfirmationsOf(e.order) # {}
      BY <2>1 DEF RunsAreTold
    <3> QED
      BY <1>2, <3>1 DEF ConfirmationsOf
  <2>2. CASE e \notin outbox
    <3>1. e.order = o
      BY <1>1, <1>2, <2>2
    <3> QED
      BY <3>1
  <2> QED
    BY <2>1, <2>2
<1> QED
  BY <1>3, <1>4 DEF RunsAreTold

(* What the invariant says of the tables.                                   *)
RecordsInv ==
    /\ StockInv /\ OrdersAgree /\ KeysDiffer /\ EndedRowsAreHeld /\ RunsAreTold
    /\ orderStatus \in [Orders -> {"draft", "confirmed", "cancelled"}]
    /\ orderKey \in [Orders -> Keys \cup {None}]
    /\ runs \subseteq [type : WorkflowTypes, order : Orders, key : Keys]
    /\ journal \subseteq Orders
    /\ reversal \subseteq Orders
    /\ outbox \subseteq [type : EventTypes, order : Orders, key : Keys \cup Orders]

(* An order that stays as it is.                                            *)
OrderUnmoved(o) ==
    /\ orderStatus'[o] = orderStatus[o] /\ orderKey'[o] = orderKey[o]
    /\ {r \in runs' : r.order = o} = {r \in runs : r.order = o}

(* How a commit changes an order.                                           *)
Becomes(o) ==
    \/ Draft(o) /\ Held(o)'
    \/ Held(o) /\ Returned(o)'
    \/ Held(o) /\ Shipped(o)'

(* The commit of a confirmation takes its order from draft to held.         *)
LEMMA ConfirmStep ==
  ASSUME RecordsInv, NEW c \in Clients, request[c] \in WorkflowRequests,
         request[c].type = "confirmation", Effect(c),
         NEW o \in Orders, request[c].order = o
  PROVE  /\ RecordsInv' /\ RowsMove
         /\ Becomes(o)
         /\ \A x \in Orders \ {o} : OrderUnmoved(x)
<1>k. PICK k \in Keys : request[c].key = k
  BY DEF WorkflowRequests
<1> DEFINE new == NewRequests(o, k)
           run == [type |-> "confirmation", order |-> o, key |-> k]
           events == {[type |-> "sales.order.confirmed", order |-> o, key |-> k],
                      [type |-> "accounting.revenue.posted", order |-> o, key |-> o]}
<1>t. None \notin Keys
  BY LifecycleConstants
<1>1. /\ ~ KeyTaken(c) /\ CanConfirm(o, k)
      /\ orderStatus' = [orderStatus EXCEPT ![o] = "confirmed"]
      /\ orderKey' = [orderKey EXCEPT ![o] = k]
      /\ InsertReservations(new)
      /\ journal' = journal \cup {o}
      /\ RecordRun(c, events)
      /\ reversal' = reversal
  BY <1>k DEF Effect, CanCommit, confirmOrder
<1>2. RunOf(request[c]) = run
  BY <1>k DEF RunOf
<1>3. runs' = runs \cup {run} /\ outbox' = outbox \cup events \cup {run}
  BY <1>1, <1>2 DEF RecordRun
<1>4. Draft(o)
  <2>1. OrderAgrees(o) /\ CanConfirmOrder(o, k)
    BY <1>t, <1>1 DEF RecordsInv, OrdersAgree, OrderAgrees, CanConfirm
  <2>2. SUFFICES ASSUME orderStatus[o] = "confirmed", orderKey[o] = k, Confirmed(o)
                 PROVE  FALSE
    BY <2>1 DEF CanConfirmOrder, OrderAgrees, Draft, Held, Shipped, Returned
  <2>3. run \in runs
    BY <2>2 DEF Confirmed, ConfirmationsOf
  <2> QED
    BY <1>1, <1>k, <2>3 DEF KeyTaken
<1>5. \A x \in Orders : orderKey[x] # k
  BY <1>t, <1>1, <1>4 DEF CanConfirm, CanConfirmOrder, Draft
<1>6. NewKeys(new) /\ Available(new)
  <2>1. new \subseteq RequestsOf(o, k) /\ \A q \in new : ~ Exists(q)
    BY DEF NewRequests
  <2> HIDE DEF new
  <2>2. IsFiniteSet(new)
    BY <1>t, <2>1, RequestsAre, FS_Subset
  <2>3. NewKeys(new)
    BY <1>t, <2>1, <2>2, RequestsAre DEF NewKeys
  <2> QED
    BY <1>1, <2>3 DEF CanConfirm, new
<1>7. StockInv' /\ RowsMove /\ StockTypeOK
  BY <1>1, <1>6, InsertPreserves DEF RecordsInv, StockInv
<1>8. \A r \in Reservations :
        \/ reservation'[r] = reservation[r]
        \/ reservation[r].status = "absent" /\ reservation'[r].status = "active"
  BY <1>1, <1>6, <1>7, InsertedStatus
<1>9. \A n \in DOMAIN LinesOf[o] : reservation'[<<k, n>>].status = "active"
  <2>1. ASSUME NEW n \in DOMAIN LinesOf[o]
        PROVE  reservation'[<<k, n>>].status = "active"
    <3>1. PICK q \in RequestsOf(o, k) : q.id = <<k, n>>
      BY <1>t, RequestsAre
    <3>2. <<k, n>> \in Reservations
      BY <1>t, <3>1, RequestsAre
    <3>3. CASE Exists(q)
      <4>1. reservation[<<k, n>>].status # "absent"
        BY <3>1, <3>3 DEF Exists
      <4>2. reservation[<<k, n>>].status \notin {"released", "fulfilled"}
        <5>1. \A x \in Orders : <<k, n>> \notin HeldRows(x)
          BY <1>5 DEF HeldRows
        <5> QED
          BY <3>2, <5>1 DEF RecordsInv, EndedRowsAreHeld
      <4>3. reservation[<<k, n>>].status = "active"
        BY <1>7, <3>2, <4>1, <4>2 DEF StockTypeOK, NoRow
      <4> QED
        BY <1>8, <3>2, <4>1, <4>3
    <3>4. CASE ~ Exists(q)
      <4>1. q \in new
        BY <3>4 DEF NewRequests
      <4>2. reservation'[q.id] = [status |-> "active", cell |-> q.cell, quantity |-> q.quantity]
        BY <1>1, <1>6, <1>7, <4>1, InsertedRows
      <4> QED
        BY <3>1, <4>2
    <3> QED
      BY <3>3, <3>4
  <2> QED
    BY <2>1
<1>10. Held(o)'
  <2>1. orderStatus'[o] = "confirmed" /\ orderKey'[o] = k
    BY <1>t, <1>1 DEF RecordsInv
  <2>2. /\ {r \in runs' : r.order = o} = {run}
        /\ run.type = "confirmation"
    BY <1>3, <1>4 DEF Draft
  <2>3. /\ ConfirmationsOf(o)' = {[type |-> "confirmation", order |-> o, key |-> orderKey'[o]]}
        /\ RunsOf("cancellation", o)' = {} /\ RunsOf("fulfillment", o)' = {}
    BY <2>1, <2>2 DEF ConfirmationsOf, RunsOf
  <2>4. HeldAre(o, "active")'
    BY <1>9, <2>1 DEF HeldAre, HeldRows
  <2>5. o \in journal' /\ o \notin reversal'
    BY <1>1, <1>4 DEF Draft
  <2> QED
    BY <1>t, <2>1, <2>3, <2>4, <2>5 DEF Held, Confirmed
<1>11. ASSUME NEW x \in Orders, x # o
       PROVE  OrderAgrees(x)' /\ OrderUnmoved(x)
  <2>1. /\ orderStatus'[x] = orderStatus[x] /\ orderKey'[x] = orderKey[x]
        /\ x \in journal' <=> x \in journal
        /\ x \in reversal' <=> x \in reversal
    BY <1>t, <1>1, <1>11 DEF RecordsInv
  <2>2. {r \in runs' : r.order = x} = {r \in runs : r.order = x}
    BY <1>3, <1>11
  <2>3. OrderAgrees(x)
    BY DEF RecordsInv, OrdersAgree, OrderAgrees
  <2>4. orderStatus[x] # "draft" => \A r \in HeldRows(x) : reservation'[r] = reservation[r]
    <3>1. ASSUME orderStatus[x] # "draft", NEW r \in HeldRows(x)
          PROVE  reservation'[r] = reservation[r]
      <4>1. r \in Reservations /\ reservation[r].status # "absent"
        BY <2>3, <3>1, HeldRowsThere, HeldRowsType
      <4> QED
        BY <1>8, <4>1
    <3> QED
      BY <3>1
  <2> QED
    BY <2>1, <2>2, <2>3, <2>4, OrderUntouched DEF OrderUnmoved
<1>12. OrdersAgree'
  BY <1>10, <1>11, OrdersAgreeIs DEF OrderAgrees
<1>13. KeysDiffer'
  <2>1. orderKey'[o] = k
    BY <1>t, <1>1 DEF RecordsInv
  <2> QED
    BY <1>5, <1>11, <2>1 DEF RecordsInv, KeysDiffer, OrderUnmoved
<1>14. EndedRowsAreHeld'
  <2>1. ASSUME NEW r \in Reservations, reservation'[r].status \in {"released", "fulfilled"}
        PROVE  \E x \in Orders : r \in HeldRows(x)'
    <3>1. PICK x \in Orders : r \in HeldRows(x)
      BY <1>8, <2>1 DEF RecordsInv, EndedRowsAreHeld
    <3>2. x # o
      BY <1>t, <1>4, <2>1, <3>1, LifecycleConstants DEF HeldRows, Draft
    <3> QED
      BY <1>11, <3>1, <3>2 DEF HeldRows, OrderUnmoved
  <2> QED
    BY <2>1 DEF EndedRowsAreHeld
<1>15. RunsAreTold'
  <2>1. \A e \in events : e.type \notin WorkflowTypes /\ e.order = o
    BY DEF WorkflowTypes
  <2>2. ConfirmationsOf(o)' # {}
    BY <1>10 DEF Held, Confirmed
  <2> HIDE DEF events
  <2> QED
    BY <1>1, <2>1, <2>2, ToldPart DEF RecordsInv
<1>16. /\ orderStatus' \in [Orders -> {"draft", "confirmed", "cancelled"}]
       /\ orderKey' \in [Orders -> Keys \cup {None}]
       /\ journal' \subseteq Orders /\ reversal' \subseteq Orders
  BY <1>t, <1>1 DEF RecordsInv
<1>17. /\ runs' \subseteq [type : WorkflowTypes, order : Orders, key : Keys]
       /\ outbox' \subseteq [type : EventTypes, order : Orders, key : Keys \cup Orders]
  <2>1. /\ run \in [type : WorkflowTypes, order : Orders, key : Keys]
        /\ run \in [type : EventTypes, order : Orders, key : Keys \cup Orders]
        /\ \A e \in events : e \in [type : EventTypes, order : Orders, key : Keys \cup Orders]
    BY <1>t DEF WorkflowTypes, EventTypes
  <2> HIDE DEF run, events
  <2> QED
    BY <1>3, <2>1 DEF RecordsInv
<1> QED
  BY <1>4, <1>7, <1>10, <1>11, <1>12, <1>13, <1>14, <1>15, <1>16, <1>17
     DEF RecordsInv, Becomes

(* The reservations of an order end together; no other order's do.          *)
LEMMA CloseRows ==
  ASSUME RecordsInv, NEW o \in Orders, Held(o), NEW st \in {"released", "fulfilled"},
         orderKey' = orderKey, SetStatus(WithStatus(HeldRows(o), "active"), st)
  PROVE  /\ HeldRows(o) \subseteq Reservations
         /\ HeldAre(o, st)'
         /\ \A x \in Orders \ {o} : orderStatus[x] # "draft" =>
              \A r \in HeldRows(x) : reservation'[r] = reservation[r]
         /\ EndedRowsAreHeld'
<1>1. HeldRows(o) \subseteq Reservations /\ orderKey[o] \in Keys
  BY HeldRowsType DEF Held, Confirmed
<1>2. WithStatus(HeldRows(o), "active") = HeldRows(o)
  BY DEF WithStatus, Held, HeldAre
<1>3. /\ \A r \in HeldRows(o) : reservation'[r] = [reservation[r] EXCEPT !.status = st]
      /\ \A r \in Reservations \ HeldRows(o) : reservation'[r] = reservation[r]
  BY <1>1, <1>2, CloseStep DEF RecordsInv, StockInv
<1>4. ASSUME NEW r \in HeldRows(o)
      PROVE  reservation'[r].status = st
  <2>1. reservation[r] \in [status : {"active", "released", "fulfilled"},
                           cell : Cells, quantity : Nat \ {0}]
    BY <1>1 DEF Held, HeldAre, RecordsInv, StockInv, StockTypeOK, NoRow
  <2>2. reservation'[r] = [reservation[r] EXCEPT !.status = st]
    BY <1>3
  <2> QED
    BY <2>1, <2>2
<1>5. HeldRows(o)' = HeldRows(o) /\ \A x \in Orders : HeldRows(x)' = HeldRows(x)
  BY DEF HeldRows
<1>6. HeldAre(o, st)'
  BY <1>4, <1>5 DEF HeldAre
<1>7. ASSUME NEW x \in Orders, x # o, orderStatus[x] # "draft", NEW r \in HeldRows(x)
      PROVE  reservation'[r] = reservation[r]
  <2>1. OrderAgrees(x)
    BY DEF RecordsInv, OrdersAgree, OrderAgrees
  <2>2. orderKey[x] \in Keys
    BY <1>7, <2>1, HeldRowsThere
  <2>3. r \in Reservations /\ r[1] = orderKey[x]
    BY <2>2, HeldRowsType
  <2>4. orderKey[x] # orderKey[o]
    BY <1>1, <1>7, LifecycleConstants DEF RecordsInv, KeysDiffer
  <2>5. r \notin HeldRows(o)
    BY <1>1, <2>3, <2>4, HeldRowsType
  <2> QED
    BY <1>3, <2>3, <2>5
<1>8. EndedRowsAreHeld'
  <2>1. ASSUME NEW r \in Reservations, reservation'[r].status \in {"released", "fulfilled"}
        PROVE  \E x \in Orders : r \in HeldRows(x)'
    <3>1. CASE r \in HeldRows(o)
      BY <1>5, <3>1
    <3>2. CASE r \notin HeldRows(o)
      <4>1. reservation'[r] = reservation[r]
        BY <1>3, <3>2
      <4>2. \E x \in Orders : r \in HeldRows(x)
        BY <2>1, <4>1 DEF RecordsInv, EndedRowsAreHeld
      <4> QED
        BY <1>5, <4>2
    <3> QED
      BY <3>1, <3>2
  <2> QED
    BY <2>1 DEF EndedRowsAreHeld
<1> QED
  BY <1>1, <1>6, <1>7, <1>8

(* The order that a cancellation or a fulfilment commits for is confirmed   *)
(* and has neither yet.                                                     *)
LEMMA OrderIsHeld ==
  ASSUME RecordsInv, NEW o \in Orders, ConfirmationsOf(o) # {},
         NEW type, NEW st,
         \/ type = "cancellation" /\ st = "released"
         \/ type = "fulfillment" /\ st = "fulfilled",
         RunsOf(type, o) = {}, CanClose(ReservationsOf(o), st)
  PROVE  Held(o) /\ ReservationsOf(o) = HeldRows(o)
<1>1. OrderAgrees(o) /\ ~ Draft(o)
  BY DEF RecordsInv, OrdersAgree, OrderAgrees, Draft, ConfirmationsOf
<1>2. Confirmed(o)
  BY <1>1 DEF OrderAgrees, Held, Shipped, Returned
<1>3. ReservationsOf(o) = HeldRows(o) /\ HeldRows(o) # {}
  BY <1>2, ReservationsOfIs, HeldRowsType DEF Confirmed
<1>4. \A r \in HeldRows(o) : reservation[r].status \in {"active", st}
  BY <1>3 DEF CanClose
<1>5. ~ Returned(o)
  BY <1>3, <1>4 DEF Returned, HeldAre
<1>6. ~ Shipped(o)
  BY <1>3, <1>4 DEF Shipped, HeldAre
<1> QED
  BY <1>1, <1>3, <1>5, <1>6 DEF OrderAgrees

(* What the two commits have in common.                                     *)
LEMMA EndStep ==
  ASSUME RecordsInv, NEW c \in Clients, request[c] \in WorkflowRequests,
         NEW o \in Orders, request[c].order = o, Held(o), RecordRun(c, {}),
         NEW st \in {"released", "fulfilled"},
         SetStatus(WithStatus(HeldRows(o), "active"), st), StockInv',
         request[c].type # "confirmation",
         orderKey' = orderKey, journal' = journal,
         reversal' \in {reversal, reversal \cup {o}},
         orderStatus' \in {orderStatus, [orderStatus EXCEPT ![o] = "cancelled"]}
  PROVE  /\ Confirmed(o)' /\ HeldAre(o, st)'
         /\ \A type \in {"cancellation", "fulfillment"} :
              RunsOf(type, o)' = IF type = request[c].type THEN {RunOf(request[c])} ELSE {}
         /\ RunOf(request[c]) \in runs'
         /\ \A x \in Orders \ {o} : OrderAgrees(x)' /\ OrderUnmoved(x)
         /\ KeysDiffer' /\ EndedRowsAreHeld' /\ RunsAreTold'
         /\ orderStatus' \in [Orders -> {"draft", "confirmed", "cancelled"}]
         /\ orderKey' \in [Orders -> Keys \cup {None}]
         /\ runs' \subseteq [type : WorkflowTypes, order : Orders, key : Keys]
         /\ journal' \subseteq Orders
         /\ reversal' \subseteq Orders
         /\ outbox' \subseteq [type : EventTypes, order : Orders, key : Keys \cup Orders]
<1>1. PICK run : run = RunOf(request[c])
  OBVIOUS
<1>2. /\ run \in [type : WorkflowTypes, order : Orders, key : Keys]
      /\ run.type = request[c].type /\ run.order = o
  BY <1>1 DEF RunOf, WorkflowRequests
<1>3. runs' = runs \cup {run} /\ outbox' = outbox \cup {run}
  BY <1>1 DEF RecordRun
<1>4. /\ HeldRows(o) \subseteq Reservations /\ HeldAre(o, st)' /\ EndedRowsAreHeld'
      /\ \A x \in Orders \ {o} : orderStatus[x] # "draft" =>
           \A r \in HeldRows(x) : reservation'[r] = reservation[r]
  BY CloseRows
<1>5. ConfirmationsOf(o)' = ConfirmationsOf(o)
  BY <1>2, <1>3 DEF ConfirmationsOf
<1>6. Confirmed(o)'
  BY <1>5 DEF Held, Confirmed
<1>7. \A type \in {"cancellation", "fulfillment"} :
        RunsOf(type, o)' = IF type = run.type THEN {run} ELSE {}
  BY <1>2, <1>3 DEF Held, RunsOf
<1>8. ASSUME NEW x \in Orders, x # o
      PROVE  OrderAgrees(x)' /\ OrderUnmoved(x)
  <2>1. /\ orderStatus'[x] = orderStatus[x] /\ orderKey'[x] = orderKey[x]
        /\ x \in journal' <=> x \in journal
        /\ x \in reversal' <=> x \in reversal
    BY <1>8 DEF RecordsInv
  <2>2. {r \in runs' : r.order = x} = {r \in runs : r.order = x}
    BY <1>2, <1>3, <1>8
  <2>3. OrderAgrees(x)
    BY DEF RecordsInv, OrdersAgree, OrderAgrees
  <2> QED
    BY <1>4, <1>8, <2>1, <2>2, <2>3, OrderUntouched DEF OrderUnmoved
<1>9. KeysDiffer'
  BY DEF RecordsInv, KeysDiffer
<1>10. RunsAreTold'
  <2>1. RunsAreTold
    BY DEF RecordsInv
  <2>2. ConfirmationsOf(o)' # {}
    BY <1>6 DEF Confirmed
  <2>3. \A e \in {} : e.type \notin WorkflowTypes /\ e.order = o
    OBVIOUS
  <2> QED
    BY <2>1, <2>2, <2>3, ToldPart
<1>11. /\ orderStatus' \in [Orders -> {"draft", "confirmed", "cancelled"}]
       /\ orderKey' \in [Orders -> Keys \cup {None}]
       /\ runs' \subseteq [type : WorkflowTypes, order : Orders, key : Keys]
       /\ journal' \subseteq Orders
       /\ reversal' \subseteq Orders
  BY <1>2, <1>3 DEF RecordsInv
<1>12. outbox' \subseteq [type : EventTypes, order : Orders, key : Keys \cup Orders]
  <2>1. run \in [type : EventTypes, order : Orders, key : Keys \cup Orders]
    BY <1>2 DEF EventTypes
  <2> QED
    BY <1>3, <2>1 DEF RecordsInv
<1> QED
  BY <1>1, <1>2, <1>3, <1>4, <1>6, <1>7, <1>8, <1>9, <1>10, <1>11, <1>12

(* The commit of a cancellation takes its order from held to returned.      *)
LEMMA CancelStep ==
  ASSUME RecordsInv, NEW c \in Clients, request[c] \in WorkflowRequests,
         request[c].type = "cancellation", Effect(c),
         NEW o \in Orders, request[c].order = o,
         ConfirmationsOf(o) # {}, RunsOf("cancellation", o) = {}
  PROVE  /\ RecordsInv' /\ RowsMove
         /\ Becomes(o)
         /\ \A x \in Orders \ {o} : OrderUnmoved(x)
<1>1. /\ CanCancel(o)
      /\ orderStatus' = [orderStatus EXCEPT ![o] = "cancelled"]
      /\ releaseReservations(ReservationsOf(o))
      /\ reversal' = reversal \cup {o}
      /\ RecordRun(c, {})
      /\ UNCHANGED <<orderKey, journal>>
  BY DEF Effect, CanCommit, cancelOrder
<1>2. Held(o) /\ ReservationsOf(o) = HeldRows(o)
  BY <1>1, OrderIsHeld DEF CanCancel
<1>3. HeldRows(o) \subseteq Reservations
  BY <1>2, HeldRowsType DEF Held, Confirmed
<1>4. StockInv' /\ RowsMove /\ SetStatus(WithStatus(HeldRows(o), "active"), "released")
  <2>1. releaseReservations(HeldRows(o))
    BY <1>1, <1>2
  <2> QED
    BY <1>3, <2>1, ReleasePreserves DEF RecordsInv, releaseReservations
<1>5. /\ Confirmed(o)' /\ HeldAre(o, "released")'
      /\ \A type \in {"cancellation", "fulfillment"} :
           RunsOf(type, o)' = IF type = request[c].type THEN {RunOf(request[c])} ELSE {}
      /\ RunOf(request[c]) \in runs'
      /\ \A x \in Orders \ {o} : OrderAgrees(x)' /\ OrderUnmoved(x)
      /\ KeysDiffer' /\ EndedRowsAreHeld' /\ RunsAreTold'
      /\ orderStatus' \in [Orders -> {"draft", "confirmed", "cancelled"}]
      /\ orderKey' \in [Orders -> Keys \cup {None}]
      /\ runs' \subseteq [type : WorkflowTypes, order : Orders, key : Keys]
      /\ journal' \subseteq Orders
      /\ reversal' \subseteq Orders
      /\ outbox' \subseteq [type : EventTypes, order : Orders, key : Keys \cup Orders]
  BY <1>1, <1>2, <1>4, EndStep
<1>6. Returned(o)'
  <2>1. PICK run : run = RunOf(request[c])
    OBVIOUS
  <2>2. /\ RunsOf("cancellation", o)' = {run} /\ run \in runs'
        /\ RunsOf("fulfillment", o)' = {}
    BY <1>5, <2>1
  <2>3. orderStatus'[o] = "cancelled" /\ o \in reversal'
    BY <1>1 DEF RecordsInv
  <2> QED
    BY <1>5, <2>2, <2>3 DEF Returned
<1>7. OrdersAgree'
  BY <1>5, <1>6, OrdersAgreeIs DEF OrderAgrees
<1> QED
  BY <1>2, <1>4, <1>5, <1>6, <1>7 DEF RecordsInv, Becomes

(* The commit of a fulfilment takes its order from held to shipped.         *)
LEMMA FulfillStep ==
  ASSUME RecordsInv, NEW c \in Clients, request[c] \in WorkflowRequests,
         request[c].type = "fulfillment", Effect(c),
         NEW o \in Orders, request[c].order = o,
         ConfirmationsOf(o) # {}, RunsOf("fulfillment", o) = {}
  PROVE  /\ RecordsInv' /\ RowsMove
         /\ Becomes(o)
         /\ \A x \in Orders \ {o} : OrderUnmoved(x)
<1>1. /\ fulfillReservations(ReservationsOf(o))
      /\ RecordRun(c, {})
      /\ UNCHANGED <<orderStatus, orderKey, journal, reversal>>
  BY DEF Effect, CanCommit, fulfillOrder, salesVars
<1>2. Held(o) /\ ReservationsOf(o) = HeldRows(o)
  BY <1>1, OrderIsHeld DEF fulfillReservations, CanFulfill
<1>3. HeldRows(o) \subseteq Reservations
  BY <1>2, HeldRowsType DEF Held, Confirmed
<1>4. StockInv' /\ RowsMove /\ SetStatus(WithStatus(HeldRows(o), "active"), "fulfilled")
  <2>1. fulfillReservations(HeldRows(o))
    BY <1>1, <1>2
  <2> QED
    BY <1>3, <2>1, FulfillPreserves DEF RecordsInv, fulfillReservations
<1>5. /\ Confirmed(o)' /\ HeldAre(o, "fulfilled")'
      /\ \A type \in {"cancellation", "fulfillment"} :
           RunsOf(type, o)' = IF type = request[c].type THEN {RunOf(request[c])} ELSE {}
      /\ RunOf(request[c]) \in runs'
      /\ \A x \in Orders \ {o} : OrderAgrees(x)' /\ OrderUnmoved(x)
      /\ KeysDiffer' /\ EndedRowsAreHeld' /\ RunsAreTold'
      /\ orderStatus' \in [Orders -> {"draft", "confirmed", "cancelled"}]
      /\ orderKey' \in [Orders -> Keys \cup {None}]
      /\ runs' \subseteq [type : WorkflowTypes, order : Orders, key : Keys]
      /\ journal' \subseteq Orders
      /\ reversal' \subseteq Orders
      /\ outbox' \subseteq [type : EventTypes, order : Orders, key : Keys \cup Orders]
  BY <1>1, <1>2, <1>4, EndStep
<1>6. Shipped(o)'
  <2>1. PICK run : run = RunOf(request[c])
    OBVIOUS
  <2>2. /\ RunsOf("fulfillment", o)' = {run} /\ run \in runs'
        /\ RunsOf("cancellation", o)' = {}
    BY <1>5, <2>1
  <2>3. orderStatus'[o] = "confirmed" /\ o \notin reversal'
    BY <1>1, <1>2 DEF Held
  <2> QED
    BY <1>5, <2>2, <2>3 DEF Shipped
<1>7. OrdersAgree'
  BY <1>5, <1>6, OrdersAgreeIs DEF OrderAgrees
<1> QED
  BY <1>2, <1>4, <1>5, <1>6, <1>7 DEF RecordsInv, Becomes

-----------------------------------------------------------------------------
(* The steps.                                                               *)

(* Either no order moves, or one becomes what the contract has next.        *)
OneOrderMoves ==
    \/ UNCHANGED <<orderStatus, orderKey, runs>>
    \/ \E o \in Orders : Becomes(o) /\ \A x \in Orders \ {o} : OrderUnmoved(x)

(* The tables, as the invariant of the whole has them.                      *)
LEMMA RecordsInvIs ==
  /\ LifecycleInv => RecordsInv
  /\ RecordsInv' => StockTypeOK' /\ ReservedIsBacked' /\ OrdersAgree' /\ KeysDiffer'
                       /\ EndedRowsAreHeld' /\ RunsAreTold'
  BY DEF LifecycleInv, LifecycleTypeOK, RecordsInv, StockInv

(* Steps that leave the records alone, and those of callers that receive    *)
(* goods or reserve on their own: no order's reservations change.           *)
LEMMA StockOnly ==
  ASSUME RecordsInv, StockInv', RowsMove, UNCHANGED recordVars,
         \A r \in Reservations :
           \/ reservation'[r] = reservation[r]
           \/ reservation[r].status = "absent" /\ reservation'[r].status = "active"
  PROVE  RecordsInv' /\ RowsMove /\ OneOrderMoves
<1>1. UNCHANGED <<orderStatus, orderKey, runs, journal, reversal, outbox, jobs>>
  BY DEF recordVars
<1>2. ASSUME NEW o \in Orders
      PROVE  OrderAgrees(o)'
  <2>1. OrderAgrees(o)
    BY DEF RecordsInv, OrdersAgree, OrderAgrees
  <2>2. ASSUME orderStatus[o] # "draft", NEW r \in HeldRows(o)
        PROVE  reservation'[r] = reservation[r]
    <3>1. r \in Reservations /\ reservation[r].status # "absent"
      BY <2>1, <2>2, HeldRowsThere, HeldRowsType
    <3> QED
      BY <3>1
  <2> QED
    BY <1>1, <2>1, <2>2, OrderUntouched
<1>3. OrdersAgree'
  BY <1>2, OrdersAgreeIs
<1>4. EndedRowsAreHeld'
  <2>1. \A o \in Orders : HeldRows(o)' = HeldRows(o)
    BY <1>1 DEF HeldRows
  <2>2. ASSUME NEW r \in Reservations, reservation'[r].status \in {"released", "fulfilled"}
        PROVE  \E o \in Orders : r \in HeldRows(o)'
    <3>1. \E o \in Orders : r \in HeldRows(o)
      BY <2>2 DEF RecordsInv, EndedRowsAreHeld
    <3> QED
      BY <2>1, <3>1
  <2> QED
    BY <2>2 DEF EndedRowsAreHeld
<1>5. RunsAreTold' /\ KeysDiffer'
  BY <1>1 DEF RecordsInv, RunsAreTold, KeysDiffer, ConfirmationsOf
<1> QED
  BY <1>1, <1>3, <1>4, <1>5 DEF RecordsInv, OneOrderMoves

(* A workflow that commits does to its order what the contract allows.      *)
LEMMA CommitStep ==
  ASSUME RecordsInv, NEW c \in Clients, CallFine(c), pc[c] = "commit", Effect(c)
  PROVE  RecordsInv' /\ RowsMove /\ OneOrderMoves
<1>1. request[c] \in WorkflowRequests
  BY DEF CallFine
<1>2. PICK o \in Orders : request[c].order = o
  BY <1>1 DEF WorkflowRequests
<1>3. request[c].type \in WorkflowTypes
  BY <1>1 DEF WorkflowRequests
<1>4. request[c].type # "confirmation" =>
        ConfirmationsOf(o) # {} /\ RunsOf(request[c].type, o) = {}
  BY <1>2 DEF CallFine
<1>5. CASE request[c].type = "confirmation"
  BY <1>1, <1>2, <1>5, ConfirmStep DEF OneOrderMoves
<1>6. CASE request[c].type = "cancellation"
  BY <1>1, <1>2, <1>4, <1>6, CancelStep DEF OneOrderMoves
<1>7. CASE request[c].type = "fulfillment"
  BY <1>1, <1>2, <1>4, <1>7, FulfillStep DEF OneOrderMoves
<1> QED
  BY <1>3, <1>5, <1>6, <1>7 DEF WorkflowTypes

(* Every step.                                                              *)
LEMMA RecordsPart ==
  ASSUME LifecycleInv, [LifecycleNext]_lifecycleVars
  PROVE  RecordsInv' /\ RowsMove /\ OneOrderMoves
<1>t. RecordsInv
  BY RecordsInvIs
<1>s. StockInv
  BY <1>t DEF RecordsInv
<1>f. \A c \in Clients : CallFine(c)
  BY CallsFineIs DEF CallsFine
<1>1. ASSUME UNCHANGED <<stockVars, recordVars>>
      PROVE  RecordsInv' /\ RowsMove /\ OneOrderMoves
  <2>1. StockInv' /\ RowsMove
    BY <1>s, <1>1, StockUnchanged
  <2>2. reservation' = reservation
    BY <1>1 DEF stockVars
  <2> QED
    BY <1>t, <1>1, <2>1, <2>2, StockOnly
<1>2. CASE Receive
  <2>1. PICK cell \in Cells : receiveStock(OneLine(cell, 1), None)
    BY <1>2 DEF Receive
  <2>2. OneLine(cell, 1) \in [Cells -> Nat]
    BY DEF OneLine
  <2>3. StockInv' /\ RowsMove
    BY <1>s, <2>1, <2>2, ReceivePreserves
  <2>4. reservation' = reservation /\ UNCHANGED recordVars
    BY <1>2, <2>1 DEF receiveStock, Receive
  <2> QED
    BY <1>t, <2>3, <2>4, StockOnly
<1>3. CASE ReserveDirectly
  <2>1. PICK id \in Reservations, cell \in Cells :
          LET q == [id |-> id, cell |-> cell, quantity |-> 1] IN
          ~ Exists(q) /\ Available({q}) /\ InsertReservations({q})
    BY <1>3 DEF ReserveDirectly
  <2>2. PICK q : q = [id |-> id, cell |-> cell, quantity |-> 1]
    OBVIOUS
  <2>3. ~ Exists(q) /\ Available({q}) /\ InsertReservations({q})
    BY <2>1, <2>2
  <2>4. q.id \in Reservations /\ q.cell \in Cells /\ q.quantity \in Nat \ {0}
    BY <2>2
  <2>5. NewKeys({q})
    BY <2>3, <2>4, FS_Singleton DEF NewKeys
  <2>6. StockInv' /\ RowsMove
    BY <1>s, <2>3, <2>5, InsertPreserves
  <2>7. \A r \in Reservations :
          \/ reservation'[r] = reservation[r]
          \/ reservation[r].status = "absent" /\ reservation'[r].status = "active"
    BY <1>s, <2>3, <2>5, InsertedStatus DEF StockInv
  <2>8. UNCHANGED recordVars
    BY <1>3 DEF ReserveDirectly
  <2> QED
    BY <1>t, <2>6, <2>7, <2>8, StockOnly
<1>4. ASSUME NEW c \in Clients, Commit(c) \/ CommitUnacknowledged(c)
      PROVE  RecordsInv' /\ RowsMove /\ OneOrderMoves
  BY <1>t, <1>f, <1>4, CommitStep DEF Commit, CommitUnacknowledged
<1>5. CASE UNCHANGED lifecycleVars
  BY <1>1, <1>5 DEF lifecycleVars, stockVars, recordVars
<1>6. CASE SwitchPeriod \/ ActivateEngine
  BY <1>1, <1>6 DEF SwitchPeriod, ActivateEngine
<1>7. ASSUME NEW c \in Clients,
             \/ \E type \in WorkflowTypes, o \in Orders, k \in Keys : CallWorkflow(c, type, o, k)
             \/ LookupConfirmation(c) \/ LookupLifecycle(c) \/ ensureLegacyEngine(c)
             \/ CommitFindsKey(c) \/ CommitRefused(c) \/ DatabaseFails(c)
      PROVE  RecordsInv' /\ RowsMove /\ OneOrderMoves
  BY <1>1, <1>7 DEF CallWorkflow, LookupConfirmation, LookupLifecycle, ensureLegacyEngine,
                    CommitFindsKey, CommitRefused, DatabaseFails
<1> QED
  BY <1>2, <1>3, <1>4, <1>5, <1>6, <1>7 DEF LifecycleNext, WorkflowStep

(* The empty tables satisfy the invariant.                                  *)
LEMMA InitInv == LifecycleInit => LifecycleInv
<1> SUFFICES ASSUME LifecycleInit PROVE LifecycleInv
  OBVIOUS
<1>1. StockInv /\ \A r \in Reservations : reservation[r].status = "absent"
  <2>1. StockInv
    BY StockStart DEF LifecycleInit
  <2>2. reservation = [r \in Reservations |-> NoRow]
    BY DEF LifecycleInit, StockInit
  <2> QED
    BY <2>1, <2>2 DEF NoRow
<1>2. LifecycleTypeOK
  BY <1>1, LifecycleConstants DEF LifecycleInit, LifecycleTypeOK, StockInv
<1>3. OrdersAgree /\ KeysDiffer
  BY DEF LifecycleInit, OrdersAgree, Draft, KeysDiffer
<1>4. EndedRowsAreHeld
  BY <1>1 DEF EndedRowsAreHeld
<1>5. RunsAreTold
  BY DEF LifecycleInit, RunsAreTold
<1>6. CallsHoldLocks /\ SuccessIsRecorded
  BY DEF LifecycleInit, CallsHoldLocks, SuccessIsRecorded
<1> QED
  BY <1>1, <1>2, <1>3, <1>4, <1>5, <1>6 DEF LifecycleInv, StockInv

(* Every step keeps the invariant.                                          *)
LEMMA NextInv == LifecycleInv /\ [LifecycleNext]_lifecycleVars => LifecycleInv'
<1> SUFFICES ASSUME LifecycleInv, [LifecycleNext]_lifecycleVars PROVE LifecycleInv'
  OBVIOUS
<1>1. RecordsInv' /\ CallsFine'
  BY RecordsPart, CallPart
<1>2. CallsHoldLocks' /\ SuccessIsRecorded'
  BY <1>1, CallsFineIs
<1>3. engine' \in {"postgresql", "tigerbeetle"} /\ postingOpen' \in BOOLEAN
  <2>1. UNCHANGED controlVars \/ SwitchPeriod \/ ActivateEngine
    BY DEF LifecycleNext, WorkflowStep, CallWorkflow, LookupConfirmation, LookupLifecycle,
           ensureLegacyEngine, Commit, CommitFindsKey, CommitRefused, DatabaseFails,
           CommitUnacknowledged, Receive, ReserveDirectly, lifecycleVars, controlVars
  <2> QED
    BY <2>1 DEF LifecycleInv, LifecycleTypeOK, controlVars, SwitchPeriod, ActivateEngine
<1>4. LifecycleTypeOK'
  BY <1>1, <1>3 DEF LifecycleTypeOK, RecordsInv, StockInv, CallsFine, CallTypes, RunsAreTold,
                    WorkflowRequests
<1> QED
  BY <1>1, <1>2, <1>4, RecordsInvIs DEF LifecycleInv

-----------------------------------------------------------------------------
(* The refinement.                                                          *)

(* The abstract order is a function of what the tables agree on.            *)
AbstractOrders ==
    \A o \in Orders :
      /\ Draft(o) => StageOf(o) = "draft" /\ GoodsOf(o) = "none" /\ RevenueOf(o) = 0
      /\ Held(o) => StageOf(o) = "confirmed" /\ GoodsOf(o) = "held" /\ RevenueOf(o) = 1
      /\ Shipped(o) => StageOf(o) = "fulfilled" /\ GoodsOf(o) = "shipped" /\ RevenueOf(o) = 1
      /\ Returned(o) => StageOf(o) = "cancelled" /\ GoodsOf(o) = "returned" /\ RevenueOf(o) = 0

(* Reservations of one status make the goods.                               *)
LEMMA GoodsAre ==
  ASSUME NEW o \in Orders, Confirmed(o), NEW st, HeldAre(o, st)
  PROVE  GoodsOf(o) = CASE st = "active" -> "held"
                        [] st = "released" -> "returned"
                        [] st = "fulfilled" -> "shipped"
                        [] OTHER -> "mixed"
<1>1. ReservationsOf(o) = HeldRows(o) /\ HeldRows(o) # {}
  BY ReservationsOfIs, HeldRowsType DEF Confirmed
<1>2. {reservation[r].status : r \in ReservationsOf(o)} = {st}
  BY <1>1 DEF HeldAre
<1> QED
  BY <1>2 DEF GoodsOf

(* Journals and reversals make the revenue.                                 *)
LEMMA RevenueIs ==
  ASSUME NEW o \in Orders
  PROVE  RevenueOf(o) = (IF o \in journal THEN 1 ELSE 0) - (IF o \in reversal THEN 1 ELSE 0)
<1>1. ASSUME NEW S
      PROVE  Cardinality({o} \cap S) = IF o \in S THEN 1 ELSE 0
  <2>1. {o} \cap S = IF o \in S THEN {o} ELSE {}
    OBVIOUS
  <2> QED
    BY <2>1, FS_EmptySet, FS_Singleton
<1> QED
  BY <1>1 DEF RevenueOf

(* What the refinement mapping makes of an order, class by class.           *)
LEMMA AbstractOrdersHold == AbstractOrders
<1> SUFFICES ASSUME NEW o \in Orders
             PROVE  /\ Draft(o) => StageOf(o) = "draft" /\ GoodsOf(o) = "none" /\ RevenueOf(o) = 0
                    /\ Held(o) => StageOf(o) = "confirmed" /\ GoodsOf(o) = "held" /\ RevenueOf(o) = 1
                    /\ Shipped(o) => StageOf(o) = "fulfilled" /\ GoodsOf(o) = "shipped" /\ RevenueOf(o) = 1
                    /\ Returned(o) => StageOf(o) = "cancelled" /\ GoodsOf(o) = "returned" /\ RevenueOf(o) = 0
  BY DEF AbstractOrders
<1>r. RevenueOf(o) = (IF o \in journal THEN 1 ELSE 0) - (IF o \in reversal THEN 1 ELSE 0)
  BY RevenueIs
<1>1. CASE Draft(o)
  <2>1. ReservationsOf(o) = {}
    BY <1>1 DEF Draft, ReservationsOf, ConfirmationsOf
  <2>2. GoodsOf(o) = "none"
    BY <2>1 DEF GoodsOf
  <2>3. StageOf(o) = "draft"
    BY <1>1 DEF Draft, StageOf
  <2> QED
    BY <1>r, <1>1, <2>2, <2>3 DEF Draft, Held, Shipped, Returned
<1>2. CASE Held(o)
  <2>1. GoodsOf(o) = "held"
    BY <1>2, GoodsAre DEF Held
  <2>2. StageOf(o) = "confirmed"
    BY <1>2 DEF Held, StageOf, RunsOf
  <2> QED
    BY <1>r, <1>2, <2>1, <2>2 DEF Draft, Held, Shipped, Returned, Confirmed
<1>3. CASE Shipped(o)
  <2>1. GoodsOf(o) = "shipped"
    BY <1>3, GoodsAre DEF Shipped
  <2>2. StageOf(o) = "fulfilled"
    BY <1>3 DEF Shipped, StageOf, RunsOf
  <2>3. ~ Held(o)
    BY <1>3 DEF Shipped, Held
  <2> QED
    BY <1>r, <1>3, <2>1, <2>2, <2>3 DEF Draft, Shipped, Returned, Confirmed
<1>4. CASE Returned(o)
  <2>1. GoodsOf(o) = "returned"
    BY <1>4, GoodsAre DEF Returned
  <2>2. StageOf(o) = "cancelled"
    BY <1>4 DEF Returned, StageOf, RunsOf
  <2> QED
    BY <1>r, <1>4, <2>1, <2>2 DEF Draft, Held, Shipped, Returned, Confirmed
<1> QED
  BY <1>1, <1>2, <1>3, <1>4

(* An order that stays as it is stays in its class.                         *)
LEMMA UnmovedKeepsClass ==
  ASSUME NEW o \in Orders, OrderAgrees(o), OrderAgrees(o)', OrderUnmoved(o)
  PROVE  \/ Draft(o) /\ Draft(o)'
         \/ Held(o) /\ Held(o)'
         \/ Shipped(o) /\ Shipped(o)'
         \/ Returned(o) /\ Returned(o)'
<1>1. orderStatus'[o] = orderStatus[o]
  BY DEF OrderUnmoved
<1>2. RunsOf("fulfillment", o)' = RunsOf("fulfillment", o)
  BY DEF OrderUnmoved, RunsOf
<1>3. Shipped(o) => orderStatus[o] = "confirmed" /\ RunsOf("fulfillment", o) # {}
  BY DEF Shipped
<1>4. Shipped(o)' => orderStatus'[o] = "confirmed" /\ RunsOf("fulfillment", o)' # {}
  BY DEF Shipped
<1>5. /\ Held(o) => orderStatus[o] = "confirmed" /\ RunsOf("fulfillment", o) = {}
      /\ Held(o)' => orderStatus'[o] = "confirmed" /\ RunsOf("fulfillment", o)' = {}
  BY DEF Held
<1>6. /\ Draft(o) => orderStatus[o] = "draft"
      /\ Draft(o)' => orderStatus'[o] = "draft"
      /\ Returned(o) => orderStatus[o] = "cancelled"
      /\ Returned(o)' => orderStatus'[o] = "cancelled"
  BY DEF Draft, Returned
<1>7. /\ Draft(o) \/ Held(o) \/ Shipped(o) \/ Returned(o)
      /\ Draft(o)' \/ Held(o)' \/ Shipped(o)' \/ Returned(o)'
  BY DEF OrderAgrees
<1> QED
  BY <1>1, <1>2, <1>3, <1>4, <1>5, <1>6, <1>7

(* A step of the workflows is a step of the contract or leaves it alone.    *)
LEMMA ContractStep ==
  ASSUME LifecycleInv, [LifecycleNext]_lifecycleVars, AbstractOrders, AbstractOrders'
  PROVE  [Contract!ContractNext]_Contract!contractVars
<1>1. RecordsInv' /\ OneOrderMoves
  BY RecordsPart
<1>2. \A o \in Orders : OrderAgrees(o) /\ OrderAgrees(o)'
  BY <1>1, OrdersAgreeIs DEF RecordsInv, LifecycleInv
<1>3. ASSUME NEW o \in Orders, OrderUnmoved(o)
      PROVE  StageOf(o)' = StageOf(o) /\ GoodsOf(o)' = GoodsOf(o) /\ RevenueOf(o)' = RevenueOf(o)
  BY <1>2, <1>3, UnmovedKeepsClass DEF AbstractOrders
<1>4. CASE UNCHANGED <<orderStatus, orderKey, runs>>
  <2>1. \A o \in Orders : OrderUnmoved(o)
    BY <1>4 DEF OrderUnmoved
  <2> QED
    BY <1>3, <2>1 DEF Contract!contractVars
<1>5. ASSUME NEW o \in Orders, Becomes(o), \A x \in Orders \ {o} : OrderUnmoved(x)
      PROVE  Contract!ContractNext
  <2>1. \A x \in Orders \ {o} :
          StageOf(x)' = StageOf(x) /\ GoodsOf(x)' = GoodsOf(x) /\ RevenueOf(x)' = RevenueOf(x)
    BY <1>3, <1>5
  <2>2. CASE Draft(o) /\ Held(o)'
    <3>1. /\ StageOf(o) = "draft"
          /\ StageOf(o)' = "confirmed" /\ GoodsOf(o)' = "held" /\ RevenueOf(o)' = 1
      BY <2>2 DEF AbstractOrders
    <3>2. Contract!Move(o, "draft", "confirmed", "held", 1)
      BY <2>1, <3>1 DEF Contract!Move
    <3> QED
      BY <3>2 DEF Contract!ContractNext
  <2>3. CASE Held(o) /\ Returned(o)'
    <3>1. /\ StageOf(o) = "confirmed"
          /\ StageOf(o)' = "cancelled" /\ GoodsOf(o)' = "returned" /\ RevenueOf(o)' = 0
      BY <2>3 DEF AbstractOrders
    <3>2. Contract!Move(o, "confirmed", "cancelled", "returned", 0)
      BY <2>1, <3>1 DEF Contract!Move
    <3> QED
      BY <3>2 DEF Contract!ContractNext
  <2>4. CASE Held(o) /\ Shipped(o)'
    <3>1. /\ StageOf(o) = "confirmed"
          /\ StageOf(o)' = "fulfilled" /\ GoodsOf(o)' = "shipped" /\ RevenueOf(o)' = 1
      BY <2>4 DEF AbstractOrders
    <3>2. Contract!Move(o, "confirmed", "fulfilled", "shipped", 1)
      BY <2>1, <3>1 DEF Contract!Move
    <3> QED
      BY <3>2 DEF Contract!ContractNext
  <2> QED
    BY <1>5, <2>2, <2>3, <2>4 DEF Becomes
<1> QED
  BY <1>1, <1>4, <1>5 DEF OneOrderMoves

(* Nothing of the contract has happened yet.                                *)
LEMMA ContractStart ==
  ASSUME LifecycleInit, AbstractOrders
  PROVE  Contract!ContractInit
<1>1. \A o \in Orders : Draft(o)
  BY DEF LifecycleInit, Draft
<1> QED
  BY <1>1 DEF AbstractOrders, Contract!ContractInit

-----------------------------------------------------------------------------
(* The theorems.                                                            *)

(* The tables, the locks and the calls agree in every reachable state.      *)
THEOREM LifecycleInvariant == LifecycleSpec => []LifecycleInv
  BY InitInv, NextInv, PTL DEF LifecycleSpec

(* The types, and no workflow leaves a lock behind when it ends.            *)
THEOREM LifecycleTypeCorrect == LifecycleSpec => []LifecycleTypeOK
<1>1. LifecycleInv => LifecycleTypeOK
  BY DEF LifecycleInv
<1> QED
  BY <1>1, LifecycleInvariant, PTL

(* No retry, no second caller and no other key confirms, cancels or fulfils *)
(* an order again.                                                          *)
THEOREM OneRun == LifecycleSpec => []OneRunPerOrder
<1>1. LifecycleInv => OneRunPerOrder
  <2> SUFFICES ASSUME LifecycleInv, NEW r \in runs, NEW s \in runs,
                      r.type = s.type, r.order = s.order
               PROVE  r = s
    BY DEF OneRunPerOrder
  <2>1. r.order \in Orders /\ r.type \in WorkflowTypes
    BY DEF LifecycleInv, LifecycleTypeOK
  <2>2. PICK o \in Orders : r.order = o
    BY <2>1
  <2>3. Held(o) \/ Shipped(o) \/ Returned(o)
    BY <2>2 DEF LifecycleInv, OrdersAgree, Draft
  <2>4. \E x : ConfirmationsOf(o) = {x}
    BY <2>3 DEF Held, Shipped, Returned, Confirmed
  <2>5. \A type \in {"cancellation", "fulfillment"} :
          RunsOf(type, o) = {} \/ \E x : RunsOf(type, o) = {x}
    BY <2>3 DEF Held, Shipped, Returned
  <2>6. CASE r.type = "confirmation"
    <3>1. r \in ConfirmationsOf(o) /\ s \in ConfirmationsOf(o)
      BY <2>2, <2>6 DEF ConfirmationsOf
    <3> QED
      BY <2>4, <3>1
  <2>7. CASE r.type # "confirmation"
    <3>1. r \in RunsOf(r.type, o) /\ s \in RunsOf(r.type, o)
      BY <2>2 DEF RunsOf
    <3>2. r.type \in {"cancellation", "fulfillment"}
      BY <2>1, <2>7 DEF WorkflowTypes
    <3> QED
      BY <2>5, <3>1, <3>2
  <2> QED
    BY <2>6, <2>7
<1> QED
  BY <1>1, LifecycleInvariant, PTL

(* Whoever is told that its workflow succeeded finds the run of its own     *)
(* order under its own key.                                                 *)
THEOREM SuccessRecorded == LifecycleSpec => []SuccessIsRecorded
<1>1. LifecycleInv => SuccessIsRecorded
  BY DEF LifecycleInv
<1> QED
  BY <1>1, LifecycleInvariant, PTL

(* Consumers of the outbox see an order cancelled or fulfilled, not both,   *)
(* and only after its confirmation; every completion event has its job.     *)
THEOREM OneOutcome == LifecycleSpec => []ConsumersSeeOneOutcome
<1>1. LifecycleInv => ConsumersSeeOneOutcome
  <2> SUFFICES ASSUME LifecycleInv PROVE ConsumersSeeOneOutcome
    OBVIOUS
  <2>1. RunsAreTold
    BY DEF LifecycleInv
  <2>2. ASSUME NEW e \in outbox, NEW f \in outbox, e.order = f.order,
               {e.type, f.type} \subseteq {"cancellation", "fulfillment"}
        PROVE  e = f
    <3>1. /\ e \in runs /\ f \in runs
          /\ e.type \in {"cancellation", "fulfillment"}
          /\ f.type \in {"cancellation", "fulfillment"}
      BY <2>1, <2>2 DEF RunsAreTold, WorkflowTypes
    <3>2. PICK o \in Orders : e.order = o
      BY <3>1 DEF LifecycleInv, LifecycleTypeOK
    <3>3. e \in RunsOf(e.type, o) /\ f \in RunsOf(f.type, o)
      BY <2>2, <3>1, <3>2 DEF RunsOf
    <3>4. Held(o) \/ Shipped(o) \/ Returned(o)
      BY <3>1, <3>2 DEF LifecycleInv, OrdersAgree, Draft
    <3>5. \E x : RunsOf("cancellation", o) \cup RunsOf("fulfillment", o) \subseteq {x}
      BY <3>4 DEF Held, Shipped, Returned
    <3> QED
      BY <3>1, <3>3, <3>5
  <2>3. ASSUME NEW e \in outbox
        PROVE  \E f \in outbox : f.order = e.order /\ f.type = "confirmation"
    <3>1. PICK f : f \in ConfirmationsOf(e.order)
      BY <2>1 DEF RunsAreTold
    <3> QED
      BY <2>1, <3>1 DEF RunsAreTold, ConfirmationsOf
  <2> QED
    BY <2>1, <2>2, <2>3 DEF ConsumersSeeOneOutcome, RunsAreTold
<1> QED
  BY <1>1, LifecycleInvariant, PTL

(* Nothing is posted or reversed while posting is disabled or no period is  *)
(* open, also when the period closes while a workflow is under way.         *)
THEOREM PostingFenced == LifecycleSpec => PostsInOpenPeriod
<1> DEFINE Fenced == ~ postingOpen => UNCHANGED <<journal, reversal>>
<1>1. [LifecycleNext]_lifecycleVars => [Fenced]_lifecycleVars
  <2> SUFFICES ASSUME LifecycleNext, ~ postingOpen
               PROVE  UNCHANGED <<journal, reversal>>
    BY DEF lifecycleVars
  <2>1. ASSUME NEW c \in Clients, Effect(c)
        PROVE  UNCHANGED <<journal, reversal>>
    BY <2>1 DEF Effect, CanCommit, confirmOrder, cancelOrder, fulfillOrder, CanConfirm,
       CanPostRevenue, CanCancel
  <2> QED
    BY <2>1 DEF LifecycleNext, WorkflowStep, CallWorkflow, LookupConfirmation, LookupLifecycle,
       ensureLegacyEngine, Commit, CommitFindsKey, CommitRefused, DatabaseFails,
       CommitUnacknowledged, Receive, ReserveDirectly, SwitchPeriod, ActivateEngine, recordVars
<1> QED
  BY <1>1, PTL DEF LifecycleSpec, PostsInOpenPeriod

(* The workflows implement the contract of the orders: each is confirmed    *)
(* once, then cancelled or fulfilled once, its goods and its revenue moving *)
(* with it in one step.                                                     *)
THEOREM LifecycleRefinement == LifecycleSpec => ImplementsOrderContract
<1>1. LifecycleInit /\ AbstractOrders => Contract!ContractInit
  BY ContractStart
<1>2. LifecycleInv /\ AbstractOrders /\ AbstractOrders' /\ [LifecycleNext]_lifecycleVars
        => [Contract!ContractNext]_Contract!contractVars
  BY ContractStep
<1>3. []AbstractOrders
  BY AbstractOrdersHold, PTL
<1> QED
  BY <1>1, <1>2, <1>3, LifecycleInvariant, PTL
     DEF LifecycleSpec, ImplementsOrderContract, Contract!ContractSpec

=============================================================================
