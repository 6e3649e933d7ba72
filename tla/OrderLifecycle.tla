--------------------------- MODULE OrderLifecycle ---------------------------
(***************************************************************************)
(* The order workflows of packages/process/src/service.ts (confirmOrder,    *)
(* recoverOrder, cancelOrder, fulfillOrder) over the sales order, the stock *)
(* of one warehouse, the legacy revenue journals, the outbox and the        *)
(* post-commit jobs.  One tenant and one legal entity.                      *)
(*                                                                         *)
(* A workflow is ONE database transaction: the services it calls join it.   *)
(* Its row locks are held to the end and its writes show when it commits,   *)
(* so all that it does under locks is the action Commit.  What it reads     *)
(* WITHOUT a lock may be stale by then and is an action of its own: the     *)
(* lookup of the workflow run by its key and the engine check of the legacy *)
(* posting (ensureLegacyEngine).  cancelOrder and fulfillOrder begin by     *)
(* locking the order's confirmation run; lock is that lock.                 *)
(*                                                                         *)
(* A run is inserted as running and updated to succeeded in the same        *)
(* transaction, so every run another transaction can see has succeeded.     *)
(* markManualRecovery therefore finds either no run or a completed one and  *)
(* never writes; recoverOrder is confirmOrder behind another capability.    *)
(***************************************************************************)
EXTENDS Stock, Sequences

CONSTANTS
    Clients,        \* callers of the API
    Orders,
    Keys,           \* idempotency keys
    LinesOf,        \* order -> sequence of [cell, quantity]
    ReceiptCap      \* bound: cell -> what is ever received into it

LineNumbers == 1..2     \* bound: lines of an order

ASSUME LifecycleConstants ==
    /\ \A o \in Orders :
         /\ DOMAIN LinesOf[o] \subseteq LineNumbers
         /\ DOMAIN LinesOf[o] # {}
         /\ \A n \in DOMAIN LinesOf[o] :
              LinesOf[o][n] \in [cell : Cells, quantity : Nat \ {0}]
    /\ Reservations = Keys \X LineNumbers
    /\ ReceiptCap \in [Cells -> Nat]
    /\ None \notin Keys \cup Clients

WorkflowTypes == {"confirmation", "cancellation", "fulfillment"}

VARIABLES
    orderStatus,    \* order -> sales.orders.status
    orderKey,       \* order -> confirmation_idempotency_key
    runs,           \* workflow_runs, as [type, order, key]
    journal,        \* orders with a posted revenue journal
    reversal,       \* orders with a reversing journal
    outbox,         \* event_outbox, as [type, order, key]
    jobs,           \* post-commit jobs, as [type, order, key]
    engine,         \* legal_entity_accounting_configurations.financial_engine
    postingOpen,    \* posting is enabled and today is in an open period
    lock,           \* order -> who holds its confirmation run
    pc,             \* client -> where it is in a workflow
    request,        \* client -> [type, order, key, retry]
    reply           \* client -> how its last call ended

salesVars == <<orderStatus, orderKey>>
recordVars == <<orderStatus, orderKey, runs, journal, reversal, outbox, jobs>>
controlVars == <<engine, postingOpen>>
callVars == <<lock, pc, request, reply>>
lifecycleVars == <<onHand, reserved, reservation, receipts, orderStatus, orderKey,
                   runs, journal, reversal, outbox, jobs, engine, postingOpen,
                   lock, pc, request, reply>>

EventTypes == {"sales.order.confirmed", "accounting.revenue.posted"} \cup WorkflowTypes

(* The types, and that a lock is held by a transaction on that order that   *)
(* is under way: no ending of a workflow leaves its lock behind.            *)
LifecycleTypeOK ==
    /\ StockTypeOK
    /\ orderStatus \in [Orders -> {"draft", "confirmed", "cancelled"}]
    /\ orderKey \in [Orders -> Keys \cup {None}]
    /\ runs \subseteq [type : WorkflowTypes, order : Orders, key : Keys]
    /\ journal \subseteq Orders
    /\ reversal \subseteq Orders
    /\ outbox \subseteq [type : EventTypes, order : Orders, key : Keys \cup Orders]
    /\ jobs \subseteq [type : WorkflowTypes, order : Orders, key : Keys]
    /\ engine \in {"postgresql", "tigerbeetle"}
    /\ postingOpen \in BOOLEAN
    /\ lock \in [Orders -> Clients \cup {None}]
    /\ \A o \in Orders, c \in Clients :
         lock[o] = c => pc[c] \in {"fence", "commit"} /\ request[c].order = o
    /\ pc \in [Clients -> {"idle", "lookup", "fence", "commit"}]
    /\ request \in [Clients -> {None} \cup [type : WorkflowTypes, order : Orders,
                                            key : Keys, retry : BOOLEAN]]
    /\ reply \in [Clients -> {"none", "ok", "refused", "unknown"}]

LifecycleInit ==
    /\ StockInit
    /\ orderStatus = [o \in Orders |-> "draft"]
    /\ orderKey = [o \in Orders |-> None]
    /\ runs = {}
    /\ journal = {}
    /\ reversal = {}
    /\ outbox = {}
    /\ jobs = {}
    /\ engine = "postgresql"
    /\ postingOpen = TRUE
    /\ lock = [o \in Orders |-> None]
    /\ pc = [c \in Clients |-> "idle"]
    /\ request = [c \in Clients |-> None]
    /\ reply = [c \in Clients |-> "none"]

-----------------------------------------------------------------------------
RunOf(r) == [type |-> r.type, order |-> r.order, key |-> r.key]

(* MUTANT of FreeLock: a transaction that ends keeps its locks.             *)
FreeLock_Leaks(c) == UNCHANGED lock

(* The transaction ends and its locks go.                                   *)
FreeLock(c) == lock' = [o \in Orders |-> IF lock[o] = c THEN None ELSE lock[o]]

(* The caller gets its answer; what it asked for is remembered while the    *)
(* answer is a success.                                                     *)
Reply(c, how) ==
    /\ pc' = [pc EXCEPT ![c] = "idle"]
    /\ reply' = [reply EXCEPT ![c] = how]
    /\ FreeLock(c)
    /\ request' = [request EXCEPT ![c] = IF how = "ok" THEN @ ELSE None]

Goto(c, label) ==
    /\ pc' = [pc EXCEPT ![c] = label]
    /\ UNCHANGED <<request, reply>>

(* cancelOrder and fulfillOrder begin again, once, after an idempotency     *)
(* conflict; confirmOrder does not.                                         *)
Conflict(c) ==
    IF request[c].type # "confirmation" /\ ~ request[c].retry
    THEN /\ pc' = [pc EXCEPT ![c] = "lookup"]
         /\ request' = [request EXCEPT ![c].retry = TRUE]
         /\ FreeLock(c)
         /\ UNCHANGED reply
    ELSE Reply(c, "refused")

CallWorkflow(c, type, o, k) ==
    /\ pc[c] = "idle"
    /\ pc' = [pc EXCEPT ![c] = "lookup"]
    /\ request' = [request EXCEPT ![c] = [type |-> type, order |-> o, key |-> k, retry |-> FALSE]]
    /\ reply' = [reply EXCEPT ![c] = "none"]
    /\ UNCHANGED <<stockVars, recordVars, controlVars, lock>>

(* MUTANT of resolveExisting: the payload is not compared with the run's.   *)
resolveExisting_AnyPayload(c, row) == Reply(c, "ok")

(* The stored result, or a conflict when the run has the key but another    *)
(* payload.                                                                 *)
resolveExisting(c, row) ==
    IF row.order = request[c].order THEN Reply(c, "ok") ELSE Conflict(c)

(* confirmOrder looks for the key's run and locks nothing.                  *)
LookupConfirmation(c) ==
    LET rows == {r \in runs : r.type = "confirmation" /\ r.key = request[c].key} IN
    /\ pc[c] = "lookup" /\ request[c].type = "confirmation"
    /\ IF rows = {}
       THEN Goto(c, "fence") /\ UNCHANGED lock
       ELSE \E row \in rows : resolveExisting(c, row)
    /\ UNCHANGED <<stockVars, recordVars, controlVars>>

ConfirmationsOf(o) == {r \in runs : r.type = "confirmation" /\ r.order = o}

(* MUTANT of loadConfirmation: FOR UPDATE is missing.                       *)
loadConfirmation_NoLock(c, o) == UNCHANGED lock

(* The confirmation run of the order is locked, waiting for whoever has it. *)
loadConfirmation(c, o) ==
    /\ lock[o] = None
    /\ lock' = [lock EXCEPT ![o] = c]

(* Runs of the type with the order or the key: none, exactly the request's  *)
(* own, or a conflict.                                                      *)
resolveLifecycleExisting(c, rows) ==
    IF rows = {RunOf(request[c])} THEN Reply(c, "ok") ELSE Conflict(c)

(* cancelOrder and fulfillOrder, up to the insert of the run.  The locked   *)
(* row is released with the transaction when the call ends here.            *)
LookupLifecycle(c) ==
    LET o == request[c].order
        rows == {r \in runs : /\ r.type = request[c].type
                              /\ r.order = o \/ r.key = request[c].key}
    IN
    /\ pc[c] = "lookup" /\ request[c].type # "confirmation"
    /\ \/ /\ Cardinality(ConfirmationsOf(o)) # 1
          /\ Reply(c, "refused")
       \/ /\ Cardinality(ConfirmationsOf(o)) = 1
          /\ lock[o] = None
          /\ rows # {}
          /\ resolveLifecycleExisting(c, rows)
       \/ /\ Cardinality(ConfirmationsOf(o)) = 1
          /\ rows = {}
          /\ loadConfirmation(c, o)
          /\ Goto(c, IF request[c].type = "cancellation" THEN "fence" ELSE "commit")
    /\ UNCHANGED <<stockVars, recordVars, controlVars>>

(* ensureLegacyEngine: a plain read of the configuration.                   *)
ensureLegacyEngine(c) ==
    /\ pc[c] = "fence"
    /\ IF engine = "postgresql"
       THEN Goto(c, "commit") /\ UNCHANGED lock
       ELSE Reply(c, "refused")
    /\ UNCHANGED <<stockVars, recordVars, controlVars>>

-----------------------------------------------------------------------------
(* The run succeeds, its completion event is appended and its post-commit   *)
(* job enqueued.                                                            *)
RecordRun(c, events) ==
    /\ runs' = runs \cup {RunOf(request[c])}
    /\ outbox' = outbox \cup events \cup {RunOf(request[c])}
    /\ jobs' = jobs \cup {RunOf(request[c])}

(* workflow_runs_tenant_type_key.                                           *)
KeyTaken(c) == \E r \in runs : r.type = request[c].type /\ r.key = request[c].key

RequestsOf(o, k) ==
    {[id |-> <<k, n>>, cell |-> LinesOf[o][n].cell, quantity |-> LinesOf[o][n].quantity] :
       n \in DOMAIN LinesOf[o]}

(* The reservations of the confirmation's result.                           *)
ReservationsOf(o) == {<<r.key, n>> : r \in ConfirmationsOf(o), n \in DOMAIN LinesOf[o]}

(* MUTANT of CanConfirmOrder: a confirmed order is confirmed again under    *)
(* another key.                                                             *)
CanConfirmOrder_AnyKey(o, k) == orderStatus[o] \in {"draft", "confirmed"}

(* sales.confirmOrder on the locked order: draft, or confirmed under the    *)
(* same key.  The key is unique among the orders.                           *)
CanConfirmOrder(o, k) ==
    /\ \/ orderStatus[o] = "draft"
       \/ orderStatus[o] = "confirmed" /\ orderKey[o] = k
    /\ \A other \in Orders \ {o} : orderKey[other] # k

(* MUTANT of CanPostRevenue: the period is not looked at.                   *)
CanPostRevenue_AnyTime(o) == TRUE

(* postRevenueForOrder returns the journal there is, or posts one when      *)
(* posting is enabled and the period is open.                               *)
CanPostRevenue(o) == o \in journal \/ postingOpen

(* reserveStock for every line: a row with the key has to be for the same   *)
(* cell and quantity, the other lines need free stock.                      *)
NewRequests(o, k) == {q \in RequestsOf(o, k) : ~ Exists(q)}

CanConfirm(o, k) ==
    /\ CanConfirmOrder(o, k)
    /\ \A q \in RequestsOf(o, k) \ NewRequests(o, k) : SameRequest(q)
    /\ Available(NewRequests(o, k))
    /\ CanPostRevenue(o)

confirmOrder(c) ==
    LET o == request[c].order
        k == request[c].key
    IN
    /\ orderStatus' = [orderStatus EXCEPT ![o] = "confirmed"]
    /\ orderKey' = [orderKey EXCEPT ![o] = k]
    /\ InsertReservations(NewRequests(o, k))
    /\ journal' = journal \cup {o}
    /\ RecordRun(c, {[type |-> "sales.order.confirmed", order |-> o, key |-> k],
                     [type |-> "accounting.revenue.posted", order |-> o, key |-> o]})
    /\ UNCHANGED reversal

(* cancelConfirmedOrder returns a cancelled order as it is;                 *)
(* releaseReservation of every reservation of the confirmation;             *)
(* reverseRevenueForOrder needs the journal, and the open period unless the *)
(* reversal exists.                                                         *)
CanCancel(o) ==
    /\ orderStatus[o] \in {"confirmed", "cancelled"}
    /\ CanClose(ReservationsOf(o), "released")
    /\ o \in journal
    /\ o \in reversal \/ postingOpen

cancelOrder(c) ==
    LET o == request[c].order IN
    /\ orderStatus' = [orderStatus EXCEPT ![o] = "cancelled"]
    /\ releaseReservations(ReservationsOf(o))
    /\ reversal' = reversal \cup {o}
    /\ RecordRun(c, {})
    /\ UNCHANGED <<orderKey, journal>>

(* fulfillReservation of every reservation.  The order itself is neither    *)
(* read nor changed: it stays confirmed.                                    *)
fulfillOrder(c) ==
    /\ fulfillReservations(ReservationsOf(request[c].order))
    /\ RecordRun(c, {})
    /\ UNCHANGED <<salesVars, journal, reversal>>

(* Everything the services of the workflow insist on.                       *)
CanCommit(c) ==
    LET o == request[c].order IN
    CASE request[c].type = "confirmation" -> CanConfirm(o, request[c].key)
      [] request[c].type = "cancellation" -> CanCancel(o)
      [] request[c].type = "fulfillment" -> CanFulfill(ReservationsOf(o))

Effect(c) ==
    /\ ~ KeyTaken(c)
    /\ CanCommit(c)
    /\ \/ request[c].type = "confirmation" /\ confirmOrder(c)
       \/ request[c].type = "cancellation" /\ cancelOrder(c)
       \/ request[c].type = "fulfillment" /\ fulfillOrder(c)

Commit(c) ==
    /\ pc[c] = "commit"
    /\ Effect(c)
    /\ Reply(c, "ok")
    /\ UNCHANGED controlVars

(* The run's unique key is taken by a transaction that committed since the  *)
(* lookup.  confirmOrder reads that run (loadExistingAfterConflict).        *)
CommitFindsKey(c) ==
    /\ pc[c] = "commit"
    /\ KeyTaken(c)
    /\ IF request[c].type = "confirmation"
       THEN \E row \in runs : /\ row.type = "confirmation" /\ row.key = request[c].key
                              /\ resolveExisting(c, row)
       ELSE Conflict(c)
    /\ UNCHANGED <<stockVars, recordVars, controlVars>>

(* A service refuses: everything is rolled back.                            *)
CommitRefused(c) ==
    /\ pc[c] = "commit"
    /\ ~ KeyTaken(c) /\ ~ CanCommit(c)
    /\ Reply(c, "refused")
    /\ UNCHANGED <<stockVars, recordVars, controlVars>>

(* DatabaseFailure: WorkflowOutcomeUnknown.  The transaction was rolled     *)
(* back, or it took effect and the commit was not acknowledged.             *)
DatabaseFails(c) ==
    /\ pc[c] # "idle"
    /\ Reply(c, "unknown")
    /\ UNCHANGED <<stockVars, recordVars, controlVars>>

CommitUnacknowledged(c) ==
    /\ pc[c] = "commit"
    /\ Effect(c)
    /\ Reply(c, "unknown")
    /\ UNCHANGED controlVars

-----------------------------------------------------------------------------
(* What happens around the workflows.                                       *)
Receive ==
    /\ \E cell \in Cells :
         /\ receipts[cell] < ReceiptCap[cell]
         /\ receiveStock(OneLine(cell, 1), None)
    /\ UNCHANGED <<recordVars, controlVars, callVars>>

(* A caller of the API reserves under a key of its own choice.              *)
ReserveDirectly ==
    /\ \E id \in Reservations, cell \in Cells :
         LET q == [id |-> id, cell |-> cell, quantity |-> 1] IN
         /\ ~ Exists(q)
         /\ Available({q})
         /\ InsertReservations({q})
    /\ UNCHANGED <<recordVars, controlVars, callVars>>

(* closePeriod, and the start of the next period.                           *)
SwitchPeriod ==
    /\ postingOpen' = ~ postingOpen
    /\ UNCHANGED <<stockVars, recordVars, engine, callVars>>

(* The last transaction of activateTigerBeetleCutover.                      *)
ActivateEngine ==
    /\ engine = "postgresql"
    /\ engine' = "tigerbeetle"
    /\ UNCHANGED <<stockVars, recordVars, postingOpen, callVars>>

WorkflowStep(c) ==
    \/ LookupConfirmation(c)
    \/ LookupLifecycle(c)
    \/ ensureLegacyEngine(c)
    \/ Commit(c)
    \/ CommitFindsKey(c)
    \/ CommitRefused(c)

LifecycleNext ==
    \/ \E c \in Clients :
         \/ \E type \in WorkflowTypes, o \in Orders, k \in Keys : CallWorkflow(c, type, o, k)
         \/ WorkflowStep(c)
         \/ DatabaseFails(c)
         \/ CommitUnacknowledged(c)
    \/ Receive
    \/ ReserveDirectly
    \/ SwitchPeriod
    \/ ActivateEngine

LifecycleSpec == LifecycleInit /\ [][LifecycleNext]_lifecycleVars

-----------------------------------------------------------------------------
(* At most one run of each type per order: no retry, no second caller and   *)
(* no other key confirms, cancels or fulfils an order again.  The database  *)
(* has no unique key for it; the order's status, and the lock on the        *)
(* confirmation run taken before the lookup, are what ensures it.           *)
OneRunPerOrder ==
    \A r, s \in runs : r.type = s.type /\ r.order = s.order => r = s

(* A caller that is told its workflow succeeded finds the run of its own    *)
(* order under its own key, whether it did the work or met the run of an    *)
(* earlier or a concurrent call.                                            *)
SuccessIsRecorded ==
    \A c \in Clients : reply[c] = "ok" => RunOf(request[c]) \in runs

(* What consumers of the outbox and of the job queue are told: an order     *)
(* is completed by one cancellation or by one fulfilment, not by both, and  *)
(* only after its confirmation; every completion event has its job.         *)
ConsumersSeeOneOutcome ==
    /\ \A e, f \in outbox :
         /\ e.order = f.order
         /\ {e.type, f.type} \subseteq {"cancellation", "fulfillment"}
         => e = f
    /\ \A e \in outbox :
         \E f \in outbox : f.order = e.order /\ f.type = "confirmation"
    /\ jobs = {e \in outbox : e.type \in WorkflowTypes}

(* Nothing is posted or reversed while posting is disabled or no period is  *)
(* open, also when the period closes while the workflow is under way.       *)
PostsInOpenPeriod == [][~ postingOpen => UNCHANGED <<journal, reversal>>]_lifecycleVars

(* docs/operations/tigerbeetle-recovery.md:154: "Legacy PostgreSQL posting  *)
(* remains fenced after activation."                                        *)
LegacyPostingFenced ==
    [][engine = "tigerbeetle" => UNCHANGED <<journal, reversal>>]_lifecycleVars

(* The refinement: an order is fulfilled when it has a fulfilment run; its  *)
(* goods are what the reservations of its confirmation say.                 *)
StageOf(o) ==
    IF \E r \in runs : r.type = "fulfillment" /\ r.order = o THEN "fulfilled"
    ELSE orderStatus[o]

GoodsOf(o) ==
    LET statuses == {reservation[r].status : r \in ReservationsOf(o)} IN
    CASE statuses = {} -> "none"
      [] statuses = {"active"} -> "held"
      [] statuses = {"released"} -> "returned"
      [] statuses = {"fulfilled"} -> "shipped"
      [] OTHER -> "mixed"

RevenueOf(o) == Cardinality({o} \cap journal) - Cardinality({o} \cap reversal)

Contract == INSTANCE OrderContract WITH
    stage <- [o \in Orders |-> StageOf(o)],
    goods <- [o \in Orders |-> GoodsOf(o)],
    revenue <- [o \in Orders |-> RevenueOf(o)]

(* The workflows implement OrderContract: each order is confirmed once,     *)
(* then cancelled or fulfilled once, its goods and its revenue moving with  *)
(* it in one step, whatever the calls, retries and lost answers.            *)
ImplementsOrderContract == Contract!ContractSpec
=============================================================================
