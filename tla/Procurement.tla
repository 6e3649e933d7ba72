----------------------------- MODULE Procurement -----------------------------
(***************************************************************************)
(* Purchase orders and goods receipts of packages/procurement/src/service.ts *)
(* over the inventory they fill.                                            *)
(*                                                                         *)
(* receivePurchaseOrder is one transaction: it looks for a receipt with its *)
(* key (nothing is locked when there is none), locks the order, looks       *)
(* again, checks supplier and quantities, inserts the receipt, receives     *)
(* every line into stock and writes the receipt lines.  The first lookup is *)
(* an action of its own; from the order lock on it is one action.           *)
(*                                                                         *)
(* Supplier relationships are rows of packages/party, which are inserted    *)
(* and never updated: they are a constant set of records here.  The same    *)
(* holds for legal entities.                                                *)
(***************************************************************************)
EXTENDS Inventory

CONSTANTS
    Relationships,      \* party_relationships: [party, legalEntity, kind, active]
    Orders,
    OrderLines,         \* purchase order lines ...
    LineItem,           \* ... and the item each is for
    OrderedQuantities,
    ConfirmationKeys,
    ReceiptKeys

ASSUME ProcurementConstants ==
    /\ LineItem \in [OrderLines -> Items]
    /\ OrderedQuantities \subseteq Nat \ {0}
    /\ \A r \in Relationships : r.legalEntity \in LegalEntities
    /\ IsFiniteSet(OrderLines) /\ IsFiniteSet(ReceiptKeys)
    /\ None \notin ReceiptKeys

VARIABLES
    supplierAccounts,   \* relationships with a supplier_accounts row
    purchaseOrder,      \* order -> its row with its lines, or None
    receipt             \* idempotency key -> the receipt with its lines, or None

purchaseVars == <<supplierAccounts, purchaseOrder, receipt>>
procurementVars == <<onHand, reserved, reservation, receipts, warehouse, items,
                     correction, transfer, call, answer,
                     supplierAccounts, purchaseOrder, receipt>>

(* Quantities by line, 0 for a line that is not there; never all 0.         *)
LinesOf(Q) == [OrderLines -> {0} \cup Q] \ {[l \in OrderLines |-> 0]}

ReceiptRequests ==
    [kind : {"receive"}, id : ReceiptKeys, order : Orders,
     warehouse : Warehouses, lines : LinesOf(Quantities)]

ProcurementTypeOK ==
    /\ InventoryTypeOK
    /\ call \in [Processes -> {None} \cup Requests \cup ReceiptRequests]
    /\ answer \in [Processes -> {None} \cup Requests \cup ReceiptRequests]
    /\ supplierAccounts \subseteq Relationships
    /\ purchaseOrder \in
         [Orders -> {None} \cup [status : {"draft", "confirmed", "cancelled"},
                                 account : Relationships,
                                 key : ConfirmationKeys \cup {None},
                                 lines : LinesOf(OrderedQuantities)]]
    /\ receipt \in [ReceiptKeys -> {None} \cup ReceiptRequests]

ProcurementInit ==
    /\ InventoryInit
    /\ supplierAccounts = {}
    /\ purchaseOrder = [o \in Orders |-> None]
    /\ receipt = [k \in ReceiptKeys |-> None]

-----------------------------------------------------------------------------
loadSupplierRelationship(r) == r.kind = "supplier" /\ r.active

createSupplierAccount(r) ==
    /\ loadSupplierRelationship(r)
    /\ r \notin supplierAccounts
    /\ supplierAccounts' = supplierAccounts \cup {r}
    /\ UNCHANGED <<inventoryVars, purchaseOrder, receipt>>

createPurchaseOrder(o, r, lines) ==
    /\ purchaseOrder[o] = None
    /\ r \in supplierAccounts
    /\ purchaseOrder' = [purchaseOrder EXCEPT
         ![o] = [status |-> "draft", account |-> r, key |-> None, lines |-> lines]]
    /\ UNCHANGED <<inventoryVars, supplierAccounts, receipt>>

OrderStatus(o) == IF purchaseOrder[o] = None THEN "absent" ELSE purchaseOrder[o].status

(* A key that confirmed another order runs into the unique index.           *)
confirmPurchaseOrder(o, key) ==
    /\ OrderStatus(o) = "draft"
    /\ \A x \in Orders : purchaseOrder[x] # None => purchaseOrder[x].key # key
    /\ purchaseOrder' = [purchaseOrder EXCEPT ![o].status = "confirmed", ![o].key = key]
    /\ UNCHANGED <<inventoryVars, supplierAccounts, receipt>>

ReceiptsOf(o) == {k \in ReceiptKeys : receipt[k] # None /\ receipt[k].order = o}

cancelPurchaseOrder(o) ==
    /\ OrderStatus(o) = "confirmed"
    /\ ReceiptsOf(o) = {}
    /\ purchaseOrder' = [purchaseOrder EXCEPT ![o].status = "cancelled"]
    /\ UNCHANGED <<inventoryVars, supplierAccounts, receipt>>

-----------------------------------------------------------------------------
(* MUTANT of acceptExistingReceipt: the receipt is returned to whoever has  *)
(* the key.                                                                 *)
acceptExistingReceipt_Unchecked(p, request) == answer' = [answer EXCEPT ![p] = request]

(* The receipt is for the same order, warehouse and lines, or the call ends *)
(* in an idempotency conflict.                                              *)
acceptExistingReceipt(p, request) ==
    answer' = [answer EXCEPT
      ![p] = IF receipt[request.id] = request THEN request ELSE None]

(* receivePurchaseOrder up to the order lock.                               *)
LookupReceipt(p, request) ==
    /\ call[p] = None
    /\ IF receipt[request.id] # None
       THEN acceptExistingReceipt(p, request) /\ UNCHANGED call
       ELSE /\ call' = [call EXCEPT ![p] = request]
            /\ answer' = [answer EXCEPT ![p] = None]
    /\ UNCHANGED <<stockVars, masterVars, correction, transfer, purchaseVars>>

(* What earlier receipts of the order brought of a line.                    *)
ReceivedOf(o, l) == SumFunction([k \in ReceiptsOf(o) |-> receipt[k].lines[l]])

(* MUTANT of WithinOrder: only the request is compared with the order.      *)
WithinOrder_ThisReceipt(request) ==
    \A l \in OrderLines :
      request.lines[l] > 0 => request.lines[l] <= purchaseOrder[request.order].lines[l]

(* Every line is a line of the order and fits into what is still open.      *)
WithinOrder(request) ==
    \A l \in OrderLines :
      request.lines[l] > 0 =>
        ReceivedOf(request.order, l) + request.lines[l]
          <= purchaseOrder[request.order].lines[l]

Goods(request) ==
    [c \in Cells |->
       IF c[1] # request.warehouse THEN 0
       ELSE SumFunction([l \in {x \in OrderLines : LineItem[x] = c[2]} |-> request.lines[l]])]

(* What the transaction still checks once the order is known to be          *)
(* confirmed, receiveStock's own checks included: one failing line rolls    *)
(* all of it back.                                                          *)
MayReceive(request) ==
    LET order == purchaseOrder[request.order] IN
    /\ loadSupplierRelationship(order.account)
    /\ WithinOrder(request)
    /\ \A l \in OrderLines :
         request.lines[l] > 0 => CellExists(<<request.warehouse, LineItem[l]>>)
    /\ warehouse[request.warehouse] = order.account.legalEntity

(* MUTANT of receivePurchaseOrder: the key is not looked up again under the *)
(* lock, and not unique.                                                    *)
receivePurchaseOrder_NoRecheck(p) ==
    LET request == call[p] IN
    /\ request # None /\ request.kind = "receive"
    /\ OrderStatus(request.order) = "confirmed" /\ MayReceive(request)
    /\ receiveStock(Goods(request), request.id)
    /\ receipt' = [receipt EXCEPT ![request.id] = request]
    /\ answer' = [answer EXCEPT ![p] = request]
    /\ EndCall(p)
    /\ UNCHANGED <<masterVars, correction, transfer, supplierAccounts, purchaseOrder>>

receivePurchaseOrder(p) ==
    LET request == call[p] IN
    /\ request # None /\ request.kind = "receive"
    /\ \/ /\ OrderStatus(request.order) = "confirmed"
          /\ receipt[request.id] # None
          /\ acceptExistingReceipt(p, request)
          /\ UNCHANGED <<stockVars, receipt>>
       \/ /\ OrderStatus(request.order) = "confirmed" =>
               receipt[request.id] = None /\ ~ MayReceive(request)
          /\ answer' = [answer EXCEPT ![p] = None]
          /\ UNCHANGED <<stockVars, receipt>>
       \/ /\ OrderStatus(request.order) = "confirmed"
          /\ receipt[request.id] = None
          /\ MayReceive(request)
          /\ receiveStock(Goods(request), request.id)
          /\ receipt' = [receipt EXCEPT ![request.id] = request]
          /\ answer' = [answer EXCEPT ![p] = request]
    /\ EndCall(p)
    /\ UNCHANGED <<masterVars, correction, transfer, supplierAccounts, purchaseOrder>>

-----------------------------------------------------------------------------
ProcurementNext ==
    \/ InventoryNext /\ UNCHANGED purchaseVars
    \/ \E r \in Relationships : createSupplierAccount(r)
    \/ \E o \in Orders :
         \/ \E r \in Relationships, lines \in LinesOf(OrderedQuantities) :
              createPurchaseOrder(o, r, lines)
         \/ \E key \in ConfirmationKeys : confirmPurchaseOrder(o, key)
         \/ cancelPurchaseOrder(o)
    \/ \E p \in Processes :
         \/ \E request \in ReceiptRequests : LookupReceipt(p, request)
         \/ receivePurchaseOrder(p)

ProcurementSpec == ProcurementInit /\ [][ProcurementNext]_procurementVars

-----------------------------------------------------------------------------
(* A caller is never given somebody else's row: when reserveStock,          *)
(* adjustStock or receivePurchaseOrder answers, the stored row is the one   *)
(* the caller asked for, also when a concurrent call with the key won.      *)
AnswerIsStored ==
    \A p \in Processes :
      answer[p] # None =>
        IF answer[p].kind = "receive" THEN receipt[answer[p].id] = answer[p]
        ELSE HasRow(answer[p]) /\ RowMatches(answer[p])

(* Receipts never bring more of a line than was ordered, however many of    *)
(* them run at once and however often they are retried; they lie in         *)
(* warehouses of the legal entity that bought; an order that is cancelled   *)
(* has none.                                                                *)
ReceiptsMatchOrder ==
    \A o \in Orders :
      ReceiptsOf(o) # {} =>
        /\ purchaseOrder[o].status = "confirmed"
        /\ \A l \in OrderLines : ReceivedOf(o, l) <= purchaseOrder[o].lines[l]
        /\ \A k \in ReceiptsOf(o) :
             warehouse[receipt[k].warehouse] = purchaseOrder[o].account.legalEntity

(* Every piece on hand is accounted for by a row: a receipt line, a         *)
(* correction, a fulfilment, a transfer or a direct receipt, each counted   *)
(* once however often its call was retried.                                 *)
BalanceExplained ==
    \A w \in Warehouses, i \in Items :
      LET received == {k \in ReceiptKeys : receipt[k] # None}
          purchased == SumFunction([k \in received |-> Goods(receipt[k])[<<w, i>>]])
      IN onHand[<<w, i>>] = purchased + Explained(w, i)
==============================================================================
