-------------------------- MODULE Procurement_proofs --------------------------
(***************************************************************************)
(* The safety of inventory and procurement, for any number of warehouses,   *)
(* items, keys, orders and processes: what is reserved is backed, what is   *)
(* on hand is explained by the rows, callers are answered from the row they *)
(* asked for, and receipts stay within their order.                         *)
(***************************************************************************)
EXTENDS Procurement, Stock_proofs

USE InventoryConstants, ProcurementConstants

(* An order with receipts has a row.                                        *)
ReceivedOrdersExist == \A o \in Orders : ReceiptsOf(o) # {} => purchaseOrder[o] # None

ProcurementInv ==
    /\ ProcurementTypeOK
    /\ ReservedIsBacked
    /\ AnswerIsStored
    /\ ReceivedOrdersExist
    /\ ReceiptsMatchOrder
    /\ BalanceExplained

-----------------------------------------------------------------------------
(* Types.                                                                   *)

(* What a receipt brings is a natural number per cell.                      *)
LEMMA GoodsType ==
  ASSUME NEW request \in ReceiptRequests
  PROVE  Goods(request) \in [Cells -> Nat]
<1>1. request.lines \in [OrderLines -> Nat]
  <2>1. request.lines \in [OrderLines -> {0} \cup Quantities]
    BY DEF ReceiptRequests, LinesOf
  <2>2. {0} \cup Quantities \subseteq Nat
    OBVIOUS
  <2> QED
    BY <2>1, <2>2
<1>2. ASSUME NEW i
      PROVE  SumFunction([l \in {x \in OrderLines : LineItem[x] = i} |-> request.lines[l]]) \in Nat
  <2> DEFINE f == [l \in {x \in OrderLines : LineItem[x] = i} |-> request.lines[l]]
  <2>1. IsFiniteSet(DOMAIN f)
    BY FS_Subset
  <2>2. \A x \in DOMAIN f : f[x] \in Nat
    BY <1>1
  <2>3. SumFunction(f) \in Nat
    <3> HIDE DEF f
    <3> QED
      BY <2>1, <2>2, TotalType
  <2> QED
    BY <2>3
<1> QED
  BY <1>2 DEF Goods

(* A correction asks for an integer; its row has the type of rows.          *)
LEMMA CorrectionType ==
  ASSUME NEW q \in [kind : {"adjust"}, id : Corrections, cell : Cells,
                   quantity : Quantities \cup {-x : x \in Quantities}]
  PROVE  q.quantity \in Int /\ [cell |-> q.cell, quantity |-> q.quantity] \in CorrectionRow
<1>1. q.quantity \in Quantities \/ \E x \in Quantities : q.quantity = -x
  OBVIOUS
<1>2. \A x \in Quantities : x \in Int /\ -x \in Int
  OBVIOUS
<1> QED
  BY <1>1, <1>2 DEF CorrectionRow

(* The steps that change the stock, whatever else they do.                  *)
LEMMA StockPart ==
  ASSUME ProcurementInv, [ProcurementNext]_procurementVars
  PROVE  StockInv' /\ RowsMove
<1>t. /\ StockInv /\ StockTypeOK
      /\ call \in [Processes -> {None} \cup Requests \cup ReceiptRequests]
      /\ transfer \in [Transfers -> {None} \cup TransferRow]
  BY DEF ProcurementInv, ProcurementTypeOK, InventoryTypeOK, StockInv
<1>0. UNCHANGED stockVars => StockInv' /\ RowsMove
  BY <1>t, StockUnchanged
<1>b. ASSUME UNCHANGED <<reserved, reservation, receipts>>, onHand' \in [Cells -> Int],
             \A c \in Cells : onHand'[c] >= reserved[c]
      PROVE  StockInv' /\ RowsMove
  <2>1. onHand' \in [Cells -> Nat]
    BY <1>t, <1>b DEF StockTypeOK
  <2>2. \A c \in Cells : QuantityAt(WithStatus(Reservations, "active"), c)'
                           = QuantityAt(WithStatus(Reservations, "active"), c)
    BY <1>b, QuantityWithStatus
  <2> QED
    BY <1>t, <1>b, <2>1, <2>2 DEF StockInv, StockTypeOK, ReservedIsBacked, RowsMove
<1>1. ASSUME Receive PROVE StockInv' /\ RowsMove
  <2>1. PICK c \in Cells, quantity \in Quantities : receiveStock(OneLine(c, quantity), None)
    BY <1>1 DEF Receive
  <2>2. OneLine(c, quantity) \in [Cells -> Nat]
    BY DEF OneLine
  <2> QED
    BY <1>t, <2>1, <2>2, ReceivePreserves
<1>2. ASSUME NEW r \in Reservations, Release(r) PROVE StockInv' /\ RowsMove
  BY <1>t, <1>2, ReleasePreserves DEF Release
<1>3. ASSUME NEW r \in Reservations, Fulfill(r) PROVE StockInv' /\ RowsMove
  BY <1>t, <1>3, FulfillPreserves DEF Fulfill
<1>4. ASSUME NEW p \in Processes, reserveStock(p) PROVE StockInv' /\ RowsMove
  <2>1. CASE UNCHANGED stockVars
    BY <1>0, <2>1
  <2>2. CASE ~ UNCHANGED stockVars
    <3> DEFINE q == call[p]
    <3>1. /\ q \in [kind : {"reserve"}, id : Reservations, cell : Cells, quantity : Quantities]
          /\ Available({q}) /\ ~ Exists(q) /\ InsertReservations({q})
      BY <1>t, <1>4, <2>2 DEF reserveStock, Requests, ReceiptRequests
    <3> HIDE DEF q
    <3>2. NewKeys({q})
      BY <3>1, FS_Singleton DEF NewKeys
    <3> QED
      BY <1>t, <3>1, <3>2, InsertPreserves
  <2> QED
    BY <2>1, <2>2
<1>5. ASSUME NEW p \in Processes, adjustStock(p) PROVE StockInv' /\ RowsMove
  <2>1. CASE UNCHANGED onHand
    BY <1>0, <1>5, <2>1 DEF adjustStock, stockVars
  <2>2. CASE ~ UNCHANGED onHand
    <3> DEFINE q == call[p]
    <3>1. /\ q \in [kind : {"adjust"}, id : Corrections, cell : Cells,
                    quantity : Quantities \cup {-x : x \in Quantities}]
          /\ q.quantity > 0 \/ onHand[q.cell] + q.quantity >= reserved[q.cell]
          /\ onHand' = [onHand EXCEPT ![q.cell] = @ + q.quantity]
          /\ UNCHANGED <<reserved, reservation, receipts>>
      BY <1>t, <1>5, <2>2 DEF adjustStock, Requests, ReceiptRequests
    <3> HIDE DEF q
    <3>2. q.quantity \in Int /\ q.cell \in Cells
      BY <3>1, CorrectionType
    <3>3. onHand' \in [Cells -> Int] /\ \A c \in Cells : onHand'[c] >= reserved[c]
      BY <1>t, <3>1, <3>2 DEF StockInv, StockTypeOK, ReservedIsBacked
    <3> QED
      BY <1>b, <3>1, <3>3
  <2> QED
    BY <2>1, <2>2
<1>l. ASSUME NEW t \in Transfers, TransferStatus(t) # "absent"
      PROVE  /\ transfer[t].from \in Warehouses /\ transfer[t].to \in Warehouses
             /\ transfer[t].lines \in [Items -> Nat]
  <2>1. transfer[t] \in TransferRow
    BY <1>t, <1>l DEF TransferStatus
  <2>2. transfer[t].lines \in [Items -> {0} \cup Quantities]
    BY <2>1 DEF TransferRow, Lines
  <2>3. {0} \cup Quantities \subseteq Nat
    OBVIOUS
  <2> QED
    BY <2>1, <2>2, <2>3 DEF TransferRow
<1>6. ASSUME NEW t \in Transfers, confirmTransfer(t) PROVE StockInv' /\ RowsMove
  <2>1. /\ transfer[t].from \in Warehouses /\ transfer[t].lines \in [Items -> Nat]
        /\ \A i \in Items :
             transfer[t].lines[i] > 0 =>
               onHand[<<transfer[t].from, i>>] - reserved[<<transfer[t].from, i>>]
                 >= transfer[t].lines[i]
        /\ onHand' = [c \in Cells |->
             IF c[1] = transfer[t].from THEN onHand[c] - transfer[t].lines[c[2]] ELSE onHand[c]]
        /\ UNCHANGED <<reserved, reservation, receipts>>
    BY <1>6, <1>l DEF confirmTransfer
  <2>2. ASSUME NEW c \in Cells
        PROVE  onHand'[c] \in Int /\ onHand'[c] >= reserved[c]
    <3>1. c = <<c[1], c[2]>> /\ c[2] \in Items
      OBVIOUS
    <3>2. onHand[c] \in Nat /\ reserved[c] \in Nat /\ reserved[c] <= onHand[c]
      BY <1>t DEF StockInv, StockTypeOK, ReservedIsBacked
    <3>3. CASE c[1] # transfer[t].from
      BY <2>1, <3>2, <3>3
    <3>4. CASE c[1] = transfer[t].from
      <4>1. c = <<transfer[t].from, c[2]>>
        BY <3>1, <3>4
      <4>2. /\ onHand'[c] = onHand[c] - transfer[t].lines[c[2]]
            /\ transfer[t].lines[c[2]] \in Nat
            /\ transfer[t].lines[c[2]] > 0 =>
                 onHand[c] - reserved[c] >= transfer[t].lines[c[2]]
        BY <2>1, <3>1, <3>4, <4>1
      <4> QED
        BY <3>2, <4>2
    <3> QED
      BY <3>3, <3>4
  <2>3. onHand' \in [Cells -> Int]
    <3>1. onHand' = [c \in Cells |-> onHand'[c]]
      BY <2>1
    <3> QED
      BY <2>2, <3>1
  <2> QED
    BY <1>b, <2>1, <2>2, <2>3
<1>7. ASSUME NEW t \in Transfers, completeTransfer(t) PROVE StockInv' /\ RowsMove
  <2>1. /\ transfer[t].to \in Warehouses /\ transfer[t].lines \in [Items -> Nat]
        /\ onHand' = [c \in Cells |->
             IF c[1] = transfer[t].to THEN onHand[c] + transfer[t].lines[c[2]] ELSE onHand[c]]
        /\ UNCHANGED <<reserved, reservation, receipts>>
    BY <1>7, <1>l DEF completeTransfer
  <2>2. ASSUME NEW c \in Cells
        PROVE  onHand'[c] \in Int /\ onHand'[c] >= reserved[c]
    <3>1. c[2] \in Items /\ transfer[t].lines[c[2]] \in Nat
      BY <2>1
    <3>2. onHand[c] \in Nat /\ reserved[c] \in Nat /\ reserved[c] <= onHand[c]
      BY <1>t DEF StockInv, StockTypeOK, ReservedIsBacked
    <3>3. onHand'[c] = onHand[c] \/ onHand'[c] = onHand[c] + transfer[t].lines[c[2]]
      BY <2>1
    <3> QED
      BY <3>1, <3>2, <3>3
  <2>3. onHand' \in [Cells -> Int]
    <3>1. onHand' = [c \in Cells |-> onHand'[c]]
      BY <2>1
    <3> QED
      BY <2>2, <3>1
  <2> QED
    BY <1>b, <2>1, <2>2, <2>3
<1>8. ASSUME NEW p \in Processes, receivePurchaseOrder(p) PROVE StockInv' /\ RowsMove
  <2>1. CASE UNCHANGED stockVars
    BY <1>0, <2>1
  <2>2. CASE ~ UNCHANGED stockVars
    <3>1. call[p] \in ReceiptRequests /\ receiveStock(Goods(call[p]), call[p].id)
      BY <1>t, <1>8, <2>2 DEF receivePurchaseOrder, Requests
    <3>2. Goods(call[p]) \in [Cells -> Nat]
      BY <3>1, GoodsType
    <3> QED
      BY <1>t, <3>1, <3>2, ReceivePreserves
  <2> QED
    BY <2>1, <2>2
<1>9. \/ UNCHANGED stockVars
      \/ Receive
      \/ \E r \in Reservations : Release(r) \/ Fulfill(r)
      \/ \E t \in Transfers : confirmTransfer(t) \/ completeTransfer(t)
      \/ \E p \in Processes : reserveStock(p) \/ adjustStock(p) \/ receivePurchaseOrder(p)
  BY DEF ProcurementNext, InventoryNext, procurementVars, inventoryVars, stockVars,
         createWarehouse, createItem, createTransfer, LookupKey, CallLost,
         createSupplierAccount, createPurchaseOrder, confirmPurchaseOrder,
         cancelPurchaseOrder, LookupReceipt
<1> QED
  BY <1>0, <1>1, <1>2, <1>3, <1>4, <1>5, <1>6, <1>7, <1>8, <1>9

(* The types of the other variables.                                        *)
LEMMA TypePart ==
  ASSUME ProcurementInv, [ProcurementNext]_procurementVars
  PROVE  ProcurementTypeOK'
<1> DEFINE Anything == Requests \cup ReceiptRequests
<1>t. /\ warehouse \in [Warehouses -> LegalEntities \cup {None}]
      /\ items \subseteq Items
      /\ correction \in [Corrections -> {None} \cup CorrectionRow]
      /\ transfer \in [Transfers -> {None} \cup TransferRow]
      /\ call \in [Processes -> {None} \cup Anything]
      /\ answer \in [Processes -> {None} \cup Anything]
      /\ supplierAccounts \subseteq Relationships
      /\ purchaseOrder \in
           [Orders -> {None} \cup [status : {"draft", "confirmed", "cancelled"},
                                   account : Relationships,
                                   key : ConfirmationKeys \cup {None},
                                   lines : LinesOf(OrderedQuantities)]]
      /\ receipt \in [ReceiptKeys -> {None} \cup ReceiptRequests]
  BY DEF ProcurementInv, ProcurementTypeOK, InventoryTypeOK
<1>s. StockTypeOK'
  BY StockPart DEF StockInv
<1> DEFINE CallTypes == /\ call' \in [Processes -> {None} \cup Anything]
                        /\ answer' \in [Processes -> {None} \cup Anything]
<1>1. ASSUME NEW w \in Warehouses, NEW e \in LegalEntities, createWarehouse(w, e), UNCHANGED purchaseVars
      PROVE  ProcurementTypeOK'
  BY <1>t, <1>s, <1>1 DEF createWarehouse, purchaseVars, ProcurementTypeOK, InventoryTypeOK
<1>2. ASSUME NEW i \in Items, createItem(i), UNCHANGED purchaseVars
      PROVE  ProcurementTypeOK'
  BY <1>t, <1>s, <1>2 DEF createItem, purchaseVars, ProcurementTypeOK, InventoryTypeOK
<1>3. ASSUME UNCHANGED <<masterVars, correction, transfer, call, answer, purchaseVars>>
      PROVE  ProcurementTypeOK'
  BY <1>t, <1>s, <1>3 DEF masterVars, purchaseVars, ProcurementTypeOK, InventoryTypeOK
<1>4. ASSUME UNCHANGED <<masterVars, correction, call, answer, purchaseVars>>,
             NEW t \in Transfers, NEW row \in TransferRow,
             transfer' = [transfer EXCEPT ![t] = row]
      PROVE  ProcurementTypeOK'
  BY <1>t, <1>s, <1>4 DEF masterVars, purchaseVars, ProcurementTypeOK, InventoryTypeOK
<1>5. ASSUME NEW t \in Transfers, NEW from \in Warehouses, NEW to \in Warehouses,
             NEW lines \in Lines, createTransfer(t, from, to, lines), UNCHANGED purchaseVars
      PROVE  ProcurementTypeOK'
  <2> DEFINE row == [status |-> "draft", from |-> from, to |-> to, lines |-> lines]
  <2>1. row \in TransferRow
    BY DEF TransferRow
  <2>2. /\ transfer' = [transfer EXCEPT ![t] = row]
        /\ UNCHANGED <<masterVars, correction, call, answer, purchaseVars>>
    BY <1>5 DEF createTransfer
  <2> HIDE DEF row
  <2> QED
    BY <1>4, <2>1, <2>2
<1>6. ASSUME NEW t \in Transfers, confirmTransfer(t) \/ completeTransfer(t), UNCHANGED purchaseVars
      PROVE  ProcurementTypeOK'
  <2>1. transfer[t] \in TransferRow
    BY <1>t, <1>6 DEF confirmTransfer, completeTransfer, TransferStatus
  <2>2. PICK st \in {"confirmed", "completed"} :
          /\ transfer' = [transfer EXCEPT ![t].status = st]
          /\ UNCHANGED <<masterVars, correction, call, answer, purchaseVars>>
    BY <1>6 DEF confirmTransfer, completeTransfer
  <2> DEFINE row == [transfer[t] EXCEPT !.status = st]
  <2>3. row \in TransferRow /\ transfer' = [transfer EXCEPT ![t] = row]
    BY <2>1, <2>2 DEF TransferRow
  <2> HIDE DEF row
  <2> QED
    BY <1>4, <2>2, <2>3
<1>7. ASSUME UNCHANGED <<masterVars, transfer, supplierAccounts, purchaseOrder>>, CallTypes,
             correction' \in [Corrections -> {None} \cup CorrectionRow],
             receipt' \in [ReceiptKeys -> {None} \cup ReceiptRequests]
      PROVE  ProcurementTypeOK'
  BY <1>t, <1>s, <1>7 DEF masterVars, ProcurementTypeOK, InventoryTypeOK
<1>8. ASSUME NEW p \in Processes, NEW request \in Anything,
             LookupKey(p, request) \/ LookupReceipt(p, request)
      PROVE  CallTypes
  <2> HIDE DEF Anything
  <2> QED
    BY <1>t, <1>8 DEF LookupKey, LookupReceipt, AnswerFromRow, acceptExistingReceipt
<1>9. ASSUME NEW p \in Processes,
             reserveStock(p) \/ adjustStock(p) \/ CallLost(p) \/ receivePurchaseOrder(p)
      PROVE  CallTypes
  <2>1. call' \in [Processes -> {None} \cup Anything]
    <3> HIDE DEF Anything
    <3> QED
      BY <1>t, <1>9 DEF reserveStock, adjustStock, CallLost, receivePurchaseOrder, EndCall
  <2>2. answer' = answer \/ answer' = [answer EXCEPT ![p] = None]
          \/ answer' = [answer EXCEPT ![p] = call[p]]
    BY <1>9 DEF reserveStock, adjustStock, CallLost, receivePurchaseOrder, AnswerFromRow,
                acceptExistingReceipt
  <2>3. answer' \in [Processes -> {None} \cup Anything]
    <3> HIDE DEF Anything
    <3> QED
      BY <1>t, <2>2
  <2> QED
    BY <2>1, <2>3
<1>10. ASSUME NEW p \in Processes, NEW request \in Requests, LookupKey(p, request),
              UNCHANGED purchaseVars
       PROVE  ProcurementTypeOK'
  BY <1>t, <1>7, <1>8, <1>10 DEF LookupKey, purchaseVars
<1>11. ASSUME NEW p \in Processes, NEW request \in ReceiptRequests, LookupReceipt(p, request)
       PROVE  ProcurementTypeOK'
  BY <1>t, <1>7, <1>8, <1>11 DEF LookupReceipt, purchaseVars
<1>12. ASSUME NEW p \in Processes, reserveStock(p) \/ CallLost(p), UNCHANGED purchaseVars
       PROVE  ProcurementTypeOK'
  BY <1>t, <1>7, <1>9, <1>12 DEF reserveStock, CallLost, purchaseVars
<1>13. ASSUME NEW p \in Processes, adjustStock(p), UNCHANGED purchaseVars
       PROVE  ProcurementTypeOK'
  <2>1. CallTypes /\ UNCHANGED <<masterVars, transfer, supplierAccounts, purchaseOrder, receipt>>
    BY <1>9, <1>13 DEF adjustStock, purchaseVars
  <2>2. CASE UNCHANGED correction
    BY <1>t, <1>7, <2>1, <2>2
  <2>3. CASE ~ UNCHANGED correction
    <3> DEFINE q == call[p]
               row == [cell |-> q.cell, quantity |-> q.quantity]
    <3>1. /\ q \in [kind : {"adjust"}, id : Corrections, cell : Cells,
                    quantity : Quantities \cup {-x : x \in Quantities}]
          /\ correction' = [correction EXCEPT ![q.id] = row]
      BY <1>t, <1>13, <2>3 DEF adjustStock, Requests, ReceiptRequests
    <3>2. row \in CorrectionRow
      <4> HIDE DEF q
      <4> QED
        BY <3>1, CorrectionType
    <3>3. correction' \in [Corrections -> {None} \cup CorrectionRow]
      <4> HIDE DEF row
      <4> QED
        BY <1>t, <3>1, <3>2
    <3> QED
      BY <1>t, <1>7, <2>1, <3>3
  <2> QED
    BY <2>2, <2>3
<1>14. ASSUME NEW p \in Processes, receivePurchaseOrder(p)
       PROVE  ProcurementTypeOK'
  <2>1. CallTypes /\ UNCHANGED <<masterVars, transfer, correction, supplierAccounts, purchaseOrder>>
    BY <1>9, <1>14 DEF receivePurchaseOrder
  <2>2. call[p] \in ReceiptRequests
    BY <1>t, <1>14 DEF receivePurchaseOrder, Requests
  <2>3. receipt' = receipt \/ receipt' = [receipt EXCEPT ![call[p].id] = call[p]]
    BY <1>14 DEF receivePurchaseOrder
  <2>4. receipt' \in [ReceiptKeys -> {None} \cup ReceiptRequests]
    BY <1>t, <2>2, <2>3
  <2> QED
    BY <1>t, <1>7, <2>1, <2>4
<1>15. ASSUME NEW r \in Relationships, createSupplierAccount(r)
       PROVE  ProcurementTypeOK'
  BY <1>t, <1>s, <1>15 DEF createSupplierAccount, inventoryVars, ProcurementTypeOK, InventoryTypeOK
<1>16. ASSUME UNCHANGED <<inventoryVars, supplierAccounts, receipt>>, NEW o \in Orders,
              NEW row \in [status : {"draft", "confirmed", "cancelled"},
                           account : Relationships, key : ConfirmationKeys \cup {None},
                           lines : LinesOf(OrderedQuantities)],
              purchaseOrder' = [purchaseOrder EXCEPT ![o] = row]
       PROVE  ProcurementTypeOK'
  BY <1>t, <1>s, <1>16 DEF inventoryVars, ProcurementTypeOK, InventoryTypeOK
<1>17. ASSUME NEW o \in Orders, NEW r \in Relationships, NEW lines \in LinesOf(OrderedQuantities),
              createPurchaseOrder(o, r, lines)
       PROVE  ProcurementTypeOK'
  <2> DEFINE row == [status |-> "draft", account |-> r, key |-> None, lines |-> lines]
  <2>1. row \in [status : {"draft", "confirmed", "cancelled"},
                 account : Relationships, key : ConfirmationKeys \cup {None},
                 lines : LinesOf(OrderedQuantities)]
    OBVIOUS
  <2>2. /\ purchaseOrder' = [purchaseOrder EXCEPT ![o] = row]
        /\ UNCHANGED <<inventoryVars, supplierAccounts, receipt>>
    BY <1>17 DEF createPurchaseOrder
  <2> HIDE DEF row
  <2> QED
    BY <1>16, <2>1, <2>2
<1>18. ASSUME NEW o \in Orders, NEW key \in ConfirmationKeys, confirmPurchaseOrder(o, key)
       PROVE  ProcurementTypeOK'
  <2> DEFINE row == [purchaseOrder[o] EXCEPT !.status = "confirmed", !.key = key]
  <2>1. purchaseOrder[o] # None
    BY <1>18 DEF confirmPurchaseOrder, OrderStatus
  <2>2. row \in [status : {"draft", "confirmed", "cancelled"},
                 account : Relationships, key : ConfirmationKeys \cup {None},
                 lines : LinesOf(OrderedQuantities)]
    <3>1. purchaseOrder[o] \in [status : {"draft", "confirmed", "cancelled"},
                               account : Relationships, key : ConfirmationKeys \cup {None},
                               lines : LinesOf(OrderedQuantities)]
      BY <1>t, <2>1
    <3> QED
      BY <3>1
  <2>3. /\ purchaseOrder' = [purchaseOrder EXCEPT ![o] = row]
        /\ UNCHANGED <<inventoryVars, supplierAccounts, receipt>>
    BY <1>18 DEF confirmPurchaseOrder
  <2> HIDE DEF row
  <2> QED
    BY <1>16, <2>2, <2>3
<1>19. ASSUME NEW o \in Orders, cancelPurchaseOrder(o)
       PROVE  ProcurementTypeOK'
  <2> DEFINE row == [purchaseOrder[o] EXCEPT !.status = "cancelled"]
  <2>1. purchaseOrder[o] # None
    BY <1>19 DEF cancelPurchaseOrder, OrderStatus
  <2>2. row \in [status : {"draft", "confirmed", "cancelled"},
                 account : Relationships, key : ConfirmationKeys \cup {None},
                 lines : LinesOf(OrderedQuantities)]
    <3>1. purchaseOrder[o] \in [status : {"draft", "confirmed", "cancelled"},
                               account : Relationships, key : ConfirmationKeys \cup {None},
                               lines : LinesOf(OrderedQuantities)]
      BY <1>t, <2>1
    <3> QED
      BY <3>1
  <2>3. /\ purchaseOrder' = [purchaseOrder EXCEPT ![o] = row]
        /\ UNCHANGED <<inventoryVars, supplierAccounts, receipt>>
    BY <1>19 DEF cancelPurchaseOrder
  <2> HIDE DEF row
  <2> QED
    BY <1>16, <2>2, <2>3
<1>20. ASSUME UNCHANGED procurementVars PROVE ProcurementTypeOK'
  BY <1>3, <1>20 DEF procurementVars, masterVars, purchaseVars
<1>21. ASSUME NEW r \in Reservations, Release(r) \/ Fulfill(r), UNCHANGED purchaseVars
       PROVE  ProcurementTypeOK'
  BY <1>3, <1>21 DEF Release, Fulfill
<1>22. ASSUME Receive, UNCHANGED purchaseVars PROVE ProcurementTypeOK'
  BY <1>3, <1>22 DEF Receive
<1> HIDE DEF Anything, CallTypes
<1>23. CASE InventoryNext /\ UNCHANGED purchaseVars
  BY <1>1, <1>2, <1>5, <1>6, <1>10, <1>12, <1>13, <1>21, <1>22, <1>23 DEF InventoryNext
<1>24. CASE ~ (InventoryNext /\ UNCHANGED purchaseVars)
  BY <1>11, <1>14, <1>15, <1>17, <1>18, <1>19, <1>20, <1>24 DEF ProcurementNext
<1> QED
  BY <1>23, <1>24

-----------------------------------------------------------------------------
(* What a row says is not unsaid: corrections and receipts are written once *)
(* and a warehouse stays with its legal entity.                             *)
RowsStay ==
    /\ \A k \in Corrections : correction[k] # None => correction'[k] = correction[k]
    /\ \A k \in ReceiptKeys : receipt[k] # None => receipt'[k] = receipt[k]
    /\ \A w \in Warehouses : warehouse[w] # None => warehouse'[w] = warehouse[w]

(* Rows of the tables that are only inserted never change.                  *)
LEMMA RowsPart ==
  ASSUME ProcurementInv, [ProcurementNext]_procurementVars
  PROVE  RowsStay
<1>t. /\ warehouse \in [Warehouses -> LegalEntities \cup {None}]
      /\ correction \in [Corrections -> {None} \cup CorrectionRow]
      /\ receipt \in [ReceiptKeys -> {None} \cup ReceiptRequests]
      /\ call \in [Processes -> {None} \cup Requests \cup ReceiptRequests]
  BY DEF ProcurementInv, ProcurementTypeOK, InventoryTypeOK
<1>1. \/ UNCHANGED <<warehouse, correction, receipt>>
      \/ \E w \in Warehouses, e \in LegalEntities :
           createWarehouse(w, e) /\ UNCHANGED receipt
      \/ \E p \in Processes : adjustStock(p) /\ UNCHANGED receipt
      \/ \E p \in Processes : receivePurchaseOrder(p)
  BY DEF ProcurementNext, InventoryNext, procurementVars, inventoryVars, masterVars, purchaseVars,
         createItem, Receive, Release, Fulfill, createTransfer, confirmTransfer, completeTransfer,
         LookupKey, reserveStock, CallLost, createSupplierAccount, createPurchaseOrder,
         confirmPurchaseOrder, cancelPurchaseOrder, LookupReceipt
<1>2. CASE UNCHANGED <<warehouse, correction, receipt>>
  BY <1>2 DEF RowsStay
<1>3. ASSUME NEW w \in Warehouses, NEW e \in LegalEntities,
             createWarehouse(w, e), UNCHANGED receipt
      PROVE  RowsStay
  BY <1>t, <1>3 DEF RowsStay, createWarehouse
<1>4. ASSUME NEW p \in Processes, adjustStock(p), UNCHANGED receipt
      PROVE  RowsStay
  <2>1. UNCHANGED warehouse
    BY <1>4 DEF adjustStock, masterVars
  <2>2. CASE UNCHANGED correction
    BY <1>4, <2>1, <2>2 DEF RowsStay
  <2>3. CASE ~ UNCHANGED correction
    <3>1. /\ correction[call[p].id] = None
          /\ correction' = [correction EXCEPT ![call[p].id] =
               [cell |-> call[p].cell, quantity |-> call[p].quantity]]
      BY <1>4, <2>3 DEF adjustStock, HasRow
    <3> QED
      BY <1>t, <1>4, <2>1, <3>1 DEF RowsStay
  <2> QED
    BY <2>2, <2>3
<1>5. ASSUME NEW p \in Processes, receivePurchaseOrder(p)
      PROVE  RowsStay
  <2>1. UNCHANGED <<warehouse, correction>>
    BY <1>5 DEF receivePurchaseOrder, masterVars
  <2>2. CASE UNCHANGED receipt
    BY <2>1, <2>2 DEF RowsStay
  <2>3. CASE ~ UNCHANGED receipt
    <3>1. receipt[call[p].id] = None /\ receipt' = [receipt EXCEPT ![call[p].id] = call[p]]
      BY <1>5, <2>3 DEF receivePurchaseOrder
    <3> QED
      BY <1>t, <2>1, <3>1 DEF RowsStay
  <2> QED
    BY <2>2, <2>3
<1> QED
  BY <1>1, <1>2, <1>3, <1>4, <1>5

(* A request its row answers.                                               *)
Answered(request) ==
    IF request.kind = "receive" THEN receipt[request.id] = request
    ELSE HasRow(request) /\ RowMatches(request)

(* An answer that was true stays true, and a new one is.                    *)
LEMMA AnswerPart ==
  ASSUME ProcurementInv, [ProcurementNext]_procurementVars
  PROVE  AnswerIsStored'
<1>t. /\ correction \in [Corrections -> {None} \cup CorrectionRow]
      /\ receipt \in [ReceiptKeys -> {None} \cup ReceiptRequests]
      /\ call \in [Processes -> {None} \cup Requests \cup ReceiptRequests]
      /\ answer \in [Processes -> {None} \cup Requests \cup ReceiptRequests]
      /\ StockTypeOK
  BY DEF ProcurementInv, ProcurementTypeOK, InventoryTypeOK
<1>a. ASSUME NEW request \in Requests \cup ReceiptRequests, request # None, Answered(request)
      PROVE  Answered(request)'
  <2>1. RowsMove /\ RowsStay
    BY StockPart, RowsPart
  <2>2. CASE request \in ReceiptRequests
    BY <1>a, <2>1, <2>2 DEF Answered, RowsStay, ReceiptRequests
  <2>3. CASE request \in [kind : {"reserve"}, id : Reservations, cell : Cells,
                          quantity : Quantities]
    BY <1>a, <2>1, <2>3 DEF Answered, HasRow, RowMatches, Exists, SameRequest, RowsMove
  <2>4. CASE request \in [kind : {"adjust"}, id : Corrections, cell : Cells,
                          quantity : Quantities \cup {-q : q \in Quantities}]
    <3>1. /\ request.kind = "adjust" /\ request.id \in Corrections
          /\ correction[request.id] # None
          /\ correction[request.id] = [cell |-> request.cell, quantity |-> request.quantity]
      BY <1>a, <2>4 DEF Answered, HasRow, RowMatches
    <3>2. correction'[request.id] = correction[request.id]
      BY <2>1, <3>1 DEF RowsStay
    <3> QED
      BY <3>1, <3>2 DEF Answered, HasRow, RowMatches
  <2> QED
    BY <2>2, <2>3, <2>4 DEF Requests
<1> DEFINE Right(p) == \E request \in Requests \cup ReceiptRequests :
                         answer'[p] = request /\ Answered(request)'
<1>b. ASSUME NEW p \in Processes, answer'[p] # None, answer'[p] = answer[p]
      PROVE  Right(p)
  <2>1. PICK request \in Requests \cup ReceiptRequests : request = answer[p]
    BY <1>t, <1>b
  <2>2. Answered(request)
    BY <1>b, <2>1 DEF ProcurementInv, AnswerIsStored, Answered
  <2>3. Answered(request)'
    BY <1>a, <1>b, <2>1, <2>2
  <2> QED
    BY <1>b, <2>1, <2>3
<1>c. ASSUME NEW p \in Processes, answer'[p] # None, answer'[p] # answer[p]
      PROVE  Right(p)
  <2>1. ASSUME NEW request \in Requests, LookupKey(p, request)
        PROVE  Right(p)
    <3>1. HasRow(request) /\ RowMatches(request) /\ answer'[p] = request
      BY <1>t, <1>c, <2>1 DEF LookupKey, AnswerFromRow
    <3>2. Answered(request)
      BY <3>1 DEF Answered, Requests
    <3>3. Answered(request)'
      BY <1>a, <1>c, <3>1, <3>2
    <3> QED
      BY <3>1, <3>3
  <2>2. ASSUME NEW request \in ReceiptRequests, LookupReceipt(p, request)
        PROVE  Right(p)
    <3>1. Answered(request) /\ answer'[p] = request
      BY <1>t, <1>c, <2>2 DEF LookupReceipt, acceptExistingReceipt, Answered, ReceiptRequests
    <3>2. Answered(request)'
      BY <1>a, <1>c, <3>1
    <3> QED
      BY <3>1, <3>2
  <2>3. ASSUME reserveStock(p)
        PROVE  Right(p)
    <3>1. PICK request \in [kind : {"reserve"}, id : Reservations, cell : Cells,
                            quantity : Quantities] : request = call[p]
      BY <1>t, <2>3 DEF reserveStock, Requests, ReceiptRequests
    <3>2. /\ answer'[p] = request
          /\ \/ Exists(request) /\ RowMatches(request)
             \/ ~ Exists(request) /\ InsertReservations({request})
      BY <1>t, <1>c, <2>3, <3>1 DEF reserveStock, AnswerFromRow
    <3>3. CASE Exists(request) /\ RowMatches(request)
      <4>1. Answered(request)
        BY <3>1, <3>3 DEF Answered, HasRow
      <4>2. Answered(request)'
        BY <1>a, <1>c, <3>1, <3>2, <4>1 DEF Requests
      <4> QED
        BY <3>1, <3>2, <4>2 DEF Requests
    <3>4. CASE ~ Exists(request) /\ InsertReservations({request})
      <4>1. NewKeys({request})
        BY <3>4, FS_Singleton DEF NewKeys
      <4>2. reservation'[request.id] =
              [status |-> "active", cell |-> request.cell, quantity |-> request.quantity]
        BY <1>t, <3>4, <4>1, InsertedRows
      <4>3. Answered(request)'
        <5>1. /\ reservation'[request.id].status = "active"
              /\ reservation'[request.id].cell = request.cell
              /\ reservation'[request.id].quantity = request.quantity
          BY <4>2
        <5> QED
          BY <5>1 DEF Answered, HasRow, RowMatches, Exists, SameRequest
      <4> QED
        BY <3>1, <3>2, <4>3 DEF Requests
    <3> QED
      BY <3>2, <3>3, <3>4
  <2>4. ASSUME adjustStock(p)
        PROVE  Right(p)
    <3>1. PICK request \in [kind : {"adjust"}, id : Corrections, cell : Cells,
                            quantity : Quantities \cup {-q : q \in Quantities}] :
            request = call[p]
      BY <1>t, <2>4 DEF adjustStock, Requests, ReceiptRequests
    <3> DEFINE row == [cell |-> request.cell, quantity |-> request.quantity]
    <3>2. /\ answer'[p] = request
          /\ \/ HasRow(request) /\ RowMatches(request)
             \/ correction' = [correction EXCEPT ![request.id] = row]
      BY <1>t, <1>c, <2>4, <3>1 DEF adjustStock, AnswerFromRow
    <3>3. CASE HasRow(request) /\ RowMatches(request)
      <4>1. Answered(request)
        BY <3>1, <3>3 DEF Answered
      <4>2. Answered(request)'
        BY <1>a, <1>c, <3>1, <3>2, <4>1 DEF Requests
      <4> QED
        BY <3>1, <3>2, <4>2 DEF Requests
    <3>4. CASE correction' = [correction EXCEPT ![request.id] = row]
      <4>1. correction'[request.id] = row
        BY <1>t, <3>4
      <4>2. row # None
        <5>1. row \in CorrectionRow
          BY CorrectionType
        <5> HIDE DEF row
        <5> QED
          BY <5>1
      <4>3. Answered(request)'
        BY <4>1, <4>2 DEF Answered, HasRow, RowMatches
      <4> QED
        BY <3>1, <3>2, <4>3 DEF Requests
    <3> QED
      BY <3>2, <3>3, <3>4
  <2>5. ASSUME receivePurchaseOrder(p)
        PROVE  Right(p)
    <3>1. PICK request \in ReceiptRequests : request = call[p]
      BY <1>t, <2>5 DEF receivePurchaseOrder, Requests
    <3>2. /\ answer'[p] = request
          /\ \/ receipt[request.id] = request
             \/ receipt' = [receipt EXCEPT ![request.id] = request]
      BY <1>t, <1>c, <2>5, <3>1 DEF receivePurchaseOrder, acceptExistingReceipt
    <3>3. receipt'[request.id] = request
      BY <1>t, <1>c, <3>2, RowsPart DEF RowsStay, ReceiptRequests
    <3>4. Answered(request)'
      BY <3>3 DEF Answered, ReceiptRequests
    <3> QED
      BY <3>2, <3>4
  <2>6. \/ \E request \in Requests : LookupKey(p, request)
        \/ \E request \in ReceiptRequests : LookupReceipt(p, request)
        \/ reserveStock(p) \/ adjustStock(p) \/ receivePurchaseOrder(p)
    <3>1. ASSUME NEW x \in Processes, NEW request \in Requests, LookupKey(x, request)
          PROVE  x = p
      BY <1>t, <1>c, <3>1 DEF LookupKey, AnswerFromRow
    <3>2. ASSUME NEW x \in Processes, NEW request \in ReceiptRequests, LookupReceipt(x, request)
          PROVE  x = p
      BY <1>t, <1>c, <3>2 DEF LookupReceipt, acceptExistingReceipt
    <3>3. ASSUME NEW x \in Processes, reserveStock(x) \/ adjustStock(x) \/ receivePurchaseOrder(x)
          PROVE  x = p
      <4>1. \E a : answer' = [answer EXCEPT ![x] = a]
        BY <3>3 DEF reserveStock, adjustStock, receivePurchaseOrder, AnswerFromRow,
                    acceptExistingReceipt
      <4> QED
        BY <1>t, <1>c, <4>1
    <3>4. \/ UNCHANGED answer
          \/ \E x \in Processes :
               \/ \E request \in Requests : LookupKey(x, request)
               \/ \E request \in ReceiptRequests : LookupReceipt(x, request)
               \/ reserveStock(x) \/ adjustStock(x) \/ receivePurchaseOrder(x)
      BY DEF ProcurementNext, InventoryNext, procurementVars, inventoryVars,
             createWarehouse, createItem, Receive, Release, Fulfill, createTransfer,
             confirmTransfer, completeTransfer, CallLost, createSupplierAccount,
             createPurchaseOrder, confirmPurchaseOrder, cancelPurchaseOrder
    <3> QED
      BY <1>c, <3>1, <3>2, <3>3, <3>4
  <2> QED
    BY <2>1, <2>2, <2>3, <2>4, <2>5, <2>6
<1> QED
  BY <1>b, <1>c DEF AnswerIsStored, Answered

-----------------------------------------------------------------------------
(* What receipts bring of a line of an order.                               *)

ReceivedIn(rows, o, l) ==
    SumFunction([k \in {x \in ReceiptKeys : rows[x] # None /\ rows[x].order = o}
                   |-> rows[k].lines[l]])

(* ReceivedOf as a sum over the receipts, before and after a step.          *)
LEMMA ReceivedIs ==
  ASSUME NEW o, NEW l
  PROVE  /\ ReceivedOf(o, l) = ReceivedIn(receipt, o, l)
         /\ ReceivedOf(o, l)' = ReceivedIn(receipt', o, l)
  BY DEF ReceivedOf, ReceiptsOf, ReceivedIn

(* A receipt under a new key adds its lines to its order's.                 *)
LEMMA NewReceipt ==
  ASSUME receipt \in [ReceiptKeys -> {None} \cup ReceiptRequests],
         NEW request \in ReceiptRequests, request # None, receipt[request.id] = None,
         receipt' = [receipt EXCEPT ![request.id] = request],
         NEW o, NEW l \in OrderLines
  PROVE  /\ ReceivedIn(receipt', o, l)
              = ReceivedIn(receipt, o, l) + (IF request.order = o THEN request.lines[l] ELSE 0)
         /\ ReceivedIn(receipt, o, l) \in Int /\ request.lines[l] \in Nat
<1> DEFINE F(rows) == [k \in {x \in ReceiptKeys : rows[x] # None /\ rows[x].order = o}
                         |-> rows[k].lines[l]]
           f == F(receipt)
           g == F(receipt')
<1>1. \A x \in ReceiptRequests : x.id \in ReceiptKeys /\ x.lines[l] \in Nat
  <2>1. ASSUME NEW x \in ReceiptRequests
        PROVE  x.id \in ReceiptKeys /\ x.lines \in [OrderLines -> {0} \cup Quantities]
    BY DEF ReceiptRequests, LinesOf
  <2>2. {0} \cup Quantities \subseteq Nat
    OBVIOUS
  <2> QED
    BY <2>1, <2>2
<1>2. IsFiniteSet(DOMAIN f)
  BY FS_Subset
<1>3. \A x \in DOMAIN f : f[x] \in Int
  BY <1>1
<1>4. \A x \in ReceiptKeys : receipt'[x] = IF x = request.id THEN request ELSE receipt[x]
  BY <1>1
<1>5. SumFunction(f) \in Int
  <2> HIDE DEF f
  <2> QED
    BY <1>2, <1>3, TotalType
<1>6. CASE request.order = o
  <2>1. /\ request.id \notin DOMAIN f /\ DOMAIN g = (DOMAIN f) \cup {request.id}
        /\ \A y \in DOMAIN f : f[y] = g[y]
        /\ g[request.id] = request.lines[l]
    BY <1>1, <1>4, <1>6
  <2>2. \A y \in DOMAIN g : g[y] \in Int
    BY <1>1, <1>3, <2>1
  <2>3. SumFunction(g) = SumFunction(f) + request.lines[l]
    <3> HIDE DEF f, g
    <3> QED
      BY <1>2, <2>1, <2>2, TotalAdd
  <2> QED
    BY <1>1, <1>5, <1>6, <2>3 DEF ReceivedIn
<1>7. CASE request.order # o
  <2>1. g = f
    BY <1>4, <1>7
  <2>2. SumFunction(g) = SumFunction(f) + 0
    <3> HIDE DEF f, g
    <3> QED
      BY <1>5, <2>1
  <2> QED
    BY <1>1, <1>5, <1>7, <2>2 DEF ReceivedIn
<1> QED
  BY <1>6, <1>7

(* An order that something was received for is not changed any more.        *)
LEMMA ReceivedOrderStays ==
  ASSUME ProcurementInv, [ProcurementNext]_procurementVars,
         NEW o \in Orders, ReceiptsOf(o) # {}
  PROVE  purchaseOrder'[o] = purchaseOrder[o]
<1>t. /\ DOMAIN purchaseOrder = Orders
      /\ purchaseOrder[o] # None /\ OrderStatus(o) = "confirmed"
  BY DEF ProcurementInv, ProcurementTypeOK, ReceivedOrdersExist, ReceiptsMatchOrder, OrderStatus
<1>1. \/ UNCHANGED purchaseOrder
      \/ \E x \in Orders : \E r \in Relationships, lines \in LinesOf(OrderedQuantities) :
           createPurchaseOrder(x, r, lines)
      \/ \E x \in Orders : \E key \in ConfirmationKeys : confirmPurchaseOrder(x, key)
      \/ \E x \in Orders : cancelPurchaseOrder(x)
  BY DEF ProcurementNext, procurementVars, purchaseVars, createSupplierAccount, LookupReceipt,
         receivePurchaseOrder
<1>2. ASSUME NEW x \in Orders, NEW r \in Relationships, NEW lines,
             createPurchaseOrder(x, r, lines)
      PROVE  purchaseOrder'[o] = purchaseOrder[o]
  BY <1>t, <1>2 DEF createPurchaseOrder
<1>3. ASSUME NEW x \in Orders, NEW key, confirmPurchaseOrder(x, key)
      PROVE  purchaseOrder'[o] = purchaseOrder[o]
  BY <1>t, <1>3 DEF confirmPurchaseOrder
<1>4. ASSUME NEW x \in Orders, cancelPurchaseOrder(x)
      PROVE  purchaseOrder'[o] = purchaseOrder[o]
  BY <1>t, <1>4 DEF cancelPurchaseOrder
<1> QED
  BY <1>1, <1>2, <1>3, <1>4

(* Receipts keep belonging to an order that exists, and within its lines.   *)
LEMMA OrderPart ==
  ASSUME ProcurementInv, [ProcurementNext]_procurementVars
  PROVE  ReceivedOrdersExist' /\ ReceiptsMatchOrder'
<1>t. /\ warehouse \in [Warehouses -> LegalEntities \cup {None}]
      /\ receipt \in [ReceiptKeys -> {None} \cup ReceiptRequests]
      /\ call \in [Processes -> {None} \cup Requests \cup ReceiptRequests]
      /\ purchaseOrder \in
           [Orders -> {None} \cup [status : {"draft", "confirmed", "cancelled"},
                                   account : Relationships,
                                   key : ConfirmationKeys \cup {None},
                                   lines : LinesOf(OrderedQuantities)]]
  BY DEF ProcurementInv, ProcurementTypeOK, InventoryTypeOK
<1>s. RowsStay
  BY RowsPart
<1> DEFINE Matches(o) ==
             /\ purchaseOrder[o] # None /\ purchaseOrder[o].status = "confirmed"
             /\ \A l \in OrderLines : ReceivedIn(receipt, o, l) <= purchaseOrder[o].lines[l]
             /\ \A k \in ReceiptsOf(o) :
                  warehouse[receipt[k].warehouse] = purchaseOrder[o].account.legalEntity
           MatchesNext(o) ==
             /\ purchaseOrder'[o] # None /\ purchaseOrder'[o].status = "confirmed"
             /\ \A l \in OrderLines : ReceivedIn(receipt', o, l) <= purchaseOrder'[o].lines[l]
             /\ \A k \in ReceiptsOf(o)' :
                  warehouse'[receipt'[k].warehouse] = purchaseOrder'[o].account.legalEntity
<1>1. ASSUME NEW o \in Orders, ReceiptsOf(o) # {}
      PROVE  Matches(o) /\ purchaseOrder'[o] = purchaseOrder[o]
  <2>1. /\ purchaseOrder[o] # None /\ purchaseOrder[o].status = "confirmed"
        /\ \A l \in OrderLines : ReceivedOf(o, l) <= purchaseOrder[o].lines[l]
        /\ \A k \in ReceiptsOf(o) :
             warehouse[receipt[k].warehouse] = purchaseOrder[o].account.legalEntity
    BY <1>1 DEF ProcurementInv, ReceivedOrdersExist, ReceiptsMatchOrder
  <2> QED
    BY <1>1, <2>1, ReceivedIs, ReceivedOrderStays
<1>2. ASSUME NEW o \in Orders, NEW w \in Warehouses, purchaseOrder[o] # None,
             warehouse[w] = purchaseOrder[o].account.legalEntity
      PROVE  warehouse'[w] = warehouse[w]
  <2>1. purchaseOrder[o].account \in Relationships
    BY <1>t, <1>2
  <2>2. warehouse[w] \in LegalEntities
    BY <1>2, <2>1
  <2>3. warehouse[w] # None
    BY <2>2
  <2> QED
    BY <1>s, <2>3 DEF RowsStay
<1>3. ASSUME UNCHANGED receipt, NEW o \in Orders, ReceiptsOf(o)' # {}
      PROVE  MatchesNext(o)
  <2>1. ReceiptsOf(o)' = ReceiptsOf(o)
    BY <1>3 DEF ReceiptsOf
  <2>2. Matches(o) /\ purchaseOrder'[o] = purchaseOrder[o]
    BY <1>1, <1>3, <2>1
  <2>3. ASSUME NEW k \in ReceiptsOf(o)
        PROVE  warehouse'[receipt'[k].warehouse] = purchaseOrder'[o].account.legalEntity
    <3>1. receipt[k].warehouse \in Warehouses
      BY <1>t, <2>3 DEF ReceiptsOf, ReceiptRequests
    <3> QED
      BY <1>2, <1>3, <2>2, <2>3, <3>1
  <2> QED
    BY <1>3, <2>1, <2>2, <2>3
<1>4. ASSUME NEW p \in Processes, receivePurchaseOrder(p), ~ UNCHANGED receipt,
             NEW o \in Orders, ReceiptsOf(o)' # {}
      PROVE  MatchesNext(o)
  <2>1. PICK request \in ReceiptRequests : request = call[p]
    BY <1>t, <1>4 DEF receivePurchaseOrder, Requests
  <2>2. /\ request # None /\ receipt[request.id] = None
        /\ receipt' = [receipt EXCEPT ![request.id] = request]
        /\ OrderStatus(request.order) = "confirmed" /\ MayReceive(request)
        /\ UNCHANGED <<warehouse, purchaseOrder>>
    BY <1>4, <2>1 DEF receivePurchaseOrder, masterVars
  <2>3. /\ request.id \in ReceiptKeys /\ request.order \in Orders
        /\ request.warehouse \in Warehouses
    BY DEF ReceiptRequests
  <2>4. ReceiptsOf(o)' = IF request.order = o THEN ReceiptsOf(o) \cup {request.id}
                         ELSE ReceiptsOf(o)
    BY <1>t, <2>2, <2>3 DEF ReceiptsOf
  <2>5. \A k \in ReceiptsOf(o) : receipt'[k] = receipt[k]
    BY <1>s DEF RowsStay, ReceiptsOf
  <2>6. ASSUME NEW l \in OrderLines
        PROVE  /\ ReceivedIn(receipt', o, l) = ReceivedIn(receipt, o, l)
                     + (IF request.order = o THEN request.lines[l] ELSE 0)
               /\ ReceivedIn(receipt, o, l) \in Int /\ request.lines[l] \in Nat
    BY <1>t, <2>2, NewReceipt
  <2>7. CASE request.order # o
    <3>1. ReceiptsOf(o) # {}
      BY <1>4, <2>4, <2>7
    <3>2. Matches(o)
      BY <1>1, <3>1
    <3>3. \A l \in OrderLines : ReceivedIn(receipt', o, l) = ReceivedIn(receipt, o, l)
      BY <2>6, <2>7
    <3>4. \A k \in ReceiptsOf(o)' :
            warehouse'[receipt'[k].warehouse] = purchaseOrder'[o].account.legalEntity
      BY <2>2, <2>4, <2>5, <2>7, <3>2
    <3> QED
      BY <2>2, <3>2, <3>3, <3>4
  <2>8. CASE request.order = o
    <3>1. purchaseOrder[o] # None /\ purchaseOrder[o].status = "confirmed"
      BY <2>2, <2>8 DEF OrderStatus
    <3>2. ASSUME NEW l \in OrderLines
          PROVE  ReceivedIn(receipt', o, l) <= purchaseOrder[o].lines[l]
      <4>1. ReceivedIn(receipt', o, l) = ReceivedIn(receipt, o, l) + request.lines[l]
        BY <2>6, <2>8
      <4>2. CASE request.lines[l] > 0
        BY <2>2, <2>8, <4>1, <4>2, ReceivedIs DEF MayReceive, WithinOrder
      <4>3. CASE request.lines[l] = 0
        <5>1. ReceivedIn(receipt', o, l) = ReceivedIn(receipt, o, l)
          BY <2>6, <4>1, <4>3
        <5>2. CASE ReceiptsOf(o) # {}
          BY <1>1, <5>1, <5>2
        <5>3. CASE ReceiptsOf(o) = {}
          <6>1. ReceivedIn(receipt, o, l) = 0
            BY <5>3, TotalEmpty DEF ReceivedIn, ReceiptsOf
          <6>2. purchaseOrder[o].lines[l] \in Nat
            <7>1. purchaseOrder[o].lines \in [OrderLines -> {0} \cup OrderedQuantities]
              BY <1>t, <3>1 DEF LinesOf
            <7>2. {0} \cup OrderedQuantities \subseteq Nat
              OBVIOUS
            <7> QED
              BY <7>1, <7>2
          <6> QED
            BY <5>1, <6>1, <6>2
        <5> QED
          BY <5>2, <5>3
      <4> QED
        BY <2>6, <4>2, <4>3
    <3>3. ASSUME NEW k \in ReceiptsOf(o)'
          PROVE  warehouse'[receipt'[k].warehouse] = purchaseOrder'[o].account.legalEntity
      <4>1. CASE k = request.id
        <5>1. receipt'[k] = request
          BY <1>t, <2>2, <2>3, <4>1
        <5> QED
          BY <2>2, <2>8, <5>1 DEF MayReceive
      <4>2. CASE k # request.id
        <5>1. k \in ReceiptsOf(o)
          BY <2>4, <3>3, <4>2
        <5> QED
          BY <1>1, <2>2, <2>5, <5>1
      <4> QED
        BY <4>1, <4>2
    <3> QED
      BY <2>2, <3>1, <3>2, <3>3
  <2> QED
    BY <2>7, <2>8
<1>5. UNCHANGED receipt \/ \E p \in Processes : receivePurchaseOrder(p)
  BY DEF ProcurementNext, procurementVars, purchaseVars, createSupplierAccount,
         createPurchaseOrder, confirmPurchaseOrder, cancelPurchaseOrder, LookupReceipt
<1>6. \A o \in Orders : ReceiptsOf(o)' # {} => MatchesNext(o)
  <2> HIDE DEF MatchesNext
  <2> QED
    BY <1>3, <1>4, <1>5
<1> QED
  BY <1>6, ReceivedIs DEF ReceivedOrdersExist, ReceiptsMatchOrder

-----------------------------------------------------------------------------
(* What the rows say a cell holds, part by part.                            *)

Purchased(rows, w, i) ==
    SumFunction([k \in {x \in ReceiptKeys : rows[x] # None} |-> Goods(rows[k])[<<w, i>>]])

Corrected(rows, c) ==
    SumFunction([k \in {x \in Corrections : rows[x] # None /\ rows[x].cell = c}
                   |-> rows[k].quantity])

StatusIn(rows, t) == IF rows[t] = None THEN "absent" ELSE rows[t].status

Shipped(rows, w, i) ==
    SumFunction([t \in {x \in Transfers : StatusIn(rows, x) \in {"confirmed", "completed"}
                                            /\ rows[x].from = w} |-> rows[t].lines[i]])

Arrived(rows, w, i) ==
    SumFunction([t \in {x \in Transfers : StatusIn(rows, x) = "completed" /\ rows[x].to = w}
                   |-> rows[t].lines[i]])

Fulfilled(rows, c) == SumFunction(RowQuantities(rows, "fulfilled", c))

(* BalanceExplained with each of its sums named.                            *)
LEMMA BalanceIs ==
  /\ BalanceExplained <=> \A w \in Warehouses, i \in Items :
       onHand[<<w, i>>] = Purchased(receipt, w, i)
         + (receipts[<<w, i>>] + Corrected(correction, <<w, i>>) - Fulfilled(reservation, <<w, i>>)
              - Shipped(transfer, w, i) + Arrived(transfer, w, i))
  /\ BalanceExplained' <=> \A w \in Warehouses, i \in Items :
       onHand'[<<w, i>>] = Purchased(receipt', w, i)
         + (receipts'[<<w, i>>] + Corrected(correction', <<w, i>>) - Fulfilled(reservation', <<w, i>>)
              - Shipped(transfer', w, i) + Arrived(transfer', w, i))
<1>1. ASSUME NEW w, NEW i
      PROVE  /\ Explained(w, i) = receipts[<<w, i>>] + Corrected(correction, <<w, i>>)
                  - Fulfilled(reservation, <<w, i>>) - Shipped(transfer, w, i)
                  + Arrived(transfer, w, i)
             /\ Explained(w, i)' = receipts'[<<w, i>>] + Corrected(correction', <<w, i>>)
                  - Fulfilled(reservation', <<w, i>>) - Shipped(transfer', w, i)
                  + Arrived(transfer', w, i)
  BY QuantityWithStatus
     DEF Explained, Corrected, Shipped, Arrived, TransferStatus, StatusIn, Fulfilled
<1> QED
  BY <1>1 DEF BalanceExplained, Purchased

(* The sums are integers.                                                   *)
LEMMA PartsType ==
  ASSUME ProcurementTypeOK, NEW w \in Warehouses, NEW i \in Items
  PROVE  /\ Purchased(receipt, w, i) \in Int
         /\ Corrected(correction, <<w, i>>) \in Int
         /\ Fulfilled(reservation, <<w, i>>) \in Int
         /\ Shipped(transfer, w, i) \in Int
         /\ Arrived(transfer, w, i) \in Int
         /\ receipts[<<w, i>>] \in Int /\ onHand[<<w, i>>] \in Int
<1>t. /\ correction \in [Corrections -> {None} \cup CorrectionRow]
      /\ transfer \in [Transfers -> {None} \cup TransferRow]
      /\ receipt \in [ReceiptKeys -> {None} \cup ReceiptRequests]
      /\ StockTypeOK
  BY DEF ProcurementTypeOK, InventoryTypeOK
<1>c. <<w, i>> \in Cells
  OBVIOUS
<1>l. \A x \in TransferRow : x.lines[i] \in Int
  <2>1. ASSUME NEW x \in TransferRow
        PROVE  x.lines \in [Items -> {0} \cup Quantities]
    BY DEF TransferRow, Lines
  <2>2. {0} \cup Quantities \subseteq Int
    OBVIOUS
  <2> QED
    BY <2>1, <2>2
<1>1. Purchased(receipt, w, i) \in Int
  <2> DEFINE f == [k \in {x \in ReceiptKeys : receipt[x] # None} |-> Goods(receipt[k])[<<w, i>>]]
  <2>1. IsFiniteSet(DOMAIN f)
    BY FS_Subset
  <2>2. \A x \in DOMAIN f : f[x] \in Int
    <3>1. ASSUME NEW x \in DOMAIN f
          PROVE  Goods(receipt[x])[<<w, i>>] \in Int
      <4>1. receipt[x] \in ReceiptRequests
        BY <1>t
      <4>2. Goods(receipt[x]) \in [Cells -> Nat]
        BY <4>1, GoodsType
      <4> QED
        BY <1>c, <4>2
    <3> QED
      BY <3>1
  <2>3. SumFunction(f) \in Int
    <3> HIDE DEF f
    <3> QED
      BY <2>1, <2>2, TotalType
  <2> QED
    BY <2>3 DEF Purchased
<1>2. Corrected(correction, <<w, i>>) \in Int
  <2> DEFINE f == [k \in {x \in Corrections : correction[x] # None /\ correction[x].cell = <<w, i>>}
                     |-> correction[k].quantity]
  <2>1. IsFiniteSet(DOMAIN f)
    BY FS_Subset
  <2>2. \A x \in DOMAIN f : f[x] \in Int
    BY <1>t DEF CorrectionRow
  <2>3. SumFunction(f) \in Int
    <3> HIDE DEF f
    <3> QED
      BY <2>1, <2>2, TotalType
  <2> QED
    BY <2>3 DEF Corrected
<1>3. Fulfilled(reservation, <<w, i>>) \in Int
  <2>1. QuantityAt(WithStatus(Reservations, "fulfilled"), <<w, i>>) \in Nat
    <3>1. WithStatus(Reservations, "fulfilled") \subseteq Reservations
      BY DEF WithStatus
    <3> QED
      BY <1>t, <3>1, QuantityType
  <2> QED
    BY <2>1, QuantityWithStatus DEF Fulfilled
<1>4. Shipped(transfer, w, i) \in Int
  <2> DEFINE f == [t \in {x \in Transfers : StatusIn(transfer, x) \in {"confirmed", "completed"}
                                              /\ transfer[x].from = w} |-> transfer[t].lines[i]]
  <2>1. IsFiniteSet(DOMAIN f)
    BY FS_Subset
  <2>2. \A x \in DOMAIN f : f[x] \in Int
    BY <1>t, <1>l DEF StatusIn
  <2>3. SumFunction(f) \in Int
    <3> HIDE DEF f
    <3> QED
      BY <2>1, <2>2, TotalType
  <2> QED
    BY <2>3 DEF Shipped
<1>5. Arrived(transfer, w, i) \in Int
  <2> DEFINE f == [t \in {x \in Transfers : StatusIn(transfer, x) = "completed"
                                              /\ transfer[x].to = w} |-> transfer[t].lines[i]]
  <2>1. IsFiniteSet(DOMAIN f)
    BY FS_Subset
  <2>2. \A x \in DOMAIN f : f[x] \in Int
    BY <1>t, <1>l DEF StatusIn
  <2>3. SumFunction(f) \in Int
    <3> HIDE DEF f
    <3> QED
      BY <2>1, <2>2, TotalType
  <2> QED
    BY <2>3 DEF Arrived
<1>6. receipts[<<w, i>>] \in Int /\ onHand[<<w, i>>] \in Int
  BY <1>t, <1>c DEF StockTypeOK
<1> QED
  BY <1>1, <1>2, <1>3, <1>4, <1>5, <1>6

(* One row more, or one row further, is one part more.                      *)

(* A new receipt adds its goods to the sum of the purchased ones.           *)
LEMMA PurchasedStep ==
  ASSUME receipt \in [ReceiptKeys -> {None} \cup ReceiptRequests],
         NEW request \in ReceiptRequests, request # None, receipt[request.id] = None,
         receipt' = [receipt EXCEPT ![request.id] = request],
         NEW w \in Warehouses, NEW i \in Items
  PROVE  /\ Purchased(receipt', w, i) = Purchased(receipt, w, i) + Goods(request)[<<w, i>>]
         /\ Goods(request)[<<w, i>>] \in Int
<1> DEFINE F(rows) == [k \in {x \in ReceiptKeys : rows[x] # None} |-> Goods(rows[k])[<<w, i>>]]
           f == F(receipt)
           g == F(receipt')
<1>1. \A x \in ReceiptRequests : x.id \in ReceiptKeys /\ Goods(x)[<<w, i>>] \in Int
  <2>1. ASSUME NEW x \in ReceiptRequests
        PROVE  x.id \in ReceiptKeys /\ Goods(x)[<<w, i>>] \in Int
    <3>1. Goods(x) \in [Cells -> Nat] /\ <<w, i>> \in Cells
      BY GoodsType
    <3> QED
      BY <3>1 DEF ReceiptRequests
  <2> QED
    BY <2>1
<1>2. IsFiniteSet(DOMAIN f)
  BY FS_Subset
<1>3. \A x \in ReceiptKeys : receipt'[x] = IF x = request.id THEN request ELSE receipt[x]
  BY <1>1
<1>4. /\ request.id \notin DOMAIN f /\ DOMAIN g = (DOMAIN f) \cup {request.id}
      /\ \A y \in DOMAIN f : f[y] = g[y]
      /\ g[request.id] = Goods(request)[<<w, i>>]
  BY <1>1, <1>3
<1>5. \A y \in DOMAIN g : g[y] \in Int
  BY <1>1, <1>3
<1>6. SumFunction(g) = SumFunction(f) + Goods(request)[<<w, i>>]
  <2> HIDE DEF f, g
  <2> QED
    BY <1>2, <1>4, <1>5, TotalAdd
<1> QED
  BY <1>1, <1>6 DEF Purchased

(* A new correction adds its quantity to the sum of its cell alone.         *)
LEMMA CorrectedStep ==
  ASSUME correction \in [Corrections -> {None} \cup CorrectionRow],
         NEW key \in Corrections, NEW row \in CorrectionRow, correction[key] = None,
         correction' = [correction EXCEPT ![key] = row],
         NEW c, Corrected(correction, c) \in Int
  PROVE  /\ Corrected(correction', c)
              = Corrected(correction, c) + (IF row.cell = c THEN row.quantity ELSE 0)
         /\ row.quantity \in Int
<1> DEFINE F(rows) == [k \in {x \in Corrections : rows[x] # None /\ rows[x].cell = c}
                         |-> rows[k].quantity]
           f == F(correction)
           g == F(correction')
<1>1. row # None /\ \A x \in CorrectionRow : x.quantity \in Int
  BY DEF CorrectionRow
<1>2. IsFiniteSet(DOMAIN f)
  BY FS_Subset
<1>3. \A x \in Corrections : correction'[x] = IF x = key THEN row ELSE correction[x]
  OBVIOUS
<1>4. CASE row.cell = c
  <2>1. /\ key \notin DOMAIN f /\ DOMAIN g = (DOMAIN f) \cup {key}
        /\ \A y \in DOMAIN f : f[y] = g[y]
        /\ g[key] = row.quantity
    BY <1>1, <1>3, <1>4
  <2>2. \A y \in DOMAIN g : g[y] \in Int
    BY <1>1, <1>3
  <2>3. SumFunction(g) = SumFunction(f) + row.quantity
    <3> HIDE DEF f, g
    <3> QED
      BY <1>2, <2>1, <2>2, TotalAdd
  <2> QED
    BY <1>1, <1>4, <2>3 DEF Corrected
<1>5. CASE row.cell # c
  <2>1. g = f
    BY <1>3, <1>5
  <2>2. Corrected(correction', c) = Corrected(correction, c)
    BY <2>1 DEF Corrected
  <2> QED
    BY <1>1, <1>5, <2>2
<1> QED
  BY <1>4, <1>5

(* The transfer t goes on to status st: it ships its lines when it is       *)
(* confirmed, and they arrive when it is completed.                         *)
LEMMA TransferStep ==
  ASSUME transfer \in [Transfers -> {None} \cup TransferRow],
         NEW t \in Transfers, NEW row \in TransferRow,
         transfer' = [transfer EXCEPT ![t] = row],
         \/ StatusIn(transfer, t) = "absent" /\ row.status = "draft"
         \/ /\ StatusIn(transfer, t) = "draft" /\ row.status = "confirmed"
            /\ row.from = transfer[t].from /\ row.lines = transfer[t].lines
         \/ /\ StatusIn(transfer, t) = "confirmed" /\ row.status = "completed"
            /\ row.from = transfer[t].from /\ row.lines = transfer[t].lines,
         NEW w, NEW i \in Items,
         Shipped(transfer, w, i) \in Int, Arrived(transfer, w, i) \in Int
  PROVE  /\ Shipped(transfer', w, i) = Shipped(transfer, w, i)
              + (IF row.status = "confirmed" /\ row.from = w THEN row.lines[i] ELSE 0)
         /\ Arrived(transfer', w, i) = Arrived(transfer, w, i)
              + (IF row.status = "completed" /\ row.to = w THEN row.lines[i] ELSE 0)
         /\ row.lines[i] \in Int
<1> DEFINE S(rows) == [x \in {y \in Transfers : StatusIn(rows, y) \in {"confirmed", "completed"}
                                                  /\ rows[y].from = w} |-> rows[x].lines[i]]
           A(rows) == [x \in {y \in Transfers : StatusIn(rows, y) = "completed" /\ rows[y].to = w}
                         |-> rows[x].lines[i]]
           s == S(transfer)
           sn == S(transfer')
           a == A(transfer)
           an == A(transfer')
<1>1. row # None /\ \A x \in TransferRow : x.lines[i] \in Int
  <2>1. ASSUME NEW x \in TransferRow
        PROVE  x.lines \in [Items -> {0} \cup Quantities]
    BY DEF TransferRow, Lines
  <2>2. {0} \cup Quantities \subseteq Int
    OBVIOUS
  <2> QED
    BY <2>1, <2>2
<1>2. \A x \in Transfers : transfer'[x] = IF x = t THEN row ELSE transfer[x]
  OBVIOUS
<1>3. \A x \in Transfers : StatusIn(transfer', x) = IF x = t THEN row.status ELSE StatusIn(transfer, x)
  BY <1>1, <1>2 DEF StatusIn
<1>4. /\ IsFiniteSet(DOMAIN s) /\ IsFiniteSet(DOMAIN a)
      /\ \A x \in DOMAIN sn : sn[x] \in Int
      /\ \A x \in DOMAIN an : an[x] \in Int
  <2>1. DOMAIN s \subseteq Transfers /\ DOMAIN a \subseteq Transfers
    OBVIOUS
  <2>2. IsFiniteSet(DOMAIN s) /\ IsFiniteSet(DOMAIN a)
    <3> HIDE DEF s, a
    <3> QED
      BY <2>1, FS_Subset
  <2>3. \A x \in Transfers : StatusIn(transfer', x) # "absent" => transfer'[x] \in TransferRow
    BY DEF StatusIn
  <2>4. \A x \in DOMAIN sn : sn[x] \in Int
    BY <1>1, <2>3
  <2>5. \A x \in DOMAIN an : an[x] \in Int
    BY <1>1, <2>3
  <2> QED
    BY <2>2, <2>4, <2>5
<1>5. Shipped(transfer', w, i) = Shipped(transfer, w, i)
        + (IF row.status = "confirmed" /\ row.from = w THEN row.lines[i] ELSE 0)
  <2>1. CASE row.status = "confirmed" /\ row.from = w
    <3>1. /\ t \notin DOMAIN s /\ DOMAIN sn = (DOMAIN s) \cup {t}
          /\ \A y \in DOMAIN s : s[y] = sn[y]
          /\ sn[t] = row.lines[i]
      BY <1>2, <1>3, <2>1
    <3>2. SumFunction(sn) = SumFunction(s) + row.lines[i]
      <4> HIDE DEF s, sn
      <4> QED
        BY <1>4, <3>1, TotalAdd
    <3> QED
      BY <1>1, <2>1, <3>2 DEF Shipped
  <2>2. CASE ~ (row.status = "confirmed" /\ row.from = w)
    <3>1. sn = s
      BY <1>2, <1>3, <2>2
    <3>2. Shipped(transfer', w, i) = Shipped(transfer, w, i)
      BY <3>1 DEF Shipped
    <3> QED
      BY <1>1, <2>2, <3>2
  <2> QED
    BY <2>1, <2>2
<1>6. Arrived(transfer', w, i) = Arrived(transfer, w, i)
        + (IF row.status = "completed" /\ row.to = w THEN row.lines[i] ELSE 0)
  <2>1. CASE row.status = "completed" /\ row.to = w
    <3>1. /\ t \notin DOMAIN a /\ DOMAIN an = (DOMAIN a) \cup {t}
          /\ \A y \in DOMAIN a : a[y] = an[y]
          /\ an[t] = row.lines[i]
      BY <1>2, <1>3, <2>1
    <3>2. SumFunction(an) = SumFunction(a) + row.lines[i]
      <4> HIDE DEF a, an
      <4> QED
        BY <1>4, <3>1, TotalAdd
    <3> QED
      BY <1>1, <2>1, <3>2 DEF Arrived
  <2>2. CASE ~ (row.status = "completed" /\ row.to = w)
    <3>1. an = a
      BY <1>2, <1>3, <2>2
    <3>2. Arrived(transfer', w, i) = Arrived(transfer, w, i)
      BY <3>1 DEF Arrived
    <3> QED
      BY <1>1, <2>2, <3>2
  <2> QED
    BY <2>1, <2>2
<1> QED
  BY <1>1, <1>5, <1>6

(* Every step moves what is on hand by as much as what the rows say.        *)
LEMMA BalancePart ==
  ASSUME ProcurementInv, [ProcurementNext]_procurementVars
  PROVE  BalanceExplained'
<1>t. /\ correction \in [Corrections -> {None} \cup CorrectionRow]
      /\ transfer \in [Transfers -> {None} \cup TransferRow]
      /\ receipt \in [ReceiptKeys -> {None} \cup ReceiptRequests]
      /\ call \in [Processes -> {None} \cup Requests \cup ReceiptRequests]
      /\ StockTypeOK /\ StockInv /\ ProcurementTypeOK
  BY DEF ProcurementInv, ProcurementTypeOK, InventoryTypeOK, StockInv
<1> SUFFICES ASSUME NEW w \in Warehouses, NEW i \in Items
             PROVE  onHand'[<<w, i>>] = Purchased(receipt', w, i)
                      + (receipts'[<<w, i>>] + Corrected(correction', <<w, i>>)
                           - Fulfilled(reservation', <<w, i>>)
                           - Shipped(transfer', w, i) + Arrived(transfer', w, i))
  BY BalanceIs
<1> DEFINE c == <<w, i>>
           Goal == onHand'[c] = Purchased(receipt', w, i)
                      + (receipts'[c] + Corrected(correction', c) - Fulfilled(reservation', c)
                           - Shipped(transfer', w, i) + Arrived(transfer', w, i))
<1>o. /\ onHand[c] = Purchased(receipt, w, i)
           + (receipts[c] + Corrected(correction, c) - Fulfilled(reservation, c)
                - Shipped(transfer, w, i) + Arrived(transfer, w, i))
      /\ Purchased(receipt, w, i) \in Int /\ Corrected(correction, c) \in Int
      /\ Fulfilled(reservation, c) \in Int /\ Shipped(transfer, w, i) \in Int
      /\ Arrived(transfer, w, i) \in Int /\ receipts[c] \in Int /\ onHand[c] \in Int
      /\ c \in Cells
  BY <1>t, BalanceIs, PartsType DEF ProcurementInv
<1>q. /\ Fulfilled(reservation, c) = QuantityAt(WithStatus(Reservations, "fulfilled"), c)
      /\ Fulfilled(reservation', c) = QuantityAt(WithStatus(Reservations, "fulfilled"), c)'
  BY QuantityWithStatus DEF Fulfilled
<1> HIDE DEF c
<1>1. ASSUME UNCHANGED <<stockVars, correction, transfer, receipt>>
      PROVE  Goal
  BY <1>o, <1>1 DEF stockVars
<1>2. ASSUME Receive, UNCHANGED receipt
      PROVE  Goal
  <2>1. PICK d \in Cells, quantity \in Quantities : receiveStock(OneLine(d, quantity), None)
    BY <1>2 DEF Receive
  <2>2. /\ onHand'[c] = onHand[c] + OneLine(d, quantity)[c]
        /\ receipts'[c] = receipts[c] + OneLine(d, quantity)[c]
        /\ OneLine(d, quantity)[c] \in Int
        /\ UNCHANGED <<reservation, correction, transfer>>
    BY <1>o, <1>2, <2>1 DEF receiveStock, OneLine, Receive
  <2> QED
    BY <1>2, <1>o, <2>2
<1>3. ASSUME NEW r \in Reservations, Release(r), UNCHANGED receipt
      PROVE  Goal
  <2>1. /\ SetStatus(WithStatus({r}, "active"), "released")
        /\ UNCHANGED <<onHand, receipts, correction, transfer>>
    BY <1>3 DEF Release, releaseReservations
  <2>2. /\ Fulfilled(reservation', c) = Fulfilled(reservation, c) + 0
    BY <1>t, <1>o, <1>q, <2>1, CloseStep
  <2> QED
    BY <1>3, <1>o, <2>1, <2>2
<1>4. ASSUME NEW r \in Reservations, Fulfill(r), UNCHANGED receipt
      PROVE  Goal
  <2> DEFINE amount == QuantityAt(WithStatus({r}, "active"), c)
  <2>1. /\ SetStatus(WithStatus({r}, "active"), "fulfilled")
        /\ onHand'[c] = onHand[c] - amount
        /\ UNCHANGED <<receipts, correction, transfer>>
    BY <1>4, <1>o DEF Fulfill, fulfillReservations
  <2>2. Fulfilled(reservation', c) = Fulfilled(reservation, c) + amount /\ amount \in Nat
    BY <1>t, <1>o, <1>q, <2>1, CloseStep
  <2> HIDE DEF amount
  <2> QED
    BY <1>4, <1>o, <2>1, <2>2
<1>5. ASSUME NEW p \in Processes, reserveStock(p), UNCHANGED receipt
      PROVE  Goal
  <2>1. UNCHANGED <<onHand, receipts, correction, transfer>>
    BY <1>5 DEF reserveStock, stockVars, InsertReservations
  <2>2. CASE UNCHANGED stockVars
    BY <1>1, <1>5, <2>1, <2>2
  <2>3. CASE ~ UNCHANGED stockVars
    <3>1. PICK q \in [kind : {"reserve"}, id : Reservations, cell : Cells, quantity : Quantities] :
            ~ Exists(q) /\ InsertReservations({q})
      BY <1>t, <1>5, <2>3 DEF reserveStock, Requests, ReceiptRequests
    <3>2. NewKeys({q})
      BY <3>1, FS_Singleton DEF NewKeys
    <3>3. Fulfilled(reservation', c) = Fulfilled(reservation, c)
      BY <1>t, <1>o, <1>q, <3>1, <3>2, InsertStep
    <3> QED
      BY <1>5, <1>o, <2>1, <3>3
  <2> QED
    BY <2>2, <2>3
<1>6. ASSUME NEW p \in Processes, adjustStock(p), UNCHANGED receipt
      PROVE  Goal
  <2>1. UNCHANGED <<reserved, reservation, receipts, transfer>>
    BY <1>6 DEF adjustStock
  <2>2. CASE UNCHANGED <<onHand, correction>>
    BY <1>1, <1>6, <2>1, <2>2 DEF stockVars
  <2>3. CASE ~ UNCHANGED <<onHand, correction>>
    <3>1. PICK q \in [kind : {"adjust"}, id : Corrections, cell : Cells,
                      quantity : Quantities \cup {-x : x \in Quantities}] :
            /\ correction[q.id] = None
            /\ onHand' = [onHand EXCEPT ![q.cell] = @ + q.quantity]
            /\ correction' = [correction EXCEPT
                 ![q.id] = [cell |-> q.cell, quantity |-> q.quantity]]
      BY <1>t, <1>6, <2>3 DEF adjustStock, HasRow, Requests, ReceiptRequests
    <3> DEFINE row == [cell |-> q.cell, quantity |-> q.quantity]
    <3>2. row \in CorrectionRow /\ row.cell = q.cell /\ row.quantity = q.quantity
      BY CorrectionType
    <3>3. correction' = [correction EXCEPT ![q.id] = row] /\ q.id \in Corrections
      BY <3>1
    <3> HIDE DEF row
    <3>4. /\ Corrected(correction', c) = Corrected(correction, c)
               + (IF row.cell = c THEN row.quantity ELSE 0)
          /\ row.quantity \in Int
      BY <1>t, <1>o, <3>1, <3>2, <3>3, CorrectedStep
    <3>5. onHand'[c] = onHand[c] + (IF row.cell = c THEN row.quantity ELSE 0)
      BY <1>t, <1>o, <3>1, <3>2, <3>4 DEF StockTypeOK
    <3> QED
      BY <1>6, <1>o, <2>1, <3>4, <3>5
  <2> QED
    BY <2>2, <2>3
<1>7. ASSUME NEW t \in Transfers, NEW from \in Warehouses, NEW to \in Warehouses,
             NEW lines \in Lines, createTransfer(t, from, to, lines), UNCHANGED receipt
      PROVE  Goal
  <2> DEFINE row == [status |-> "draft", from |-> from, to |-> to, lines |-> lines]
  <2>1. row \in TransferRow /\ row.status = "draft"
    BY DEF TransferRow
  <2>2. /\ transfer' = [transfer EXCEPT ![t] = row] /\ StatusIn(transfer, t) = "absent"
        /\ UNCHANGED <<stockVars, correction>>
    BY <1>7 DEF createTransfer, StatusIn
  <2> HIDE DEF row
  <2>3. /\ Shipped(transfer', w, i) = Shipped(transfer, w, i)
             + (IF row.status = "confirmed" /\ row.from = w THEN row.lines[i] ELSE 0)
        /\ Arrived(transfer', w, i) = Arrived(transfer, w, i)
             + (IF row.status = "completed" /\ row.to = w THEN row.lines[i] ELSE 0)
        /\ row.lines[i] \in Int
    BY <1>t, <1>o, <2>1, <2>2, TransferStep
  <2>4. /\ Shipped(transfer', w, i) = Shipped(transfer, w, i) + 0
        /\ Arrived(transfer', w, i) = Arrived(transfer, w, i) + 0
    BY <2>1, <2>3
  <2> QED
    BY <1>7, <1>o, <2>2, <2>4 DEF stockVars
<1>8. ASSUME NEW t \in Transfers, confirmTransfer(t), UNCHANGED receipt
      PROVE  Goal
  <2> DEFINE row == [transfer[t] EXCEPT !.status = "confirmed"]
  <2>1. transfer[t] \in TransferRow /\ StatusIn(transfer, t) = "draft"
    BY <1>t, <1>8 DEF confirmTransfer, TransferStatus, StatusIn
  <2>2. /\ row \in TransferRow /\ row.status = "confirmed"
        /\ row.from = transfer[t].from /\ row.lines = transfer[t].lines
    BY <2>1 DEF TransferRow
  <2>3. /\ transfer' = [transfer EXCEPT ![t] = row]
        /\ onHand'[c] = IF c[1] = transfer[t].from THEN onHand[c] - transfer[t].lines[c[2]]
                        ELSE onHand[c]
        /\ UNCHANGED <<reservation, receipts, correction>>
    BY <1>8, <1>o DEF confirmTransfer
  <2> HIDE DEF row
  <2>4. /\ Shipped(transfer', w, i) = Shipped(transfer, w, i)
             + (IF row.status = "confirmed" /\ row.from = w THEN row.lines[i] ELSE 0)
        /\ Arrived(transfer', w, i) = Arrived(transfer, w, i)
             + (IF row.status = "completed" /\ row.to = w THEN row.lines[i] ELSE 0)
        /\ row.lines[i] \in Int
    BY <1>t, <1>o, <2>1, <2>2, <2>3, TransferStep
  <2>5. c[1] = w /\ c[2] = i
    BY DEF c
  <2>6. /\ onHand'[c] = onHand[c] - (IF row.from = w THEN row.lines[i] ELSE 0)
        /\ Shipped(transfer', w, i)
             = Shipped(transfer, w, i) + (IF row.from = w THEN row.lines[i] ELSE 0)
        /\ Arrived(transfer', w, i) = Arrived(transfer, w, i)
    BY <1>o, <2>2, <2>3, <2>4, <2>5
  <2> QED
    BY <1>8, <1>o, <2>3, <2>4, <2>6
<1>9. ASSUME NEW t \in Transfers, completeTransfer(t), UNCHANGED receipt
      PROVE  Goal
  <2> DEFINE row == [transfer[t] EXCEPT !.status = "completed"]
  <2>1. transfer[t] \in TransferRow /\ StatusIn(transfer, t) = "confirmed"
    BY <1>t, <1>9 DEF completeTransfer, TransferStatus, StatusIn
  <2>2. /\ row \in TransferRow /\ row.status = "completed" /\ row.to = transfer[t].to
        /\ row.from = transfer[t].from /\ row.lines = transfer[t].lines
    BY <2>1 DEF TransferRow
  <2>3. /\ transfer' = [transfer EXCEPT ![t] = row]
        /\ onHand'[c] = IF c[1] = transfer[t].to THEN onHand[c] + transfer[t].lines[c[2]]
                        ELSE onHand[c]
        /\ UNCHANGED <<reservation, receipts, correction>>
    BY <1>9, <1>o DEF completeTransfer
  <2> HIDE DEF row
  <2>4. /\ Shipped(transfer', w, i) = Shipped(transfer, w, i)
             + (IF row.status = "confirmed" /\ row.from = w THEN row.lines[i] ELSE 0)
        /\ Arrived(transfer', w, i) = Arrived(transfer, w, i)
             + (IF row.status = "completed" /\ row.to = w THEN row.lines[i] ELSE 0)
        /\ row.lines[i] \in Int
    BY <1>t, <1>o, <2>1, <2>2, <2>3, TransferStep
  <2>5. c[1] = w /\ c[2] = i
    BY DEF c
  <2>6. /\ onHand'[c] = onHand[c] + (IF row.to = w THEN row.lines[i] ELSE 0)
        /\ Shipped(transfer', w, i) = Shipped(transfer, w, i)
        /\ Arrived(transfer', w, i)
             = Arrived(transfer, w, i) + (IF row.to = w THEN row.lines[i] ELSE 0)
    BY <1>o, <2>2, <2>3, <2>4, <2>5
  <2> QED
    BY <1>9, <1>o, <2>3, <2>4, <2>6
<1>10. ASSUME NEW p \in Processes, receivePurchaseOrder(p)
       PROVE  Goal
  <2>1. UNCHANGED <<correction, transfer>>
    BY <1>10 DEF receivePurchaseOrder
  <2>2. CASE UNCHANGED <<stockVars, receipt>>
    BY <1>1, <2>1, <2>2
  <2>3. CASE ~ UNCHANGED <<stockVars, receipt>>
    <3>1. PICK request \in ReceiptRequests :
            /\ request # None /\ receipt[request.id] = None
            /\ receiveStock(Goods(request), request.id)
            /\ receipt' = [receipt EXCEPT ![request.id] = request]
      BY <1>t, <1>10, <2>3 DEF receivePurchaseOrder, Requests
    <3>2. /\ Purchased(receipt', w, i) = Purchased(receipt, w, i) + Goods(request)[c]
          /\ Goods(request)[c] \in Int
      BY <1>t, <3>1, PurchasedStep DEF c
    <3>3. /\ onHand'[c] = onHand[c] + Goods(request)[c]
          /\ UNCHANGED <<receipts, reservation>>
      BY <1>o, <3>1 DEF receiveStock, ReceiptRequests
    <3> QED
      BY <1>o, <2>1, <3>2, <3>3
  <2> QED
    BY <2>2, <2>3
<1>11. \/ UNCHANGED <<stockVars, correction, transfer, receipt>>
       \/ \E p \in Processes : receivePurchaseOrder(p)
       \/ /\ UNCHANGED receipt
          /\ \/ Receive
             \/ \E r \in Reservations : Release(r) \/ Fulfill(r)
             \/ \E t \in Transfers :
                  \/ \E from, to \in Warehouses, lines \in Lines : createTransfer(t, from, to, lines)
                  \/ confirmTransfer(t)
                  \/ completeTransfer(t)
             \/ \E p \in Processes : reserveStock(p) \/ adjustStock(p)
  BY DEF ProcurementNext, InventoryNext, procurementVars, inventoryVars, stockVars, purchaseVars,
         createWarehouse, createItem, LookupKey, CallLost, createSupplierAccount,
         createPurchaseOrder, confirmPurchaseOrder, cancelPurchaseOrder, LookupReceipt
<1>12. Goal
  <2> HIDE DEF Goal
  <2> QED
    BY <1>1, <1>2, <1>3, <1>4, <1>5, <1>6, <1>7, <1>8, <1>9, <1>10, <1>11
<1> QED
  BY <1>12 DEF c

-----------------------------------------------------------------------------
(* Nothing exists at the start, and every sum is zero.                      *)
LEMMA ProcurementStart == ProcurementInit => ProcurementInv
<1> SUFFICES ASSUME ProcurementInit PROVE ProcurementInv
  OBVIOUS
<1>i. /\ StockInit
      /\ warehouse = [w \in Warehouses |-> None] /\ items = {}
      /\ correction = [k \in Corrections |-> None]
      /\ transfer = [t \in Transfers |-> None]
      /\ call = [p \in Processes |-> None] /\ answer = [p \in Processes |-> None]
      /\ supplierAccounts = {} /\ purchaseOrder = [o \in Orders |-> None]
      /\ receipt = [k \in ReceiptKeys |-> None]
  BY DEF ProcurementInit, InventoryInit
<1>s. /\ StockTypeOK /\ ReservedIsBacked
      /\ \A c \in Cells : QuantityAt(WithStatus(Reservations, "fulfilled"), c) = 0
  BY <1>i, StockStart DEF StockInv
<1>1. ProcurementTypeOK
  BY <1>i, <1>s DEF ProcurementTypeOK, InventoryTypeOK
<1>2. AnswerIsStored /\ ReceivedOrdersExist /\ ReceiptsMatchOrder
  BY <1>i DEF AnswerIsStored, ReceivedOrdersExist, ReceiptsMatchOrder, ReceiptsOf
<1>3. ASSUME NEW w \in Warehouses, NEW i \in Items
      PROVE  onHand[<<w, i>>] = Purchased(receipt, w, i)
               + (receipts[<<w, i>>] + Corrected(correction, <<w, i>>)
                    - Fulfilled(reservation, <<w, i>>)
                    - Shipped(transfer, w, i) + Arrived(transfer, w, i))
  <2>1. Purchased(receipt, w, i) = 0
    BY <1>i, TotalEmpty DEF Purchased
  <2>2. Corrected(correction, <<w, i>>) = 0
    BY <1>i, TotalEmpty DEF Corrected
  <2>3. Shipped(transfer, w, i) = 0
    BY <1>i, TotalEmpty DEF Shipped, StatusIn
  <2>4. Arrived(transfer, w, i) = 0
    BY <1>i, TotalEmpty DEF Arrived, StatusIn
  <2>5. /\ <<w, i>> \in Cells
        /\ Fulfilled(reservation, <<w, i>>) = 0
    BY <1>s, QuantityWithStatus DEF Fulfilled
  <2>6. onHand[<<w, i>>] = 0 /\ receipts[<<w, i>>] = 0
    BY <1>i, <2>5 DEF StockInit
  <2> QED
    BY <2>1, <2>2, <2>3, <2>4, <2>5, <2>6
<1>4. BalanceExplained
  BY <1>3, BalanceIs
<1> QED
  BY <1>s, <1>1, <1>2, <1>4 DEF ProcurementInv

(* The parts together: the induction step.                                  *)
LEMMA ProcurementStep == ProcurementInv /\ [ProcurementNext]_procurementVars => ProcurementInv' /\ RowsMove
  BY StockPart, TypePart, AnswerPart, OrderPart, BalancePart DEF ProcurementInv, StockInv

(* The inductive invariant of inventory and procurement.                    *)
THEOREM ProcurementInvariant == ProcurementSpec => []ProcurementInv
  BY ProcurementStart, ProcurementStep, PTL DEF ProcurementSpec

(* The variables have their types, whatever the services do.                *)
THEOREM ProcurementTypeCorrect == ProcurementSpec => []ProcurementTypeOK
<1>1. ProcurementInv => ProcurementTypeOK
  BY DEF ProcurementInv
<1> QED
  BY <1>1, ProcurementInvariant, PTL

(* stock_balances: reserved is the sum of the active reservations of the    *)
(* cell and never exceeds on_hand, so the check constraints of the table    *)
(* are never run into.                                                      *)
THEOREM StockBacked == ProcurementSpec => []ReservedIsBacked
<1>1. ProcurementInv => ReservedIsBacked
  BY DEF ProcurementInv
<1> QED
  BY <1>1, ProcurementInvariant, PTL

(* Every piece on hand is explained by a row, counted once.                 *)
THEOREM StockExplained == ProcurementSpec => []BalanceExplained
<1>1. ProcurementInv => BalanceExplained
  BY DEF ProcurementInv
<1> QED
  BY <1>1, ProcurementInvariant, PTL

(* Callers are answered from the row they asked for.                        *)
THEOREM AnswersStored == ProcurementSpec => []AnswerIsStored
<1>1. ProcurementInv => AnswerIsStored
  BY DEF ProcurementInv
<1> QED
  BY <1>1, ProcurementInvariant, PTL

(* Receipts stay within their order, in warehouses of its legal entity.     *)
THEOREM ReceiptsMatch == ProcurementSpec => []ReceiptsMatchOrder
<1>1. ProcurementInv => ReceiptsMatchOrder
  BY DEF ProcurementInv
<1> QED
  BY <1>1, ProcurementInvariant, PTL

(* A reservation is released or fulfilled once, and keeps what it holds     *)
(* until then.                                                              *)
THEOREM ReservationsEndOnce == ProcurementSpec => ReservationEndsOnce
<1> DEFINE EndsOnce ==
      \A r \in Reservations :
        /\ reservation[r].status \in {"released", "fulfilled"} =>
             reservation'[r] = reservation[r]
        /\ reservation[r].status = "active" =>
             /\ reservation'[r].cell = reservation[r].cell
             /\ reservation'[r].quantity = reservation[r].quantity
<1>1. ProcurementInv /\ [ProcurementNext]_procurementVars => [EndsOnce]_stockVars
  BY ProcurementStep DEF RowsMove
<1>2. ProcurementSpec => [][EndsOnce]_stockVars
  <2> HIDE DEF EndsOnce
  <2> QED
    BY <1>1, ProcurementInvariant, PTL DEF ProcurementSpec
<1> QED
  BY <1>2 DEF ReservationEndsOnce

=============================================================================
