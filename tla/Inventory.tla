------------------------------ MODULE Inventory ------------------------------
(***************************************************************************)
(* The inventory service as its callers use it: receipts, corrections,      *)
(* reservations and transfers between warehouses, by concurrent processes   *)
(* that retry with the same idempotency key.                                *)
(*                                                                         *)
(* reserveStock and adjustStock look for a row with their key first.  When  *)
(* there is none nothing is locked, so another call with the same key may   *)
(* commit before this one writes: the lookup and the write are two actions. *)
(* Every other call locks the rows it decides on and is one action.  (With  *)
(* the optional legal entity reserveStock locks the warehouse first, which  *)
(* allows fewer interleavings; without a key it is the call of a process    *)
(* whose key nobody else uses.)                                             *)
(***************************************************************************)
EXTENDS Stock

CONSTANTS
    Processes,
    Warehouses,
    Items,
    LegalEntities,
    Corrections,    \* idempotency keys of adjustStock
    Transfers,      \* transfer ids
    Quantities,     \* quantities a caller asks for
    ReceiptCap      \* bound: what is ever received without a purchase order

Lines == [Items -> {0} \cup Quantities] \ {[i \in Items |-> 0]}

CorrectionRow == [cell : Cells, quantity : Int]

TransferRow == [status : {"draft", "confirmed", "completed"},
                from : Warehouses, to : Warehouses, lines : Lines]

(* None is the missing value: no row, and no legal entity, is missing.  As  *)
(* with reservations, the keys ever named are finitely many.                *)
ASSUME InventoryConstants ==
    /\ Cells = Warehouses \X Items
    /\ Quantities \subseteq Nat \ {0}
    /\ ReceiptCap \in Nat
    /\ None \notin LegalEntities \cup CorrectionRow \cup TransferRow
    /\ IsFiniteSet(Corrections) /\ IsFiniteSet(Transfers)

VARIABLES
    warehouse,      \* warehouse -> the legal entity of its row, or None
    items,          \* items that have a row
    correction,     \* key -> the movement adjustStock wrote with its event, or None
    transfer,       \* id -> the stock_transfers row with its lines, or None
    call,           \* process -> the request whose lookup found no row
    answer          \* process -> the request it was told has a row

masterVars == <<warehouse, items>>
inventoryVars == <<onHand, reserved, reservation, receipts, warehouse, items,
                   correction, transfer, call, answer>>

Requests ==
    [kind : {"reserve"}, id : Reservations, cell : Cells, quantity : Quantities]
    \cup [kind : {"adjust"}, id : Corrections, cell : Cells,
          quantity : Quantities \cup {-q : q \in Quantities}]

InventoryTypeOK ==
    /\ StockTypeOK
    /\ warehouse \in [Warehouses -> LegalEntities \cup {None}]
    /\ items \subseteq Items
    /\ correction \in [Corrections -> {None} \cup CorrectionRow]
    /\ transfer \in [Transfers -> {None} \cup TransferRow]

InventoryInit ==
    /\ StockInit
    /\ warehouse = [w \in Warehouses |-> None]
    /\ items = {}
    /\ correction = [k \in Corrections |-> None]
    /\ transfer = [t \in Transfers |-> None]
    /\ call = [p \in Processes |-> None]
    /\ answer = [p \in Processes |-> None]

-----------------------------------------------------------------------------
(* Neither row is ever updated: a warehouse stays with its legal entity.    *)
createWarehouse(w, e) ==
    /\ warehouse[w] = None
    /\ warehouse' = [warehouse EXCEPT ![w] = e]
    /\ UNCHANGED <<stockVars, items, correction, transfer, call, answer>>

createItem(i) ==
    /\ i \notin items
    /\ items' = items \cup {i}
    /\ UNCHANGED <<stockVars, warehouse, correction, transfer, call, answer>>

(* Both rows a balance refers to.                                           *)
CellExists(c) == warehouse[c[1]] # None /\ c[2] \in items

HasRow(request) ==
    IF request.kind = "reserve" THEN Exists(request)
    ELSE correction[request.id] # None

RowMatches(request) ==
    IF request.kind = "reserve" THEN SameRequest(request)
    ELSE correction[request.id] = [cell |-> request.cell, quantity |-> request.quantity]

(* The stored row is the answer, or the call ends in an idempotency         *)
(* conflict.                                                                *)
AnswerFromRow(p, request) ==
    answer' = [answer EXCEPT ![p] = IF RowMatches(request) THEN request ELSE None]

(* The key lookup at the start of reserveStock and adjustStock.             *)
LookupKey(p, request) ==
    /\ call[p] = None
    /\ IF HasRow(request)
       THEN AnswerFromRow(p, request) /\ UNCHANGED call
       ELSE /\ call' = [call EXCEPT ![p] = request]
            /\ answer' = [answer EXCEPT ![p] = None]
    /\ UNCHANGED <<stockVars, masterVars, correction, transfer>>

EndCall(p) == call' = [call EXCEPT ![p] = None]

(* MUTANT of reserveStock: no unique key on reservations; a late duplicate  *)
(* reserves again.                                                          *)
reserveStock_NoUniqueKey(p) ==
    LET request == call[p] IN
    /\ request # None /\ request.kind = "reserve"
    /\ Available({request})
    /\ InsertReservations({request})
    /\ answer' = [answer EXCEPT ![p] = request]
    /\ EndCall(p)
    /\ UNCHANGED <<masterVars, correction, transfer>>

(* The rest of reserveStock.  The balance is updated before the row is      *)
(* inserted, so a late duplicate that finds the stock gone is told that it  *)
(* is unavailable; one that does not runs into the unique key, is rolled    *)
(* back and reads the other call's row.                                     *)
reserveStock(p) ==
    LET request == call[p] IN
    /\ request # None /\ request.kind = "reserve"
    /\ \/ /\ ~ Available({request})
          /\ answer' = [answer EXCEPT ![p] = None]
          /\ UNCHANGED stockVars
       \/ /\ Available({request})
          /\ Exists(request)
          /\ AnswerFromRow(p, request)
          /\ UNCHANGED stockVars
       \/ /\ Available({request})
          /\ ~ Exists(request)
          /\ InsertReservations({request})
          /\ answer' = [answer EXCEPT ![p] = request]
    /\ EndCall(p)
    /\ UNCHANGED <<masterVars, correction, transfer>>

(* MUTANT of adjustStock: a correction downwards does not look at the       *)
(* balance.                                                                 *)
adjustStock_Unguarded(p) ==
    LET request == call[p] IN
    /\ request # None /\ request.kind = "adjust" /\ ~ HasRow(request)
    /\ onHand' = [onHand EXCEPT ![request.cell] = @ + request.quantity]
    /\ correction' = [correction EXCEPT
                        ![request.id] = [cell |-> request.cell, quantity |-> request.quantity]]
    /\ answer' = [answer EXCEPT ![p] = request]
    /\ EndCall(p)
    /\ UNCHANGED <<reserved, reservation, receipts, masterVars, transfer>>

(* The rest of adjustStock: the key is looked up again once the balance is  *)
(* locked (and is unique where there was no balance to lock), then a        *)
(* correction downwards has to leave what is reserved.                      *)
adjustStock(p) ==
    LET request == call[p] IN
    /\ request # None /\ request.kind = "adjust"
    /\ \/ /\ HasRow(request)
          /\ AnswerFromRow(p, request)
          /\ UNCHANGED <<onHand, correction>>
       \/ /\ ~ HasRow(request)
          /\ \/ ~ CellExists(request.cell)
             \/ /\ request.quantity < 0
                /\ onHand[request.cell] + request.quantity < reserved[request.cell]
          /\ answer' = [answer EXCEPT ![p] = None]
          /\ UNCHANGED <<onHand, correction>>
       \/ /\ ~ HasRow(request)
          /\ CellExists(request.cell)
          /\ request.quantity > 0 \/
               onHand[request.cell] + request.quantity >= reserved[request.cell]
          /\ onHand' = [onHand EXCEPT ![request.cell] = @ + request.quantity]
          /\ correction' = [correction EXCEPT
               ![request.id] = [cell |-> request.cell, quantity |-> request.quantity]]
          /\ answer' = [answer EXCEPT ![p] = request]
    /\ EndCall(p)
    /\ UNCHANGED <<reserved, reservation, receipts, masterVars, transfer>>

(* The transaction fails or the process dies: nothing was written.          *)
CallLost(p) ==
    /\ call[p] # None
    /\ EndCall(p)
    /\ UNCHANGED <<stockVars, masterVars, correction, transfer, answer>>

-----------------------------------------------------------------------------
(* Distinct warehouses of one legal entity, and items that exist.           *)
createTransfer(t, from, to, lines) ==
    /\ transfer[t] = None
    /\ from # to
    /\ warehouse[from] # None /\ warehouse[to] = warehouse[from]
    /\ \A i \in Items : lines[i] > 0 => i \in items
    /\ transfer' = [transfer EXCEPT
         ![t] = [status |-> "draft", from |-> from, to |-> to, lines |-> lines]]
    /\ UNCHANGED <<stockVars, masterVars, correction, call, answer>>

TransferStatus(t) == IF transfer[t] = None THEN "absent" ELSE transfer[t].status

(* MUTANT of confirmTransfer: goods that are reserved are shipped.          *)
confirmTransfer_Reserved(t) ==
    /\ TransferStatus(t) = "draft"
    /\ \A i \in Items : onHand[<<transfer[t].from, i>>] >= transfer[t].lines[i]
    /\ onHand' = [c \in Cells |->
         IF c[1] = transfer[t].from THEN onHand[c] - transfer[t].lines[c[2]] ELSE onHand[c]]
    /\ transfer' = [transfer EXCEPT ![t].status = "confirmed"]
    /\ UNCHANGED <<reserved, reservation, receipts, masterVars, correction, call, answer>>

(* The source balances are locked, all lines are checked, then all of them  *)
(* leave.  Any other status than draft is returned as it is.                *)
confirmTransfer(t) ==
    /\ TransferStatus(t) = "draft"
    /\ \A i \in Items :
         transfer[t].lines[i] > 0 =>
           onHand[<<transfer[t].from, i>>] - reserved[<<transfer[t].from, i>>]
             >= transfer[t].lines[i]
    /\ onHand' = [c \in Cells |->
         IF c[1] = transfer[t].from THEN onHand[c] - transfer[t].lines[c[2]] ELSE onHand[c]]
    /\ transfer' = [transfer EXCEPT ![t].status = "confirmed"]
    /\ UNCHANGED <<reserved, reservation, receipts, masterVars, correction, call, answer>>

completeTransfer(t) ==
    /\ TransferStatus(t) = "confirmed"
    /\ onHand' = [c \in Cells |->
         IF c[1] = transfer[t].to THEN onHand[c] + transfer[t].lines[c[2]] ELSE onHand[c]]
    /\ transfer' = [transfer EXCEPT ![t].status = "completed"]
    /\ UNCHANGED <<reserved, reservation, receipts, masterVars, correction, call, answer>>

-----------------------------------------------------------------------------
Receive ==
    /\ \E c \in Cells, quantity \in Quantities :
         /\ CellExists(c)
         /\ SumFunction(receipts) + quantity <= ReceiptCap
         /\ receiveStock(OneLine(c, quantity), None)
    /\ UNCHANGED <<masterVars, correction, transfer, call, answer>>

Release(r) ==
    /\ releaseReservations({r})
    /\ UNCHANGED <<masterVars, correction, transfer, call, answer>>

Fulfill(r) ==
    /\ fulfillReservations({r})
    /\ UNCHANGED <<masterVars, correction, transfer, call, answer>>

InventoryNext ==
    \/ \E w \in Warehouses, e \in LegalEntities : createWarehouse(w, e)
    \/ \E i \in Items : createItem(i)
    \/ Receive
    \/ \E r \in Reservations : Release(r) \/ Fulfill(r)
    \/ \E t \in Transfers :
         \/ \E from, to \in Warehouses, lines \in Lines : createTransfer(t, from, to, lines)
         \/ confirmTransfer(t)
         \/ completeTransfer(t)
    \/ \E p \in Processes :
         \/ \E request \in Requests : LookupKey(p, request)
         \/ reserveStock(p)
         \/ adjustStock(p)
         \/ CallLost(p)

InventorySpec == InventoryInit /\ [][InventoryNext]_inventoryVars

-----------------------------------------------------------------------------
(* What the rows of this component say a cell holds: direct receipts, plus  *)
(* corrections, less what was fulfilled, less the transfers that left, plus *)
(* the transfers that arrived.                                              *)
Explained(w, i) ==
    LET c == <<w, i>>
        corrections == {k \in Corrections :
                          correction[k] # None /\ correction[k].cell = c}
        shipped == {t \in Transfers : TransferStatus(t) \in {"confirmed", "completed"}
                                        /\ transfer[t].from = w}
        arrived == {t \in Transfers : TransferStatus(t) = "completed"
                                        /\ transfer[t].to = w}
    IN receipts[c]
         + SumFunction([k \in corrections |-> correction[k].quantity])
         - QuantityAt(WithStatus(Reservations, "fulfilled"), c)
         - SumFunction([t \in shipped |-> transfer[t].lines[i]])
         + SumFunction([t \in arrived |-> transfer[t].lines[i]])
==============================================================================
