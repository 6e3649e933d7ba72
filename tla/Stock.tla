-------------------------------- MODULE Stock --------------------------------
(***************************************************************************)
(* Balances and reservations of packages/inventory/src/service.ts, and the  *)
(* statements that change them.  A cell is a (warehouse, item) pair with a  *)
(* row in stock_balances; a cell without a row behaves like an empty one.   *)
(*                                                                         *)
(* The check constraints of stock_balances (reserved <= on_hand, neither    *)
(* negative) are not guards here: ReservedIsBacked shows that the           *)
(* statements never run into them.                                          *)
(*                                                                         *)
(* The operations take sets of reservations: an API call passes one, a      *)
(* workflow passes all the lines of an order in one transaction.            *)
(***************************************************************************)
EXTENDS Integers, FiniteSetsExt

CONSTANTS
    Cells,          \* (warehouse, item) pairs
    Reservations,   \* reservations, by idempotency key
    None

(* A step, and so any finite sequence of calls, names finitely many keys.   *)
ASSUME StockConstants == IsFiniteSet(Reservations)

VARIABLES
    onHand,         \* cell -> stock_balances.on_hand
    reserved,       \* cell -> stock_balances.reserved
    reservation,    \* reservation -> its row
    receipts        \* cell -> sum of receiveStock's movements without a reference

stockVars == <<onHand, reserved, reservation, receipts>>

NoRow == [status |-> "absent", cell |-> None, quantity |-> 0]

StockInit ==
    /\ onHand = [c \in Cells |-> 0]
    /\ reserved = [c \in Cells |-> 0]
    /\ reservation = [r \in Reservations |-> NoRow]
    /\ receipts = [c \in Cells |-> 0]

StockTypeOK ==
    /\ onHand \in [Cells -> Nat]
    /\ reserved \in [Cells -> Nat]
    /\ reservation \in
         [Reservations ->
            {NoRow} \cup [status : {"active", "released", "fulfilled"},
                          cell : Cells, quantity : Nat \ {0}]]
    /\ receipts \in [Cells -> Nat]

(* Rows with a given status.                                                *)
WithStatus(R, st) == {r \in R : reservation[r].status = st}

(* What a set of rows amounts to at a cell.                                 *)
QuantityAt(R, c) ==
    SumFunction([r \in {x \in R : reservation[x].cell = c} |-> reservation[r].quantity])

-----------------------------------------------------------------------------
(* The upsert of the balance and its movement; an API call brings goods to  *)
(* one cell, a purchase receipt all its lines in one transaction, each with *)
(* the receipt as reference.                                                *)
receiveStock(goods, reference) ==
    /\ onHand' = [c \in Cells |-> onHand[c] + goods[c]]
    /\ receipts' = IF reference # None THEN receipts
                   ELSE [c \in Cells |-> receipts[c] + goods[c]]
    /\ UNCHANGED <<reserved, reservation>>

(* Goods for one cell only.                                                 *)
OneLine(c, quantity) == [d \in Cells |-> IF d = c THEN quantity ELSE 0]

(* A request is [id, cell, quantity].  A row with its key answers it when   *)
(* it was made for the same cell and quantity, whatever its status is now.  *)
Exists(request) == reservation[request.id].status # "absent"

SameRequest(request) ==
    /\ reservation[request.id].cell = request.cell
    /\ reservation[request.id].quantity = request.quantity

Requested(requests, c) ==
    SumFunction([q \in {x \in requests : x.cell = c} |-> q.quantity])

(* The WHERE clause of the balance update: on_hand - reserved >= quantity.  *)
Available(requests) ==
    \A c \in Cells : Requested(requests, c) <= onHand[c] - reserved[c]

(* The balance update and the insert, for requests without a row.           *)
InsertReservations(requests) ==
    /\ reserved' = [c \in Cells |-> reserved[c] + Requested(requests, c)]
    /\ reservation' =
         [r \in Reservations |->
            IF \E q \in requests : q.id = r
            THEN LET q == CHOOSE q \in requests : q.id = r IN
                 [status |-> "active", cell |-> q.cell, quantity |-> q.quantity]
            ELSE reservation[r]]
    /\ UNCHANGED <<onHand, receipts>>

SetStatus(R, st) ==
    reservation' = [r \in Reservations |->
                      IF r \in R THEN [reservation[r] EXCEPT !.status = st]
                      ELSE reservation[r]]

(* MUTANT of CanClose: rows that have ended, either way, are skipped.       *)
CanClose_AnyEnd(R, st) ==
    /\ \A r \in R : reservation[r].status # "absent"
    /\ \A c \in Cells : QuantityAt(WithStatus(R, "active"), c) <= reserved[c]

(* A row that is already in the wanted status is returned as it is; one in  *)
(* the other final status, and one that does not exist, fail the call.      *)
CanClose(R, st) ==
    /\ \A r \in R : reservation[r].status \in {"active", st}
    /\ \A c \in Cells : QuantityAt(WithStatus(R, "active"), c) <= reserved[c]

releaseReservations(R) ==
    LET open == WithStatus(R, "active") IN
    /\ CanClose(R, "released")
    /\ reserved' = [c \in Cells |-> reserved[c] - QuantityAt(open, c)]
    /\ SetStatus(open, "released")
    /\ UNCHANGED <<onHand, receipts>>

CanFulfill(R) ==
    /\ CanClose(R, "fulfilled")
    /\ \A c \in Cells : QuantityAt(WithStatus(R, "active"), c) <= onHand[c]

fulfillReservations(R) ==
    LET open == WithStatus(R, "active") IN
    /\ CanFulfill(R)
    /\ onHand' = [c \in Cells |-> onHand[c] - QuantityAt(open, c)]
    /\ reserved' = [c \in Cells |-> reserved[c] - QuantityAt(open, c)]
    /\ SetStatus(open, "fulfilled")
    /\ UNCHANGED receipts

-----------------------------------------------------------------------------
(* The reserved column is the sum of the active reservations of the cell,   *)
(* and it is covered by goods on hand: no interleaving of reservations,     *)
(* releases, fulfilments, corrections and transfers promises one piece      *)
(* twice or loses a promise.                                                *)
ReservedIsBacked ==
    \A c \in Cells :
      /\ reserved[c] = QuantityAt(WithStatus(Reservations, "active"), c)
      /\ reserved[c] <= onHand[c]

(* A reservation ends once: a released one is never fulfilled, a fulfilled  *)
(* one never released, and neither is reserved again under the same key.    *)
ReservationEndsOnce ==
    [][\A r \in Reservations :
         /\ reservation[r].status \in {"released", "fulfilled"} =>
              reservation'[r] = reservation[r]
         /\ reservation[r].status = "active" =>
              /\ reservation'[r].cell = reservation[r].cell
              /\ reservation'[r].quantity = reservation[r].quantity]_stockVars
==============================================================================
