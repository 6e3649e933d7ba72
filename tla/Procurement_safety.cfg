SPECIFICATION ProcurementSpec
CONSTANTS
    w1 = w1
    w2 = w2
    p1 = p1
    p2 = p2
    i1 = i1
    e1 = e1
    e2 = e2
    s1 = s1
    l1 = l1
    r1 = r1
    r2 = r2
    Cells <- MCCells
    LineItem <- MCLineItem
    Relationships <- MCRelationships
    Reservations = {r1, r2}
    Processes = {p1, p2}
    Warehouses = {w1, w2}
    Items = {i1}
    LegalEntities = {e1, e2}
    Corrections = {k1}
    Transfers = {t1}
    Orders = {o1}
    OrderLines = {l1}
    OrderedQuantities = {1, 2}
    ConfirmationKeys = {c1}
    ReceiptKeys = {g1, g2}
    Quantities = {1}
    ReceiptCap = 1
    None = None
SYMMETRY ProcurementSymmetry
INVARIANTS
    ProcurementTypeOK
    ReservedIsBacked
    BalanceExplained
    AnswerIsStored
    ReceiptsMatchOrder
PROPERTIES
    ReservationEndsOnce
CHECK_DEADLOCK FALSE
