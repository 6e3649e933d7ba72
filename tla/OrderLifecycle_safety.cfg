SPECIFICATION LifecycleSpec
CONSTANTS
    o1 = o1
    o2 = o2
    c1 = c1
    c2 = c2
    k1 = k1
    k2 = k2
    cellA = cellA
    cellB = cellB
    Clients = {c1, c2}
    Orders = {o1, o2}
    Keys = {k1, k2}
    Cells = {cellA, cellB}
    LinesOf <- MCLines
    Reservations <- MCReservations
    ReceiptCap <- MCReceiptCap
    None = None
SYMMETRY LifecycleSymmetry
INVARIANTS
    LifecycleTypeOK
    OneRunPerOrder
    SuccessIsRecorded
    ConsumersSeeOneOutcome
PROPERTIES
    ImplementsOrderContract
    PostsInOpenPeriod
CHECK_DEADLOCK FALSE
