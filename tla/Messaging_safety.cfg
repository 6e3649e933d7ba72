SPECIFICATION MessagingSpec
CONSTANTS
    h1 = h1
    h2 = h2
    c1 = c1
    c2 = c2
    EventIds = {e1, e2}
    EventKeys = {k1, k2}
    Bodies = {b1, b2}
    Consumers = {c1, c2}
    Handlers = {h1, h2}
    None = None
SYMMETRY MessagingSymmetry
INVARIANTS
    MessagingTypeOK
    EffectIffReceipt
    ToldIsApplied
    AcceptedIsStored
CHECK_DEADLOCK FALSE
