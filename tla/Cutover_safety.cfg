SPECIFICATION CutoverSpec
CONSTANTS
    p1 = p1
    p2 = p2
    p3 = p3
    x1 = x1
    x2 = x2
    k1 = k1
    a1 = a1
    Processes = {p1, p2, p3}
    AuthorityOf <- MCAuthorityOf
    Accounts = {a1}
    Ops = {o1}
    Artifacts = {x1, x2}
    Provenances = {w1}
    RecoveryWatermarks = {r1}
    Keys = {k1}
    None = None
SYMMETRY CutoverSymmetry
INVARIANTS
    CutoverTypeOK
    ApprovalIsBacked
    
PROPERTIES
    RouteHasAccounts
    
CHECK_DEADLOCK FALSE
