SPECIFICATION OpsLiveSpec
CONSTANTS
    p1 = p1
    p2 = p2
    p3 = p3
    p4 = p4
    o1 = o1
    o2 = o2
    o3 = o3
    Processes = {p1}
    Ops = {o1, o2, o3}
    SourceOf <- MCSourceOf
    AuthorityOf <- AllTigerBeetle
    None = None
PROPERTIES
    ClosedPeriodIsSealed
    ImplementsSettlement
    
