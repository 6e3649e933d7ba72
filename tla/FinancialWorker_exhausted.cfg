SPECIFICATION WorkerSpec
CONSTANTS
    p1 = p1
    p2 = p2
    w1 = w1
    Processes = {p1, p2}
    Ops = {o1}
    SourceOf <- MCSourceOf
    AuthorityOf <- MCAuthorityOf
    WorkerIds = {w1}
    WorkerIdOf <- MCWorkerIdOf
    ProcessJobMaxAttempts = 3
    None = None
SYMMETRY WorkerSymmetry
INVARIANTS
    ExhaustedIsManualRecovery
CHECK_DEADLOCK FALSE
