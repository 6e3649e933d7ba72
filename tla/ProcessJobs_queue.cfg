SPECIFICATION JobsLiveSpec
CONSTANTS
    w1 = w1
    Processes = {p1, p2}
    WorkerIds = {w1}
    WorkerIdOf <- MCWorkerIdOf
    Jobs = {j1, j2}
    Tokens = {t1, t2, t3, t4}
    ProcessJobMaxAttempts = 3
    None = None
INVARIANTS
    OneProcessPassesLeaseCheck
    JobsInv
    RetryBudget
PROPERTIES
    OnlyHolderClosesLease
    ClosedRowsStay
    EnqueuedJobsClose
