----------------------------- MODULE ProcessJobs -----------------------------
(***************************************************************************)
(* The durable job queue of packages/process/src/service.ts: the rows of    *)
(* process.jobs and the five calls that change them (enqueue, claimJob,     *)
(* renewJob, completeJob, failJob).  Every call is one database transaction *)
(* that locks the row, so it is one action.                                 *)
(*                                                                         *)
(* A process is a running worker loop.  It remembers the job and the lease  *)
(* token its claim returned (held) and presents them later, when the row    *)
(* may be somebody else's.  Two processes may have been given the same      *)
(* WORKER_ID, or a new process may start while its predecessor still has a  *)
(* call in flight: WorkerIdOf need not be injective.                        *)
(*                                                                         *)
(* Every process compares the row's deadline (scheduledAt of a pending row, *)
(* leaseUntil of a leased one) with its OWN clock.  The model keeps, per    *)
(* row, the set of processes whose clock has passed the current deadline    *)
(* (elapsed): clocks may disagree by any amount, each only moves forward.   *)
(* leaseUntil is later than the scheduledAt that let the row be claimed, so *)
(* one set serves both comparisons of claimJob.                             *)
(***************************************************************************)
EXTENDS Naturals, FiniteSets

CONSTANTS
    Processes,            \* running worker loops
    WorkerIds,            \* values of WORKER_ID
    WorkerIdOf,           \* the WORKER_ID a process was started with
    Jobs,                 \* (job type, idempotency key) pairs of one tenant
    Tokens,               \* lease tokens (crypto.randomUUID)
    ProcessJobMaxAttempts,\* 3 in the code
    None                  \* SQL NULL, and "nothing held"

ASSUME JobConstants ==
    /\ WorkerIdOf \in [Processes -> WorkerIds]
    /\ ProcessJobMaxAttempts \in Nat \ {0}
    /\ None \notin WorkerIds \cup Tokens \cup Jobs

VARIABLES
    status,     \* job -> its status column, "absent" when there is no row
    owner,      \* job -> lease_owner
    token,      \* job -> lease_token
    attempts,   \* job -> attempts, saturated at AttemptCap
    elapsed,    \* job -> the processes whose clock passed its deadline
    heldJob,    \* process -> the job its last claim returned
    heldToken   \* process -> the lease token its last claim returned

rowVars == <<status, owner, token, attempts, elapsed>>
heldVars == <<heldJob, heldToken>>
jobVars == <<status, owner, token, attempts, elapsed, heldJob, heldToken>>

JobStatus == {"pending", "leased", "completed", "failed", "manual_recovery"}

ClosedStatus == {"completed", "failed", "manual_recovery"}

(* attempts is only ever compared with ProcessJobMaxAttempts; every value   *)
(* above it behaves alike, so counting stops one above it.                  *)
AttemptCap == ProcessJobMaxAttempts + 1

JobsTypeOK ==
    /\ status \in [Jobs -> JobStatus \cup {"absent"}]
    /\ owner \in [Jobs -> WorkerIds \cup {None}]
    /\ token \in [Jobs -> Tokens \cup {None}]
    /\ attempts \in [Jobs -> 0..AttemptCap]
    /\ elapsed \in [Jobs -> SUBSET Processes]
    /\ heldJob \in [Processes -> Jobs \cup {None}]
    /\ heldToken \in [Processes -> Tokens \cup {None}]

JobsInit ==
    /\ status = [j \in Jobs |-> "absent"]
    /\ owner = [j \in Jobs |-> None]
    /\ token = [j \in Jobs |-> None]
    /\ attempts = [j \in Jobs |-> 0]
    /\ elapsed = [j \in Jobs |-> {}]
    /\ heldJob = [p \in Processes |-> None]
    /\ heldToken = [p \in Processes |-> None]

-----------------------------------------------------------------------------
(* Tokens somebody could still present or be compared with.  A UUID is      *)
(* fresh: it differs from all of them.                                      *)
LiveTokens ==
    {token[j] : j \in Jobs} \cup {heldToken[p] : p \in Processes}

(* MUTANT of enqueue: an enqueue revives the row that ended in              *)
(* manual_recovery.                                                         *)
enqueue_Revives(j) ==
    /\ status' = [status EXCEPT
                    ![j] = IF @ \in {"absent", "manual_recovery"} THEN "pending" ELSE @]
    /\ UNCHANGED <<owner, token, attempts, elapsed, heldJob, heldToken>>

(* Insert a pending row, or find the row an earlier enqueue left, whatever  *)
(* its status, and return it as it is.                                      *)
enqueue(j) ==
    /\ status' = [status EXCEPT ![j] = IF @ = "absent" THEN "pending" ELSE @]
    /\ UNCHANGED <<owner, token, attempts, elapsed, heldJob, heldToken>>

(* MUTANT of Claimable: only pending rows are offered.                      *)
Claimable_PendingOnly(p, j) == status[j] = "pending" /\ p \in elapsed[j]

(* The WHERE clause of the claim: due, and pending or left by a lease that  *)
(* has run out, both by the clock of the claiming process.                  *)
Claimable(p, j) ==
    /\ status[j] \in {"pending", "leased"}
    /\ p \in elapsed[j]

(* MUTANT of claimJob: a row left by a lease that ran out keeps its token.  *)
claimJob_KeepsToken(p, j, t) ==
    LET leaseToken == IF token[j] = None THEN t ELSE token[j] IN
    /\ Claimable(p, j)
    /\ status' = [status EXCEPT ![j] = "leased"]
    /\ owner' = [owner EXCEPT ![j] = WorkerIdOf[p]]
    /\ token' = [token EXCEPT ![j] = leaseToken]
    /\ attempts' = [attempts EXCEPT ![j] = IF @ < AttemptCap THEN @ + 1 ELSE @]
    /\ elapsed' = [elapsed EXCEPT ![j] = {}]
    /\ heldJob' = [heldJob EXCEPT ![p] = j]
    /\ heldToken' = [heldToken EXCEPT ![p] = leaseToken]

(* SKIP LOCKED passes over rows other transactions hold, so a claim may     *)
(* return any claimable row: priority orders the choice, it excludes none.  *)
(* attempts counts the claim and does not restrict it.                      *)
claimJob(p, j, t) ==
    /\ Claimable(p, j)
    /\ status' = [status EXCEPT ![j] = "leased"]
    /\ owner' = [owner EXCEPT ![j] = WorkerIdOf[p]]
    /\ token' = [token EXCEPT ![j] = t]
    /\ attempts' = [attempts EXCEPT ![j] = IF @ < AttemptCap THEN @ + 1 ELSE @]
    /\ elapsed' = [elapsed EXCEPT ![j] = {}]
    /\ heldJob' = [heldJob EXCEPT ![p] = j]
    /\ heldToken' = [heldToken EXCEPT ![p] = t]

(* MUTANT of LeaseValid: lease_owner is compared, lease_token is not.       *)
LeaseValid_OwnerOnly(p, j) ==
    status[j] = "leased" /\ p \notin elapsed[j] /\ owner[j] = WorkerIdOf[p]

(* MUTANT of LeaseValid: leaseUntil is not compared with the clock.         *)
LeaseValid_NoExpiry(p, j) ==
    /\ status[j] = "leased"
    /\ owner[j] = WorkerIdOf[p]
    /\ token[j] = heldToken[p]

(* The check renewJob, completeJob and failJob all make on the locked row   *)
(* before they write; when it fails they return ProcessJobLeaseLost.        *)
LeaseValid(p, j) ==
    /\ status[j] = "leased"
    /\ p \notin elapsed[j]
    /\ owner[j] = WorkerIdOf[p]
    /\ token[j] = heldToken[p]

renewJob(p) ==
    LET j == heldJob[p] IN
    /\ LeaseValid(p, j)
    /\ elapsed' = [elapsed EXCEPT ![j] = {}]
    /\ UNCHANGED <<status, owner, token, attempts, heldVars>>

(* Leaving the lease clears all of its columns.  The old deadline is gone:  *)
(* a retry has a new scheduledAt, which no clock need have passed yet, and  *)
(* a closed row has none.                                                   *)
CloseLease(p, j, newStatus) ==
    /\ status' = [status EXCEPT ![j] = newStatus]
    /\ owner' = [owner EXCEPT ![j] = None]
    /\ token' = [token EXCEPT ![j] = None]
    /\ elapsed' = [elapsed EXCEPT ![j] = {}]
    /\ heldJob' = [heldJob EXCEPT ![p] = None]
    /\ heldToken' = [heldToken EXCEPT ![p] = None]
    /\ UNCHANGED attempts

completeJob(p) ==
    LET j == heldJob[p] IN
    /\ LeaseValid(p, j)
    /\ CloseLease(p, j, "completed")

(* MUTANT of FailureStatus: one attempt too many before exhaustion.         *)
FailureStatus_OffByOne(j, retryAt) ==
    IF attempts[j] > ProcessJobMaxAttempts THEN "manual_recovery"
    ELSE IF retryAt THEN "pending" ELSE "failed"

(* What failJob writes: attempts first, then the caller's retryAt.          *)
FailureStatus(j, retryAt) ==
    IF attempts[j] >= ProcessJobMaxAttempts THEN "manual_recovery"
    ELSE IF retryAt THEN "pending" ELSE "failed"

(* retryAt is TRUE when the caller passed a date and FALSE for null.        *)
failJob(p, retryAt) ==
    LET j == heldJob[p] IN
    /\ LeaseValid(p, j)
    /\ CloseLease(p, j, FailureStatus(j, retryAt))

(* ProcessJobLeaseLost is not caught by the worker loop: the process ends,  *)
(* and the row is left as it is.                                            *)
leaseLost(p) ==
    /\ heldJob[p] # None
    /\ ~ LeaseValid(p, heldJob[p])
    /\ heldJob' = [heldJob EXCEPT ![p] = None]
    /\ heldToken' = [heldToken EXCEPT ![p] = None]
    /\ UNCHANGED rowVars

(* A process that ends for any other reason forgets its token too.          *)
Crash(p) ==
    /\ heldJob[p] # None
    /\ heldJob' = [heldJob EXCEPT ![p] = None]
    /\ heldToken' = [heldToken EXCEPT ![p] = None]
    /\ UNCHANGED rowVars

(* The clock of one process passes the deadline of a row.                   *)
ClockPasses(p, j) ==
    /\ status[j] \in {"pending", "leased"}
    /\ p \notin elapsed[j]
    /\ elapsed' = [elapsed EXCEPT ![j] = @ \cup {p}]
    /\ UNCHANGED <<status, owner, token, attempts, heldVars>>

-----------------------------------------------------------------------------
(* A worker loop runs one job at a time: it claims when it holds nothing.   *)
Enqueue == \E j \in Jobs : enqueue(j)

Claim(p) ==
    /\ heldJob[p] = None
    /\ \E j \in Jobs, t \in Tokens \ LiveTokens : claimJob(p, j, t)

Renew(p) == heldJob[p] # None /\ renewJob(p)

Complete(p) == heldJob[p] # None /\ completeJob(p)

Fail(p) == heldJob[p] # None /\ \E retryAt \in BOOLEAN : failJob(p, retryAt)

JobsNext ==
    \/ Enqueue
    \/ \E p \in Processes :
         \/ Claim(p)
         \/ Renew(p)
         \/ Complete(p)
         \/ Fail(p)
         \/ leaseLost(p)
         \/ Crash(p)
         \/ \E j \in Jobs : ClockPasses(p, j)

JobsSpec == JobsInit /\ [][JobsNext]_jobVars

(* Clocks advance and idle workers keep polling.  A process that holds a    *)
(* lease which has not run out may crash or be slow, but a job cannot be    *)
(* claimed for ever without one of its holders getting to the end of it:    *)
(* strong fairness of closing a lease.  (A job that ends every process that *)
(* runs it breaks this assumption: claimJob never looks at attempts.)       *)
JobsFairness ==
    /\ \A p \in Processes :
         /\ WF_jobVars(Claim(p))
         /\ WF_jobVars(leaseLost(p))
         /\ \A j \in Jobs : WF_jobVars(ClockPasses(p, j))
    /\ \A j \in Jobs :
         SF_jobVars(\E p \in Processes :
                      heldJob[p] = j /\ (Complete(p) \/ Fail(p)))

JobsLiveSpec == JobsSpec /\ JobsFairness

-----------------------------------------------------------------------------
(* The lease columns are filled exactly while the row is leased, whoever    *)
(* closes the lease and however: claimJob, completeJob and failJob keep the *)
(* CHECK constraint process_jobs_lease_state_check.                         *)
LeaseColumnsMatchStatus ==
    \A j \in Jobs :
      /\ status[j] = "leased" <=> token[j] # None
      /\ status[j] = "leased" <=> owner[j] # None

(* A token names one claim: no two processes hold the token of one row, so  *)
(* of all the processes that ever claimed it, even under one WORKER_ID and  *)
(* with clocks that disagree, at most one still passes the lease check of   *)
(* renewJob, completeJob and failJob.                                       *)
OneProcessPassesLeaseCheck ==
    \A p, q \in Processes :
      (/\ heldJob[p] # None
       /\ heldJob[p] = heldJob[q]
       /\ LeaseValid(p, heldJob[p])
       /\ LeaseValid(q, heldJob[q])) => p = q

(* A token stands for one claim: a process has a token exactly while it     *)
(* works on a job, no two processes have the same one, and a token that is  *)
(* on a row is, in a process's hands, a token for that row.                 *)
TokenNamesClaim ==
    /\ \A p \in Processes : heldJob[p] = None <=> heldToken[p] = None
    /\ \A p, q \in Processes :
         (heldToken[p] # None /\ heldToken[p] = heldToken[q]) => p = q
    /\ \A p \in Processes, j \in Jobs :
         (heldToken[p] # None /\ heldToken[p] = token[j]) => heldJob[p] = j

(* The retry budget.  A row waiting for a retry has attempts left, a row in *)
(* manual_recovery has used all of them, and a row that failed for good had *)
(* some left: failJob tests exhaustion before it looks at retryAt.          *)
RetryBudget ==
    \A j \in Jobs :
      /\ status[j] = "pending" => attempts[j] < ProcessJobMaxAttempts
      /\ status[j] = "manual_recovery" => attempts[j] >= ProcessJobMaxAttempts
      /\ status[j] = "failed" => attempts[j] < ProcessJobMaxAttempts

(* The inductive invariant behind the theorems of ProcessJobs_proofs: the   *)
(* properties above and that a row nobody inserted has no attempts.         *)
JobsInv ==
    /\ JobsTypeOK
    /\ LeaseColumnsMatchStatus
    /\ TokenNamesClaim
    /\ RetryBudget
    /\ \A j \in Jobs : status[j] = "absent" => attempts[j] = 0

(* Fencing, as a property of steps.  While a row is leased, a step that     *)
(* ends the lease without starting another is taken by the process whose    *)
(* claim wrote the row's token, while its own clock says the lease runs.    *)
(* A late worker never closes its successor's lease.                        *)
OnlyHolderClosesLease ==
    [][\A j \in Jobs :
         (status[j] = "leased" /\ status'[j] # "leased") =>
           \E p \in Processes \ elapsed[j] :
             /\ heldJob[p] = j /\ heldToken[p] = token[j]
             /\ heldJob'[p] = None]_jobVars

(* A closed row is final: no enqueue of the same idempotency key, late call *)
(* or clock reopens it or changes any of its columns.                       *)
ClosedRowsStay ==
    [][\A j \in Jobs : status[j] \in ClosedStatus =>
         /\ status'[j] = status[j]
         /\ attempts'[j] = attempts[j]
         /\ token'[j] = token[j]]_jobVars

(* Every job that was enqueued is closed in the end, although processes     *)
(* crash while holding it and leases run out: an abandoned lease becomes    *)
(* claimable again, and three failures close the row.                       *)
EnqueuedJobsClose ==
    \A j \in Jobs : (status[j] = "pending") ~> (status[j] \in ClosedStatus)
=============================================================================
