--------------------------- MODULE FinancialWorker ---------------------------
(***************************************************************************)
(* The financial worker (apps/worker/runner.ts) over the job queue and the  *)
(* operation protocol: runFinancialOperationOnce claims a job, runs submit  *)
(* for the operation in its payload and completes or fails the job by what  *)
(* submit returned.  The queue is ProcessJobs (J), the protocol             *)
(* FinancialOperations; every jobs.enqueue of the protocol is the enqueue   *)
(* of the queue, in the same transaction.                                   *)
(***************************************************************************)
EXTENDS FinancialOperations

CONSTANTS WorkerIds, WorkerIdOf, ProcessJobMaxAttempts

VARIABLES status, owner, token, attempts, elapsed, heldJob, heldToken

(* A job is (operation, job type): the idempotency key of a submit job is   *)
(* the operation id, that of a reconcile job is operation id:reconcile.     *)
Jobs == Ops \X {"submit", "reconcile"}

(* A process holds one token at a time and a new claim replaces it, so the  *)
(* token of a claim can be named after the process that made it: two equal  *)
(* names on a row and in a hand always come from one claim.                 *)
J == INSTANCE ProcessJobs WITH Tokens <- Processes

queueVars == <<status, owner, token, attempts, elapsed, heldJob, heldToken>>
workerVars == <<opVars, queueVars>>

WorkerInit ==
    /\ OpsInit
    /\ cutover \in {AuthorityOf[p] : p \in Processes}
    /\ J!JobsInit

(* MUTANT of EnqueueWanted: the row has the wrong job type.                 *)
EnqueueWanted_OtherType ==
    IF wanted' = wanted
    THEN UNCHANGED queueVars
    ELSE \E j \in wanted' \ wanted, jobType \in {"submit", "reconcile"} :
           jobType # j[2] /\ J!enqueue(<<j[1], jobType>>)

(* The rows a transaction of the protocol inserts.                          *)
EnqueueWanted ==
    IF wanted' = wanted
    THEN UNCHANGED queueVars
    ELSE \E j \in wanted' \ wanted : J!enqueue(j)

(* claimJob for a submit job, and for a reconcile job when there is none    *)
(* (rows locked by others are skipped, so either may be found first).  The  *)
(* call begins; a process that dies between the two dies at "begin".        *)
ClaimAndSubmit(p) ==
    /\ heldJob[p] = None
    /\ \E j \in Jobs : J!claimJob(p, j, p) /\ submit(p, j[1], j[2])

RunSubmit(p) == (SubmitStep(p) \/ Fault(p)) /\ EnqueueWanted

(* What the runner does with the result.  unknown completes the submit job, *)
(* whose reconcile job takes over, and fails the reconcile job.  Every      *)
(* failure and every status that is not settled fails the job, for a retry. *)
Completes(jobType, value) ==
    \/ value \in {"reconciled", "rejected", "manual_recovery"}
    \/ value = "unknown" /\ jobType = "submit"

FinishJob(p) ==
    /\ pc[p] = "done"
    /\ IF Completes(heldJob[p][2], result[p]) THEN J!completeJob(p) ELSE J!failJob(p, TRUE)
    /\ TakeResult(p)

(* The lease ran out meanwhile: the loop ends with ProcessJobLeaseLost and  *)
(* the supervisor starts the process again.                                 *)
LoseLease(p) ==
    /\ pc[p] = "done"
    /\ J!leaseLost(p)
    /\ TakeResult(p)

WorkerDies(p) ==
    /\ J!Crash(p)
    /\ Die(p) \/ TakeResult(p)

ClockTick(p, j) == J!ClockPasses(p, j) /\ UNCHANGED opVars

(* Posting stays enabled, the period open and the engine the same: a        *)
(* blocked submission returns to the runner like a failed one.              *)
WorkerEnvironment ==
    /\ \/ \E p \in Processes, o \in Ops : createJournalIntent(p, o)
       \/ \E o \in Ops : LateExecution(o)
    /\ EnqueueWanted

WorkerNext ==
    \/ WorkerEnvironment
    \/ \E p \in Processes :
         \/ ClaimAndSubmit(p)
         \/ RunSubmit(p)
         \/ FinishJob(p)
         \/ LoseLease(p)
         \/ WorkerDies(p)
         \/ \E j \in Jobs : ClockTick(p, j)

WorkerSpec == WorkerInit /\ [][WorkerNext]_workerVars

-----------------------------------------------------------------------------
(* No operation is forgotten: while it is not settled one of its jobs can   *)
(* still be claimed or is being worked on, unless that job ran out of       *)
(* attempts.  The submit job is only completed for an unknown outcome when  *)
(* the reconcile job exists, and no late worker completes a job under an    *)
(* operation that is still open.                                            *)
OpenOperationHasJob ==
    \A o \in Ops : opStatus[o] \in OpStatus \ Terminal =>
      \E jobType \in {"submit", "reconcile"} :
        status[<<o, jobType>>] \in {"pending", "leased", "manual_recovery"}

(* The worker over the queue implements the protocol: through all the       *)
(* claims, lost leases and crashes it only ever runs submit as the protocol *)
(* allows, for jobs some transaction asked for.  Every safety property of   *)
(* FinancialOperations holds of the worker.                                 *)
WorkerImplementsOperations == OpsSpec

(* docs/operations/tigerbeetle-recovery.md, points C, E and L: an operation *)
(* whose retry budget is exhausted is in manual recovery.                   *)
ExhaustedIsManualRecovery ==
    \A o \in Ops :
      (/\ \E jobType \in {"submit", "reconcile"} : status[<<o, jobType>>] = "manual_recovery"
       /\ \A jobType \in {"submit", "reconcile"} :
            status[<<o, jobType>>] \notin {"pending", "leased"})
      => opStatus[o] \in Terminal
=============================================================================
