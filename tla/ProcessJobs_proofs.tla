-------------------------- MODULE ProcessJobs_proofs --------------------------
(***************************************************************************)
(* Proofs about the job queue for any number of processes, jobs and tokens, *)
(* any assignment of WORKER_IDs and any clock skew.                         *)
(***************************************************************************)
EXTENDS ProcessJobs, TLAPS

USE JobConstants

(* The queue starts empty, with nobody holding anything.                    *)
LEMMA InitInv == JobsInit => JobsInv
  BY DEF JobsInit, JobsInv, JobsTypeOK, LeaseColumnsMatchStatus, TokenNamesClaim,
         RetryBudget, AttemptCap, JobStatus

(* enqueue keeps the invariant: a new row has all its attempts.             *)
LEMMA EnqueueInv ==
  ASSUME JobsInv, NEW j \in Jobs, enqueue(j)
  PROVE  JobsInv'
  BY DEF enqueue, JobsInv, JobsTypeOK, LeaseColumnsMatchStatus, TokenNamesClaim,
         RetryBudget, AttemptCap, JobStatus

(* A claim with a fresh token keeps the invariant: the token is on one row  *)
(* and in one hand, and every older token of the row is on no row any more. *)
LEMMA ClaimInv ==
  ASSUME JobsInv, NEW p \in Processes, NEW j \in Jobs,
         NEW t \in Tokens \ LiveTokens, claimJob(p, j, t)
  PROVE  JobsInv'
<1> USE DEF claimJob, JobsInv
<1>1. t # None /\ WorkerIdOf[p] # None /\ j # None
  OBVIOUS
<1>2. \A k \in Jobs : token[k] # t
  BY DEF LiveTokens
<1>3. \A q \in Processes : heldToken[q] # t
  BY DEF LiveTokens
<1>4. JobsTypeOK'
  BY DEF JobsTypeOK, JobStatus, AttemptCap
<1>5. LeaseColumnsMatchStatus'
  BY <1>1 DEF JobsTypeOK, LeaseColumnsMatchStatus
<1>6. TokenNamesClaim'
  BY <1>1, <1>2, <1>3 DEF JobsTypeOK, TokenNamesClaim
<1>7. RetryBudget'
  BY DEF JobsTypeOK, RetryBudget
<1>8. (\A k \in Jobs : status[k] = "absent" => attempts[k] = 0)'
  BY DEF JobsTypeOK, Claimable
<1> QED
  BY <1>4, <1>5, <1>6, <1>7, <1>8

(* Closing the lease a process holds keeps the invariant, provided the new  *)
(* status agrees with the attempts used.                                    *)
LEMMA CloseInv ==
  ASSUME JobsInv, NEW p \in Processes, heldJob[p] # None,
         NEW newStatus \in {"pending", "completed", "failed", "manual_recovery"},
         newStatus \in {"pending", "failed"} =>
           attempts[heldJob[p]] < ProcessJobMaxAttempts,
         newStatus = "manual_recovery" =>
           attempts[heldJob[p]] >= ProcessJobMaxAttempts,
         CloseLease(p, heldJob[p], newStatus)
  PROVE  JobsInv'
<1> USE DEF CloseLease, JobsInv
<1>1. heldJob[p] \in Jobs
  BY DEF JobsTypeOK
<1>2. JobsTypeOK'
  BY <1>1 DEF JobsTypeOK, JobStatus
<1>3. LeaseColumnsMatchStatus'
  BY <1>1 DEF JobsTypeOK, LeaseColumnsMatchStatus
<1>4. TokenNamesClaim'
  BY <1>1 DEF JobsTypeOK, TokenNamesClaim
<1>5. RetryBudget'
  BY <1>1 DEF JobsTypeOK, RetryBudget
<1>6. (\A k \in Jobs : status[k] = "absent" => attempts[k] = 0)'
  BY <1>1 DEF JobsTypeOK
<1> QED
  BY <1>2, <1>3, <1>4, <1>5, <1>6

(* Losing a token, by a lost lease or by a crash, keeps the invariant.      *)
LEMMA ForgetInv ==
  ASSUME JobsInv, NEW p \in Processes,
         heldJob' = [heldJob EXCEPT ![p] = None],
         heldToken' = [heldToken EXCEPT ![p] = None],
         UNCHANGED rowVars
  PROVE  JobsInv'
  BY DEF JobsInv, JobsTypeOK, LeaseColumnsMatchStatus, TokenNamesClaim, RetryBudget,
         rowVars, AttemptCap

(* Every step of the queue keeps the invariant.                             *)
LEMMA NextInv ==
  ASSUME JobsInv, [JobsNext]_jobVars
  PROVE  JobsInv'
<1>1. CASE Enqueue
  BY <1>1, EnqueueInv DEF Enqueue
<1>2. ASSUME NEW p \in Processes, Claim(p) PROVE JobsInv'
  BY <1>2, ClaimInv DEF Claim
<1>3. ASSUME NEW p \in Processes, Renew(p) PROVE JobsInv'
  BY <1>3 DEF Renew, renewJob, heldVars, JobsInv, JobsTypeOK, LeaseColumnsMatchStatus,
              TokenNamesClaim, RetryBudget, AttemptCap
<1>4. ASSUME NEW p \in Processes, Complete(p) PROVE JobsInv'
  <2>1. heldJob[p] # None /\ CloseLease(p, heldJob[p], "completed")
    BY <1>4 DEF Complete, completeJob
  <2> QED
    BY <2>1, CloseInv
<1>5. ASSUME NEW p \in Processes, Fail(p) PROVE JobsInv'
  <2>1. PICK retryAt \in BOOLEAN :
           heldJob[p] # None /\ CloseLease(p, heldJob[p], FailureStatus(heldJob[p], retryAt))
    BY <1>5 DEF Fail, failJob
  <2>2. attempts[heldJob[p]] \in Nat /\ ProcessJobMaxAttempts \in Nat
    BY <2>1 DEF JobsInv, JobsTypeOK, AttemptCap
  <2> DEFINE newStatus == FailureStatus(heldJob[p], retryAt)
  <2>3. /\ newStatus \in {"pending", "completed", "failed", "manual_recovery"}
        /\ newStatus \in {"pending", "failed"} =>
             attempts[heldJob[p]] < ProcessJobMaxAttempts
        /\ newStatus = "manual_recovery" =>
             attempts[heldJob[p]] >= ProcessJobMaxAttempts
    <3>1. CASE attempts[heldJob[p]] >= ProcessJobMaxAttempts
      BY <2>2, <3>1 DEF FailureStatus
    <3>2. CASE attempts[heldJob[p]] < ProcessJobMaxAttempts
      BY <2>2, <3>2 DEF FailureStatus
    <3> QED
      BY <2>2, <3>1, <3>2
  <2> HIDE DEF newStatus
  <2> QED
    BY <2>1, <2>3, CloseInv DEF newStatus
<1>6. ASSUME NEW p \in Processes, leaseLost(p) PROVE JobsInv'
  BY <1>6, ForgetInv DEF leaseLost
<1>7. ASSUME NEW p \in Processes, Crash(p) PROVE JobsInv'
  BY <1>7, ForgetInv DEF Crash
<1>8. ASSUME NEW p \in Processes, NEW j \in Jobs, ClockPasses(p, j) PROVE JobsInv'
  BY <1>8 DEF ClockPasses, heldVars, JobsInv, JobsTypeOK, LeaseColumnsMatchStatus,
              TokenNamesClaim, RetryBudget, AttemptCap
<1>9. CASE UNCHANGED jobVars
  BY <1>9 DEF jobVars, JobsInv, JobsTypeOK, LeaseColumnsMatchStatus, TokenNamesClaim,
              RetryBudget
<1> QED
  BY <1>1, <1>2, <1>3, <1>4, <1>5, <1>6, <1>7, <1>8, <1>9 DEF JobsNext

(* The inductive invariant holds in every reachable state.                  *)
THEOREM JobsInvariant == JobsSpec => []JobsInv
<1>1. JobsInit => JobsInv
  BY InitInv
<1>2. JobsInv /\ [JobsNext]_jobVars => JobsInv'
  BY NextInv
<1> QED
  BY <1>1, <1>2, PTL DEF JobsSpec

(* The columns of process.jobs and what processes remember have their       *)
(* types, whatever the calls and their order.                               *)
THEOREM JobsTypeCorrect == JobsSpec => []JobsTypeOK
<1>1. JobsInv => JobsTypeOK
  BY DEF JobsInv
<1> QED
  BY <1>1, JobsInvariant, PTL

(* The lease check of renewJob, completeJob and failJob lets at most one    *)
(* process through per job, also when WORKER_IDs are shared and clocks      *)
(* disagree.                                                                *)
THEOREM LeaseIsExclusive == JobsSpec => []OneProcessPassesLeaseCheck
<1>1. JobsInv => OneProcessPassesLeaseCheck
  BY DEF JobsInv, JobsTypeOK, TokenNamesClaim, LeaseColumnsMatchStatus,
         OneProcessPassesLeaseCheck, LeaseValid
<1> QED
  BY <1>1, JobsInvariant, PTL

(* failJob keeps the retry budget: pending rows have attempts left, rows in *)
(* manual_recovery have none.                                               *)
THEOREM RetryBudgetKept == JobsSpec => []RetryBudget
<1>1. JobsInv => RetryBudget
  BY DEF JobsInv
<1> QED
  BY <1>1, JobsInvariant, PTL

(* Every lease that ends is ended by the process that was given its token,  *)
(* while its own clock says the lease runs: CloseLease is the only action   *)
(* that takes a row out of "leased".                                        *)
THEOREM HolderClosesLease == JobsSpec => OnlyHolderClosesLease
<1> DEFINE Step ==
      \A j \in Jobs :
        (status[j] = "leased" /\ status'[j] # "leased") =>
          \E p \in Processes \ elapsed[j] :
            /\ heldJob[p] = j /\ heldToken[p] = token[j]
            /\ heldJob'[p] = None
<1>1. ASSUME JobsInv, [JobsNext]_jobVars PROVE [Step]_jobVars
  <2> SUFFICES ASSUME NEW j \in Jobs, status[j] = "leased", status'[j] # "leased"
               PROVE  \E p \in Processes \ elapsed[j] :
                        /\ heldJob[p] = j /\ heldToken[p] = token[j]
                        /\ heldJob'[p] = None
    OBVIOUS
  <2> USE <1>1 DEF JobsInv
  <2>1. ASSUME NEW p \in Processes, NEW newStatus, heldJob[p] # None,
               LeaseValid(p, heldJob[p]), CloseLease(p, heldJob[p], newStatus)
        PROVE  /\ p \notin elapsed[j]
               /\ heldJob[p] = j /\ heldToken[p] = token[j]
               /\ heldJob'[p] = None
    BY <2>1 DEF JobsTypeOK, LeaseValid, CloseLease
  <2>2. PICK p \in Processes : Complete(p) \/ Fail(p)
    <3>1. ~ UNCHANGED status
      OBVIOUS
    <3>2. ~ Enqueue
      BY DEF JobsTypeOK, Enqueue, enqueue
    <3>3. ASSUME NEW p \in Processes PROVE ~ Claim(p)
      BY DEF JobsTypeOK, Claim, claimJob
    <3> QED
      BY <3>1, <3>2, <3>3 DEF JobsNext, Renew, renewJob, leaseLost, Crash, ClockPasses,
                              rowVars, jobVars
  <2> QED
    BY <2>1, <2>2 DEF Complete, completeJob, Fail, failJob
<1> QED
  BY <1>1, JobsInvariant, PTL DEF JobsSpec, OnlyHolderClosesLease

(* Nothing touches a row that is closed: every action that writes a row     *)
(* wants it pending or leased, except enqueue, which returns it as it is.   *)
THEOREM ClosedIsFinal == JobsSpec => ClosedRowsStay
<1> DEFINE Step ==
      \A j \in Jobs : status[j] \in ClosedStatus =>
         /\ status'[j] = status[j]
         /\ attempts'[j] = attempts[j]
         /\ token'[j] = token[j]
<1>1. ASSUME JobsInv, [JobsNext]_jobVars PROVE [Step]_jobVars
  <2> SUFFICES ASSUME NEW j \in Jobs, status[j] \in ClosedStatus
               PROVE  /\ status'[j] = status[j]
                      /\ attempts'[j] = attempts[j]
                      /\ token'[j] = token[j]
    OBVIOUS
  <2> USE <1>1 DEF JobsInv, JobsTypeOK, ClosedStatus
  <2>1. CASE Enqueue
    BY <2>1 DEF Enqueue, enqueue
  <2>2. ASSUME NEW p \in Processes, Claim(p)
        PROVE  /\ status'[j] = status[j]
               /\ attempts'[j] = attempts[j]
               /\ token'[j] = token[j]
    BY <2>2 DEF Claim, claimJob, Claimable
  <2>3. ASSUME NEW p \in Processes, Complete(p) \/ Fail(p)
        PROVE  /\ status'[j] = status[j]
               /\ attempts'[j] = attempts[j]
               /\ token'[j] = token[j]
    BY <2>3 DEF Complete, completeJob, Fail, failJob, CloseLease, LeaseValid
  <2>4. CASE UNCHANGED <<status, attempts, token>>
    BY <2>4
  <2> QED
    BY <2>1, <2>2, <2>3, <2>4 DEF JobsNext, Renew, renewJob, leaseLost, Crash,
                                  ClockPasses, rowVars, jobVars
<1> QED
  BY <1>1, JobsInvariant, PTL DEF JobsSpec, ClosedRowsStay
===============================================================================
