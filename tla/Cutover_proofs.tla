---------------------------- MODULE Cutover_proofs ----------------------------
(***************************************************************************)
(* Proofs about the cutover for any number of processes of either ledger,   *)
(* of accounts, operations, artifacts, watermarks and signing keys.         *)
(***************************************************************************)
EXTENDS Cutover, TLAPS

USE CutoverConstants

(* An operation has an engine from the moment it exists.                    *)
OperationsHaveEngine ==
    \A o \in Ops : opStatus[o] = "absent" <=> opEngine[o] = None

(* The route and the status of the control agree: the route is TigerBeetle  *)
(* exactly when the control says so, and nothing is configured before.      *)
RouteMatchesControl ==
    /\ route = None => control = [status |-> None, evidence |-> None]
    /\ route = "tigerbeetle" <=> control.status = "tigerbeetle"
    /\ route = "postgresql" => control.status \in ControlStatus

(* No operation is unresolved while an approved cutover is under way.       *)
QuietWhileCuttingOver ==
    control.status \in {"approved", "activating"} => Unresolved = {}

(* A fact a process read is of its own ledger, and as old as its snapshot:  *)
(* the operation has that status or a later one.                            *)
SnapshotIsPast ==
    \A p \in Processes : pc[p] \in {"compare", "insert"} =>
      \A f \in call[p].facts :
        /\ opEngine[f.op] = AuthorityOf[p]
        /\ f.status = "accepted" => opStatus[f.op] \in {"accepted", "reconciled"}
        /\ f.status = "reconciled" => opStatus[f.op] = "reconciled"

(* Once compared as equal, the facts stay true until the row is inserted.   *)
ComparisonHolds ==
    \A p \in Processes : (pc[p] = "insert" /\ call[p].verified) =>
      \A f \in call[p].facts :
        /\ f.op \in posted
        /\ opStatus[f.op] \in {"accepted", "reconciled"}

(* A process works through a request only while it has one.                 *)
RequestInHand ==
    \A p \in Processes :
      pc[p] \in {"snapshot", "compare", "insert"} => call[p].request \in Request

(* TigerBeetle has the listed accounts a process has done with.             *)
DoneIsProvisioned ==
    \A p \in Processes : (pc[p] = "provision" /\ AuthorityOf[p] = "tigerbeetle") =>
      call[p].listed \ call[p].remaining \subseteq executionAccounts

(* The inductive invariant.                                                 *)
CutoverInv ==
    /\ CutoverTypeOK
    /\ OperationsHaveEngine
    /\ RouteMatchesControl
    /\ QuietWhileCuttingOver
    /\ SnapshotIsPast
    /\ ComparisonHolds
    /\ RequestInHand
    /\ DoneIsProvisioned
    /\ ApprovalIsBacked
    /\ VerifiedCheckpointHolds

(* Nothing is configured and nothing under way at the start.                *)
LEMMA InitInv == CutoverInit => CutoverInv
<1> SUFFICES ASSUME CutoverInit PROVE CutoverInv
  OBVIOUS
<1> USE DEF CutoverInit
<1>1. CutoverTypeOK
  BY DEF CutoverTypeOK, ControlStatus, Engines, Idle
<1>2. OperationsHaveEngine /\ RouteMatchesControl /\ QuietWhileCuttingOver
  BY DEF OperationsHaveEngine, RouteMatchesControl, QuietWhileCuttingOver, Unresolved,
     ControlStatus
<1>3. SnapshotIsPast /\ ComparisonHolds /\ RequestInHand /\ DoneIsProvisioned
  BY DEF SnapshotIsPast, ComparisonHolds, RequestInHand, DoneIsProvisioned
<1>4. ApprovalIsBacked /\ VerifiedCheckpointHolds
  BY DEF ApprovalIsBacked, VerifiedCheckpointHolds, ControlStatus
<1> QED
  BY <1>1, <1>2, <1>3, <1>4 DEF CutoverInv

(* A snapshot of the operations consists of facts.                          *)
LEMMA FactsType ==
  ASSUME CutoverTypeOK, OperationsHaveEngine, NEW engine \in Engines
  PROVE  FactsOf(engine) \subseteq Facts
<1>1. ASSUME NEW o \in Ops, opEngine[o] = engine, opStatus[o] # "rejected"
      PROVE  opStatus[o] \in {"intent", "accepted", "reconciled"}
  BY <1>1 DEF CutoverTypeOK, OperationsHaveEngine, Engines, ControlStatus
<1> QED
  BY <1>1 DEF FactsOf, Facts

(* What a process's call may hold.                                          *)
CallRow ==
    [request : Request \cup {None}, facts : SUBSET Facts, verified : BOOLEAN,
     remaining : SUBSET Accounts, listed : SUBSET Accounts]

(* A process changes its call and where it is in it: the types stay.        *)
LEMMA CallType ==
  ASSUME CutoverTypeOK, NEW p \in Processes, NEW row \in CallRow,
         NEW to \in {"idle", "snapshot", "compare", "insert", "list", "provision"},
         pc' \in {pc, [pc EXCEPT ![p] = to]}, call' = [call EXCEPT ![p] = row]
  PROVE  /\ pc' \in [Processes -> {"idle", "snapshot", "compare", "insert", "list", "provision"}]
         /\ call' \in [Processes -> CallRow]
<1>1. /\ pc \in [Processes -> {"idle", "snapshot", "compare", "insert", "list", "provision"}]
      /\ call \in [Processes -> CallRow]
  BY DEF CutoverTypeOK, CallRow
<1> QED
  BY <1>1

(* A call that ends leaves nothing behind.                                  *)
LEMMA IdleType == Idle \in CallRow
  BY DEF Idle, CallRow

(* Every step keeps the types.                                              *)
LEMMA TypeStep ==
  ASSUME CutoverInv, [CutoverNext]_cutoverVars
  PROVE  CutoverTypeOK'
<1> USE DEF CutoverInv, controlVars, accountVars, evidenceVars, operationVars, processVars
<1>1. CASE configureLegalEntity
  BY <1>1 DEF configureLegalEntity, CutoverTypeOK, ControlStatus, Engines
<1>2. ASSUME NEW a \in Accounts, createAccount(a) PROVE CutoverTypeOK'
  BY <1>2 DEF createAccount, CutoverTypeOK
<1>3. ASSUME NEW k \in Keys \cup {None}, RotateSigner(k) PROVE CutoverTypeOK'
  BY <1>3 DEF RotateSigner, CutoverTypeOK
<1>4. CASE RecordEvidence
  <2>1. PICK x \in Artifacts, kind \in {"cutover_rehearsal", "observability"},
             verified \in BOOLEAN, provenance \in Provenances, engine \in Engines :
               recordFinancialVerificationArtifact(x, kind, verified, provenance, FactsOf(engine))
    BY <1>4 DEF RecordEvidence
  <2> DEFINE row == [kind |-> kind, verified |-> verified, provenance |-> provenance,
                     facts |-> FactsOf(engine), key |-> signer]
  <2>2. row \in ArtifactRow
    BY <2>1, FactsType DEF recordFinancialVerificationArtifact, ArtifactRow, CutoverTypeOK
  <2>3. artifact' = [artifact EXCEPT ![x] = row]
    BY <2>1 DEF recordFinancialVerificationArtifact
  <2> HIDE DEF row
  <2> QED
    BY <2>1, <2>2, <2>3 DEF recordFinancialVerificationArtifact, CutoverTypeOK
<1>5. CASE prepareTigerBeetleCutover
  BY <1>5 DEF prepareTigerBeetleCutover, CutoverTypeOK, ControlStatus
<1>6. ASSUME NEW x \in Artifacts, approveTigerBeetleCutover(x) PROVE CutoverTypeOK'
  BY <1>6 DEF approveTigerBeetleCutover, CutoverTypeOK, ControlStatus
<1>7. ASSUME NEW o \in Ops, NEW p \in Processes, createJournalIntent(p, o) PROVE CutoverTypeOK'
  BY <1>7 DEF createJournalIntent, CutoverTypeOK
<1>8. ASSUME NEW o \in Ops, postJournal(o) \/ writeReceipt(o) \/ finalizeAccepted(o)
      PROVE  CutoverTypeOK'
  BY <1>8 DEF postJournal, writeReceipt, finalizeAccepted, CutoverTypeOK
<1>9. ASSUME NEW p \in Processes, CheckpointStep(p) PROVE CutoverTypeOK'
  <2>0. call[p] \in CallRow
    BY DEF CutoverTypeOK, CallRow
  <2>1. ASSUME NEW request \in Request, reconcileFinancialCheckpoint(p, request) PROVE CutoverTypeOK'
    <3> DEFINE row == [call[p] EXCEPT !.request = request]
    <3>1. row \in CallRow /\ call' = [call EXCEPT ![p] = row]
      BY <2>1 DEF reconcileFinancialCheckpoint, CutoverTypeOK, CallRow
    <3> HIDE DEF row
    <3> QED
      BY <2>1, <3>1, CallType DEF reconcileFinancialCheckpoint, CutoverTypeOK, CallRow
  <2>2. CASE ReadOperations(p)
    BY <2>2, FactsType DEF ReadOperations, CutoverTypeOK
  <2>3. CASE CompareWithLedger(p)
    <3> DEFINE row == [call[p] EXCEPT !.verified = compareFinancialFactSnapshots(p)]
    <3>1. compareFinancialFactSnapshots(p) \in BOOLEAN
      BY DEF compareFinancialFactSnapshots
    <3>2. row \in CallRow
      BY <2>0, <3>1 DEF CallRow
    <3>3. call' = [call EXCEPT ![p] = row] \/ call' = [call EXCEPT ![p] = Idle]
      BY <2>3 DEF CompareWithLedger
    <3>4. pc' = [pc EXCEPT ![p] = "insert"] \/ pc' = [pc EXCEPT ![p] = "idle"]
      BY <2>3 DEF CompareWithLedger
    <3> HIDE DEF row
    <3> QED
      BY <2>3, <3>2, <3>3, <3>4, CallType, IdleType DEF CompareWithLedger, CutoverTypeOK, CallRow
  <2>4. CASE InsertCheckpoint(p)
    BY <2>4 DEF InsertCheckpoint, CutoverTypeOK, Idle, CheckpointRow, RequestInHand, Request
  <2> QED
    BY <1>9, <2>1, <2>2, <2>3, <2>4 DEF CheckpointStep
<1>10. ASSUME NEW p \in Processes, ActivationStep(p) \/ Die(p) PROVE CutoverTypeOK'
  <2>0. call[p] \in CallRow
    BY DEF CutoverTypeOK, CallRow
  <2>1. CASE activateTigerBeetleCutover(p)
    BY <2>1 DEF activateTigerBeetleCutover, CutoverTypeOK, ControlStatus
  <2>2. CASE ListAccounts(p)
    <3> DEFINE row == [call[p] EXCEPT !.remaining = accounts, !.listed = accounts]
    <3>1. row \in CallRow
      BY <2>0 DEF CutoverTypeOK, CallRow
    <3>2. call' = [call EXCEPT ![p] = row]
      BY <2>2 DEF ListAccounts
    <3> HIDE DEF row
    <3> QED
      BY <2>2, <3>1, <3>2, CallType DEF ListAccounts, CutoverTypeOK, CallRow
  <2>3. CASE ProvisionAccount(p)
    <3>1. PICK a \in call[p].remaining :
            /\ \/ call' = [call EXCEPT ![p].remaining = @ \ {a}]
               \/ call' = [call EXCEPT ![p] = Idle]
            /\ executionAccounts' \in {executionAccounts, executionAccounts \cup {a}}
            /\ pc' \in {pc, [pc EXCEPT ![p] = "idle"]}
      BY <2>3 DEF ProvisionAccount
    <3> DEFINE row == [call[p] EXCEPT !.remaining = @ \ {a}]
    <3>2. row \in CallRow
      BY <2>0 DEF CallRow
    <3>3. call' = [call EXCEPT ![p] = row] \/ call' = [call EXCEPT ![p] = Idle]
      BY <3>1
    <3>4. a \in Accounts
      BY <2>0 DEF CallRow
    <3> HIDE DEF row
    <3> QED
      BY <2>3, <3>1, <3>2, <3>3, <3>4, CallType, IdleType DEF ProvisionAccount, CutoverTypeOK, CallRow
  <2>4. CASE CompleteActivation(p)
    BY <2>4 DEF CompleteActivation, CutoverTypeOK, Idle, ControlStatus, Engines
  <2>5. CASE Die(p)
    BY <2>5 DEF Die, CutoverTypeOK, Idle
  <2> QED
    BY <1>10, <2>1, <2>2, <2>3, <2>4, <2>5 DEF ActivationStep
<1>11. CASE UNCHANGED cutoverVars
  BY <1>11 DEF cutoverVars, CutoverTypeOK
<1> QED
  BY <1>1, <1>2, <1>3, <1>4, <1>5, <1>6, <1>7, <1>8, <1>9, <1>10, <1>11
     DEF CutoverNext, OperationStep

(* Evidence is immutable: a step never changes an artifact or a checkpoint  *)
(* that is there.                                                           *)
LEMMA EvidenceImmutable ==
  ASSUME CutoverInv, [CutoverNext]_cutoverVars
  PROVE  /\ \A x \in Artifacts : artifact[x] # None => artifact'[x] = artifact[x]
         /\ \A k \in Engines \X RecoveryWatermarks :
              checkpoint[k] # None => checkpoint'[k] = checkpoint[k]
<1> USE DEF controlVars, accountVars, evidenceVars, operationVars, processVars
<1>1. CASE RecordEvidence
  BY <1>1 DEF RecordEvidence, recordFinancialVerificationArtifact, CutoverInv, CutoverTypeOK
<1>2. ASSUME NEW p \in Processes, InsertCheckpoint(p)
      PROVE  /\ artifact' = artifact
             /\ \A k \in Engines \X RecoveryWatermarks :
                  checkpoint[k] # None => checkpoint'[k] = checkpoint[k]
  BY <1>2 DEF InsertCheckpoint, CutoverInv, CutoverTypeOK
<1>3. CASE UNCHANGED <<artifact, checkpoint>>
  BY <1>3
<1>4. \/ RecordEvidence \/ (\E p \in Processes : InsertCheckpoint(p))
      \/ UNCHANGED <<artifact, checkpoint>>
  BY DEF CutoverNext, cutoverVars, configureLegalEntity, createAccount, RotateSigner,
     prepareTigerBeetleCutover, approveTigerBeetleCutover, OperationStep, createJournalIntent,
     postJournal, writeReceipt, finalizeAccepted, CheckpointStep, reconcileFinancialCheckpoint,
     ReadOperations, CompareWithLedger, ActivationStep, activateTigerBeetleCutover,
     ListAccounts, ProvisionAccount, CompleteActivation, Die
<1> QED
  BY <1>1, <1>2, <1>3, <1>4

(* Operations only go forward: their engine stays, what the ledger posted   *)
(* stays posted, and an accepted one can only be reconciled.                *)
LEMMA OperationsProgress ==
  ASSUME CutoverInv, [CutoverNext]_cutoverVars
  PROVE  /\ posted \subseteq posted'
         /\ \A o \in Ops :
              /\ opEngine[o] # None => opEngine'[o] = opEngine[o]
              /\ opStatus'[o] = "absent" <=> opEngine'[o] = None
              /\ opStatus[o] \in {"accepted", "reconciled"} =>
                   opStatus'[o] \in {opStatus[o], "reconciled"}
<1> USE DEF controlVars, accountVars, evidenceVars, operationVars, processVars
<1>0. /\ opStatus \in [Ops -> {"absent", "intent", "accepted", "rejected", "reconciled"}]
      /\ opEngine \in [Ops -> Engines \cup {None}]
      /\ OperationsHaveEngine
  BY DEF CutoverInv, CutoverTypeOK
<1>1. ASSUME NEW o \in Ops, NEW p \in Processes, createJournalIntent(p, o)
      PROVE  /\ posted \subseteq posted'
             /\ opStatus[o] = "absent" /\ opEngine[o] = None
             /\ opStatus' = [opStatus EXCEPT ![o] = "intent"]
             /\ opEngine' = [opEngine EXCEPT ![o] = route] /\ route # None
  BY <1>0, <1>1 DEF createJournalIntent, OperationsHaveEngine, Engines, ControlStatus
<1>2. ASSUME NEW o \in Ops, postJournal(o) \/ writeReceipt(o) \/ finalizeAccepted(o)
      PROVE  /\ posted \subseteq posted'
             /\ opEngine' = opEngine
             /\ \E status \in {"intent", "accepted", "rejected", "reconciled"} :
                  /\ opStatus[o] \in {"intent", "accepted"}
                  /\ opStatus' = [opStatus EXCEPT ![o] = status]
                  /\ opStatus[o] = "accepted" => status = "reconciled"
  BY <1>0, <1>2 DEF postJournal, writeReceipt, finalizeAccepted
<1>3. \/ \E o \in Ops : \/ \E p \in Processes : createJournalIntent(p, o)
                        \/ postJournal(o) \/ writeReceipt(o) \/ finalizeAccepted(o)
      \/ UNCHANGED operationVars
  BY DEF CutoverNext, cutoverVars, configureLegalEntity, createAccount, RotateSigner,
     prepareTigerBeetleCutover, approveTigerBeetleCutover, OperationStep, RecordEvidence,
     recordFinancialVerificationArtifact, CheckpointStep, reconcileFinancialCheckpoint,
     ReadOperations, CompareWithLedger, InsertCheckpoint, ActivationStep,
     activateTigerBeetleCutover, ListAccounts, ProvisionAccount, CompleteActivation, Die
<1>4. ASSUME NEW o \in Ops, NEW p \in Processes, createJournalIntent(p, o)
      PROVE  \A oo \in Ops :
              /\ opEngine[oo] # None => opEngine'[oo] = opEngine[oo]
              /\ opStatus'[oo] = "absent" <=> opEngine'[oo] = None
              /\ opStatus[oo] \in {"accepted", "reconciled"} => opStatus'[oo] = opStatus[oo]
  BY <1>0, <1>1, <1>4 DEF OperationsHaveEngine
<1>5. ASSUME NEW o \in Ops, postJournal(o) \/ writeReceipt(o) \/ finalizeAccepted(o)
      PROVE  \A oo \in Ops :
              /\ opEngine[oo] # None => opEngine'[oo] = opEngine[oo]
              /\ opStatus'[oo] = "absent" <=> opEngine'[oo] = None
              /\ opStatus[oo] \in {"accepted", "reconciled"} =>
                   opStatus'[oo] \in {opStatus[oo], "reconciled"}
  BY <1>0, <1>2, <1>5 DEF OperationsHaveEngine
<1>6. CASE UNCHANGED operationVars
  BY <1>0, <1>6 DEF OperationsHaveEngine
<1> QED
  BY <1>1, <1>2, <1>3, <1>4, <1>5, <1>6

(* The steps that move the control.                                         *)
LEMMA ControlSteps ==
  ASSUME CutoverInv, [CutoverNext]_cutoverVars
  PROVE  \/ configureLegalEntity
         \/ prepareTigerBeetleCutover
         \/ \E x \in Artifacts : approveTigerBeetleCutover(x)
         \/ \E p \in Processes : activateTigerBeetleCutover(p) \/ CompleteActivation(p)
         \/ UNCHANGED controlVars
  BY DEF CutoverNext, cutoverVars, controlVars, createAccount, RotateSigner, RecordEvidence,
     recordFinancialVerificationArtifact, OperationStep, createJournalIntent, postJournal,
     writeReceipt, finalizeAccepted, CheckpointStep, reconcileFinancialCheckpoint,
     ReadOperations, CompareWithLedger, InsertCheckpoint, ActivationStep, ListAccounts,
     ProvisionAccount, Die

(* What a step may do to the call of a process.                             *)
LEMMA CallSteps ==
  ASSUME CutoverInv, [CutoverNext]_cutoverVars, NEW p \in Processes
  PROVE  \/ pc'[p] = pc[p] /\ call'[p] = call[p]
         \/ \E request \in Request : reconcileFinancialCheckpoint(p, request)
         \/ ReadOperations(p) \/ CompareWithLedger(p) \/ ListAccounts(p) \/ ProvisionAccount(p)
         \/ pc'[p] \in {"idle", "list"}
<1> USE DEF processVars
<1>0. /\ pc \in [Processes -> {"idle", "snapshot", "compare", "insert", "list", "provision"}]
      /\ call \in [Processes -> CallRow]
  BY DEF CutoverInv, CutoverTypeOK, CallRow
<1>1. \/ \E q \in Processes : CheckpointStep(q) \/ ActivationStep(q) \/ Die(q)
      \/ UNCHANGED processVars
  BY DEF CutoverNext, cutoverVars, configureLegalEntity, createAccount, RotateSigner,
     RecordEvidence, recordFinancialVerificationArtifact, prepareTigerBeetleCutover,
     approveTigerBeetleCutover, OperationStep, createJournalIntent, postJournal,
     writeReceipt, finalizeAccepted
<1>2. ASSUME NEW q \in Processes, q # p, CheckpointStep(q) \/ ActivationStep(q) \/ Die(q)
      PROVE  pc'[p] = pc[p] /\ call'[p] = call[p]
  BY <1>0, <1>2 DEF CheckpointStep, reconcileFinancialCheckpoint, ReadOperations,
     CompareWithLedger, InsertCheckpoint, ActivationStep, activateTigerBeetleCutover,
     ListAccounts, ProvisionAccount, CompleteActivation, Die
<1>3. ASSUME InsertCheckpoint(p) \/ CompleteActivation(p) \/ Die(p)
             \/ activateTigerBeetleCutover(p)
      PROVE  pc'[p] \in {"idle", "list"}
  BY <1>0, <1>3 DEF InsertCheckpoint, CompleteActivation, Die, activateTigerBeetleCutover
<1> QED
  BY <1>1, <1>2, <1>3 DEF CheckpointStep, ActivationStep

(* Route and control keep agreeing.                                         *)
LEMMA RouteStep ==
  ASSUME CutoverInv, [CutoverNext]_cutoverVars
  PROVE  RouteMatchesControl'
<1> USE DEF RouteMatchesControl
<1>1. /\ route \in Engines \cup {None}
      /\ control \in [status : ControlStatus \cup {None}, evidence : Artifacts \cup {None}]
      /\ RouteMatchesControl
  BY DEF CutoverInv, CutoverTypeOK
<1>2. CASE configureLegalEntity
  BY <1>1, <1>2 DEF configureLegalEntity, ControlStatus, Engines
<1>3. CASE prepareTigerBeetleCutover
  BY <1>1, <1>3 DEF prepareTigerBeetleCutover, ControlStatus, Engines
<1>4. ASSUME NEW x \in Artifacts, approveTigerBeetleCutover(x) PROVE RouteMatchesControl'
  BY <1>1, <1>4 DEF approveTigerBeetleCutover, ControlStatus, Engines
<1>5. ASSUME NEW p \in Processes, activateTigerBeetleCutover(p) PROVE RouteMatchesControl'
  BY <1>1, <1>5 DEF activateTigerBeetleCutover, ControlStatus, Engines
<1>6. ASSUME NEW p \in Processes, CompleteActivation(p) PROVE RouteMatchesControl'
  BY <1>1, <1>6 DEF CompleteActivation, ControlStatus, Engines, controlVars
<1>7. CASE UNCHANGED controlVars
  BY <1>1, <1>7 DEF controlVars
<1> QED
  BY <1>2, <1>3, <1>4, <1>5, <1>6, <1>7, ControlSteps

(* No operation is created from the approval to the switch of the route.    *)
LEMMA QuietStep ==
  ASSUME CutoverInv, [CutoverNext]_cutoverVars
  PROVE  QuietWhileCuttingOver'
<1> USE DEF QuietWhileCuttingOver
<1>1. /\ route \in Engines \cup {None}
      /\ control \in [status : ControlStatus \cup {None}, evidence : Artifacts \cup {None}]
      /\ RouteMatchesControl /\ QuietWhileCuttingOver
  BY DEF CutoverInv, CutoverTypeOK
<1>2. \A o \in Ops : opStatus[o] \in {"intent", "accepted"} => o \in Unresolved
  BY DEF Unresolved
<1>3. CASE OperationStep
  <2>1. PICK o \in Ops : \/ \E p \in Processes : createJournalIntent(p, o)
                         \/ postJournal(o) \/ writeReceipt(o) \/ finalizeAccepted(o)
    BY <1>3 DEF OperationStep
  <2>2. control' = control
    BY <2>1 DEF createJournalIntent, postJournal, writeReceipt, finalizeAccepted, controlVars
  <2>3. control.status \in {"approved", "activating"} => FALSE
    BY <1>1, <1>2, <2>1 DEF createJournalIntent, postJournal, writeReceipt, finalizeAccepted,
       Engines
  <2> QED
    BY <2>2, <2>3
<1>4. CASE ~OperationStep
  <2>1. Unresolved' = Unresolved
    BY <1>4 DEF Unresolved, CutoverNext, cutoverVars, operationVars, configureLegalEntity,
       createAccount, RotateSigner, RecordEvidence, recordFinancialVerificationArtifact,
       prepareTigerBeetleCutover, approveTigerBeetleCutover, CheckpointStep,
       reconcileFinancialCheckpoint, ReadOperations, CompareWithLedger, InsertCheckpoint,
       ActivationStep, activateTigerBeetleCutover, ListAccounts, ProvisionAccount,
       CompleteActivation, Die
  <2>2. control'.status \in {"approved", "activating"} =>
          \/ control.status \in {"approved", "activating"}
          \/ Unresolved = {}
    BY <1>1, ControlSteps DEF configureLegalEntity, prepareTigerBeetleCutover,
       approveTigerBeetleCutover, activateTigerBeetleCutover, CompleteActivation, controlVars
  <2> QED
    BY <1>1, <2>1, <2>2
<1> QED
  BY <1>3, <1>4

(* The approval keeps its backing, because evidence is immutable.           *)
LEMMA ApprovalStep ==
  ASSUME CutoverInv, [CutoverNext]_cutoverVars
  PROVE  ApprovalIsBacked'
<1> USE DEF ApprovalIsBacked
<1>1. /\ control \in [status : ControlStatus \cup {None}, evidence : Artifacts \cup {None}]
      /\ ApprovalIsBacked
  BY DEF CutoverInv, CutoverTypeOK
<1>2. CASE /\ control'.status \in {"approved", "activating", "tigerbeetle"} =>
                control.status \in {"approved", "activating", "tigerbeetle"}
           /\ control'.evidence = control.evidence
  <2> SUFFICES ASSUME control'.status \in {"approved", "activating", "tigerbeetle"}
               PROVE  ApprovalIsBacked'
    OBVIOUS
  <2>1. control.evidence \in Artifacts
    BY <1>1, <1>2
  <2>2. PICK w \in RecoveryWatermarks :
           LET row == checkpoint[<<"tigerbeetle", w>>] IN
           /\ row # None /\ row.verified /\ row.evidence = control.evidence
           /\ row.facts = artifact[control.evidence].facts
    BY <1>1, <1>2
  <2>3. /\ artifact'[control.evidence] = artifact[control.evidence]
        /\ checkpoint'[<<"tigerbeetle", w>>] = checkpoint[<<"tigerbeetle", w>>]
    BY <1>1, <1>2, <2>1, <2>2, EvidenceImmutable DEF Engines
  <2> QED
    BY <1>1, <1>2, <2>2, <2>3
<1>3. ASSUME NEW x \in Artifacts, approveTigerBeetleCutover(x) PROVE ApprovalIsBacked'
  <2>1. /\ control'.evidence = x /\ x # None
        /\ UNCHANGED <<artifact, checkpoint>>
        /\ ArtifactValid(x) /\ CheckpointBacks(x)
    BY <1>1, <1>3 DEF approveTigerBeetleCutover, evidenceVars
  <2> QED
    BY <2>1 DEF ArtifactValid, CheckpointBacks
<1> QED
  BY <1>1, <1>2, <1>3, ControlSteps DEF configureLegalEntity, prepareTigerBeetleCutover,
     activateTigerBeetleCutover, CompleteActivation, controlVars

(* The facts of a process are of operations, and its ledger is an engine.   *)
LEMMA CallFacts ==
  ASSUME CutoverInv, NEW p \in Processes
  PROVE  /\ AuthorityOf[p] \in Engines /\ AuthorityOf[p] # None
         /\ \A f \in call[p].facts : f.op \in Ops /\ f.status \in {"intent", "accepted", "reconciled"}
<1>1. call[p].facts \subseteq Facts
  BY DEF CutoverInv, CutoverTypeOK
<1> QED
  BY <1>1 DEF Facts, Engines, ControlStatus

(* A snapshot stays a picture of the past: operations only go forward.      *)
LEMMA SnapshotStep ==
  ASSUME CutoverInv, [CutoverNext]_cutoverVars
  PROVE  SnapshotIsPast'
<1> SUFFICES ASSUME NEW p \in Processes, pc'[p] \in {"compare", "insert"},
                    NEW f \in call'[p].facts
             PROVE  /\ opEngine'[f.op] = AuthorityOf[p]
                    /\ f.status = "accepted" => opStatus'[f.op] \in {"accepted", "reconciled"}
                    /\ f.status = "reconciled" => opStatus'[f.op] = "reconciled"
  BY DEF SnapshotIsPast
<1>0. /\ pc \in [Processes -> {"idle", "snapshot", "compare", "insert", "list", "provision"}]
      /\ call \in [Processes -> CallRow]
  BY DEF CutoverInv, CutoverTypeOK, CallRow
<1>1. CASE ReadOperations(p)
  <2>1. call'[p].facts = FactsOf(AuthorityOf[p]) /\ UNCHANGED operationVars
    BY <1>0, <1>1 DEF ReadOperations, CallRow
  <2>2. opEngine[f.op] = AuthorityOf[p] /\ f.status = opStatus[f.op]
    BY <2>1 DEF FactsOf
  <2> QED
    BY <2>1, <2>2 DEF operationVars
<1>2. CASE ~ReadOperations(p)
  <2>1. pc[p] \in {"compare", "insert"} /\ call'[p].facts = call[p].facts
    <3>1. ASSUME CompareWithLedger(p)
          PROVE  pc[p] = "compare" /\ call'[p].facts = call[p].facts
      <4>1. pc[p] = "compare"
        BY <3>1 DEF CompareWithLedger
      <4>2. call' = [call EXCEPT ![p].verified = compareFinancialFactSnapshots(p)]
        BY <1>0, <3>1 DEF CompareWithLedger
      <4> QED
        BY <1>0, <4>1, <4>2 DEF CallRow
    <3>2. /\ \A request \in Request : ~reconcileFinancialCheckpoint(p, request)
          /\ ~ListAccounts(p)
      BY <1>0 DEF reconcileFinancialCheckpoint, ListAccounts
    <3>3. ~ProvisionAccount(p)
      BY <1>0 DEF ProvisionAccount
    <3> QED
      BY <1>2, <3>1, <3>2, <3>3, CallSteps
  <2>2. /\ opEngine[f.op] = AuthorityOf[p]
        /\ f.status = "accepted" => opStatus[f.op] \in {"accepted", "reconciled"}
        /\ f.status = "reconciled" => opStatus[f.op] = "reconciled"
        /\ f.op \in Ops /\ AuthorityOf[p] # None
    BY <2>1, CallFacts DEF CutoverInv, SnapshotIsPast
  <2> QED
    BY <2>2, OperationsProgress
<1> QED
  BY <1>1, <1>2

(* What the ledger confirmed stays true.                                    *)
LEMMA ComparisonStep ==
  ASSUME CutoverInv, [CutoverNext]_cutoverVars
  PROVE  ComparisonHolds'
<1> SUFFICES ASSUME NEW p \in Processes, pc'[p] = "insert", call'[p].verified,
                    NEW f \in call'[p].facts
             PROVE  f.op \in posted' /\ opStatus'[f.op] \in {"accepted", "reconciled"}
  BY DEF ComparisonHolds
<1>0. /\ pc \in [Processes -> {"idle", "snapshot", "compare", "insert", "list", "provision"}]
      /\ call \in [Processes -> CallRow]
  BY DEF CutoverInv, CutoverTypeOK, CallRow
<1>1. /\ call'[p].facts = call[p].facts
      /\ f.op \in posted /\ opStatus[f.op] \in {"accepted", "reconciled"}
  <2>1. CASE CompareWithLedger(p)
    <3>1. call'[p] = [call[p] EXCEPT !.verified = compareFinancialFactSnapshots(p)]
      BY <1>0, <2>1 DEF CompareWithLedger
    <3>2. call'[p].facts = call[p].facts /\ call'[p].verified = compareFinancialFactSnapshots(p)
      BY <1>0, <3>1 DEF CallRow
    <3>3. f.op \in posted /\ f.status \in {"accepted", "reconciled"}
      BY <3>2 DEF compareFinancialFactSnapshots
    <3>4. pc[p] = "compare"
      BY <2>1 DEF CompareWithLedger
    <3> QED
      BY <3>2, <3>3, <3>4 DEF CutoverInv, SnapshotIsPast
  <2>2. CASE ~CompareWithLedger(p)
    <3>1. pc[p] = "insert" /\ call'[p] = call[p]
      BY <1>0, <2>2, CallSteps DEF reconcileFinancialCheckpoint, ReadOperations, ListAccounts,
         ProvisionAccount
    <3> QED
      BY <3>1 DEF CutoverInv, ComparisonHolds
  <2> QED
    BY <2>1, <2>2
<1> QED
  BY <1>1, CallFacts, OperationsProgress

(* A request stays in hand until its row is inserted.                       *)
LEMMA RequestStep ==
  ASSUME CutoverInv, [CutoverNext]_cutoverVars
  PROVE  RequestInHand'
<1> SUFFICES ASSUME NEW p \in Processes, pc'[p] \in {"snapshot", "compare", "insert"}
             PROVE  call'[p].request \in Request
  BY DEF RequestInHand
<1>0. /\ pc \in [Processes -> {"idle", "snapshot", "compare", "insert", "list", "provision"}]
      /\ call \in [Processes -> CallRow]
  BY DEF CutoverInv, CutoverTypeOK, CallRow
<1>1. ASSUME NEW request \in Request, reconcileFinancialCheckpoint(p, request)
      PROVE  call'[p].request \in Request
  BY <1>0, <1>1 DEF reconcileFinancialCheckpoint, CallRow
<1>2. CASE ReadOperations(p) \/ CompareWithLedger(p)
  BY <1>0, <1>2 DEF ReadOperations, CompareWithLedger, CallRow, CutoverInv, RequestInHand
<1>3. CASE pc'[p] = pc[p] /\ call'[p] = call[p]
  BY <1>3 DEF CutoverInv, RequestInHand
<1>4. ~ListAccounts(p) /\ ~ProvisionAccount(p)
  BY <1>0 DEF ListAccounts, ProvisionAccount
<1> QED
  BY <1>1, <1>2, <1>3, <1>4, CallSteps

(* An account a TigerBeetle process has done with is in TigerBeetle.        *)
LEMMA ProvisionStep ==
  ASSUME CutoverInv, [CutoverNext]_cutoverVars
  PROVE  DoneIsProvisioned'
<1> SUFFICES ASSUME NEW p \in Processes, pc'[p] = "provision", AuthorityOf[p] = "tigerbeetle"
             PROVE  call'[p].listed \ call'[p].remaining \subseteq executionAccounts'
  BY DEF DoneIsProvisioned
<1>0. /\ pc \in [Processes -> {"idle", "snapshot", "compare", "insert", "list", "provision"}]
      /\ call \in [Processes -> CallRow]
  BY DEF CutoverInv, CutoverTypeOK, CallRow
<1>1. CASE ListAccounts(p)
  BY <1>0, <1>1 DEF ListAccounts, CallRow
<1>2. CASE ProvisionAccount(p)
  <2>1. PICK a \in call[p].remaining :
          /\ call' = [call EXCEPT ![p].remaining = @ \ {a}]
          /\ executionAccounts' = executionAccounts \cup {a}
    BY <1>0, <1>2 DEF ProvisionAccount
  <2>2. call'[p].listed = call[p].listed /\ call'[p].remaining = call[p].remaining \ {a}
    BY <1>0, <2>1 DEF CallRow
  <2>3. call[p].listed \ call[p].remaining \subseteq executionAccounts
    BY <1>2 DEF ProvisionAccount, CutoverInv, DoneIsProvisioned
  <2> QED
    BY <2>1, <2>2, <2>3
<1>3. CASE pc'[p] = pc[p] /\ call'[p] = call[p]
  <2>1. executionAccounts \subseteq executionAccounts'
    BY DEF CutoverNext, cutoverVars, configureLegalEntity, createAccount, RotateSigner,
       RecordEvidence, recordFinancialVerificationArtifact, prepareTigerBeetleCutover,
       approveTigerBeetleCutover, OperationStep, createJournalIntent, postJournal,
       writeReceipt, finalizeAccepted, CheckpointStep, reconcileFinancialCheckpoint,
       ReadOperations, CompareWithLedger, InsertCheckpoint, ActivationStep,
       activateTigerBeetleCutover, ListAccounts, ProvisionAccount, CompleteActivation, Die,
       accountVars
  <2> QED
    BY <1>3, <2>1 DEF CutoverInv, DoneIsProvisioned
<1>4. \A request \in Request : ~reconcileFinancialCheckpoint(p, request)
  BY <1>0 DEF reconcileFinancialCheckpoint
<1>5. ~ReadOperations(p) /\ ~CompareWithLedger(p)
  BY <1>0 DEF ReadOperations, CompareWithLedger
<1> QED
  BY <1>1, <1>2, <1>3, <1>4, <1>5, CallSteps

(* A checkpoint enters the table as it was compared and stays true there.   *)
LEMMA CheckpointHolds ==
  ASSUME CutoverInv, [CutoverNext]_cutoverVars
  PROVE  VerifiedCheckpointHolds'
<1>0. /\ checkpoint \in [Engines \X RecoveryWatermarks -> CheckpointRow \cup {None}]
      /\ call \in [Processes -> CallRow]
      /\ checkpoint' \in [Engines \X RecoveryWatermarks -> CheckpointRow \cup {None}]
  BY TypeStep DEF CutoverInv, CutoverTypeOK, CallRow
<1> SUFFICES ASSUME NEW k \in Engines \X RecoveryWatermarks,
                    checkpoint'[k] # None, checkpoint'[k].verified,
                    NEW f \in checkpoint'[k].facts
             PROVE  /\ f.op \in posted'
                    /\ opStatus'[f.op] \in {"accepted", "reconciled"}
                    /\ opEngine'[f.op] = k[1]
  BY <1>0 DEF VerifiedCheckpointHolds
<1>1. /\ f.op \in posted /\ opStatus[f.op] \in {"accepted", "reconciled"}
      /\ opEngine[f.op] = k[1] /\ f.op \in Ops
  <2>1. CASE checkpoint[k] # None
    <3>1. checkpoint'[k] = checkpoint[k]
      BY <2>1, EvidenceImmutable
    <3>2. checkpoint[k].facts \subseteq Facts
      BY <1>0, <2>1 DEF CheckpointRow
    <3> QED
      BY <1>0, <2>1, <3>1, <3>2 DEF CutoverInv, VerifiedCheckpointHolds, Facts
  <2>2. CASE checkpoint[k] = None
    <3>1. PICK p \in Processes : InsertCheckpoint(p)
      <4>1. checkpoint' # checkpoint
        BY <2>2
      <4> QED
        BY <4>1 DEF CutoverNext, cutoverVars, configureLegalEntity, createAccount, RotateSigner,
           RecordEvidence, recordFinancialVerificationArtifact, prepareTigerBeetleCutover,
           approveTigerBeetleCutover, OperationStep, createJournalIntent, postJournal,
           writeReceipt, finalizeAccepted, CheckpointStep, reconcileFinancialCheckpoint,
           ReadOperations, CompareWithLedger, ActivationStep, activateTigerBeetleCutover,
           ListAccounts, ProvisionAccount, CompleteActivation, Die, evidenceVars
    <3>2. /\ k[1] = AuthorityOf[p]
          /\ checkpoint'[k].verified = call[p].verified
          /\ checkpoint'[k].facts = call[p].facts
          /\ pc[p] = "insert"
      <4> DEFINE key == <<AuthorityOf[p], call[p].request.watermark>>
                 row == [verified |-> call[p].verified, evidence |-> call[p].request.evidence,
                         provenance |-> call[p].request.provenance, facts |-> call[p].facts]
      <4>1. /\ pc[p] = "insert"
            /\ checkpoint' = [checkpoint EXCEPT ![key] = IF @ # None THEN @ ELSE row]
        BY <3>1 DEF InsertCheckpoint
      <4> HIDE DEF key, row
      <4>2. k = key /\ checkpoint'[k] = row
        BY <1>0, <2>2, <4>1
      <4>3. k[1] = AuthorityOf[p]
        BY <4>2 DEF key
      <4>4. row.verified = call[p].verified /\ row.facts = call[p].facts
        BY Zenon DEF row
      <4> QED
        BY <4>1, <4>2, <4>3, <4>4
    <3> QED
      BY <3>2, CallFacts DEF CutoverInv, ComparisonHolds, SnapshotIsPast
  <2> QED
    BY <2>1, <2>2
<1>2. k[1] # None
  BY DEF Engines, ControlStatus
<1> QED
  BY <1>1, <1>2, OperationsProgress

(* Every step keeps the invariant.                                          *)
LEMMA NextInv ==
  ASSUME CutoverInv, [CutoverNext]_cutoverVars
  PROVE  CutoverInv'
<1>1. OperationsHaveEngine'
  BY OperationsProgress DEF OperationsHaveEngine
<1> QED
  BY <1>1, TypeStep, RouteStep, QuietStep, SnapshotStep, ComparisonStep, RequestStep,
     ProvisionStep, ApprovalStep, CheckpointHolds DEF CutoverInv

(* The inductive invariant holds in every reachable state.                  *)
THEOREM CutoverInvariant == CutoverSpec => []CutoverInv
<1>1. CutoverInit => CutoverInv
  BY InitInv
<1>2. CutoverInv /\ [CutoverNext]_cutoverVars => CutoverInv'
  BY NextInv
<1> QED
  BY <1>1, <1>2, PTL DEF CutoverSpec

(* The configuration, the evidence and the calls keep their types.          *)
THEOREM CutoverTypeCorrect == CutoverSpec => []CutoverTypeOK
<1>1. CutoverInv => CutoverTypeOK
  BY DEF CutoverInv
<1> QED
  BY <1>1, CutoverInvariant, PTL

(* A cutover that is approved rests on verified evidence and a checkpoint   *)
(* of TigerBeetle made for it, whatever keys rotate and operators race.     *)
THEOREM ApprovalBacked == CutoverSpec => []ApprovalIsBacked
<1>1. CutoverInv => ApprovalIsBacked
  BY DEF CutoverInv
<1> QED
  BY <1>1, CutoverInvariant, PTL

(* A verified checkpoint is true although it is made without a lock: what   *)
(* it lists has been posted by the ledger of its engine.                    *)
THEOREM CheckpointTrue == CutoverSpec => []VerifiedCheckpointHolds
<1>1. CutoverInv => VerifiedCheckpointHolds
  BY DEF CutoverInv
<1> QED
  BY <1>1, CutoverInvariant, PTL

(* The route changes only when TigerBeetle has every account that the       *)
(* process which changes it listed.                                         *)
THEOREM RouteProvisioned == CutoverSpec => RouteHasAccounts
<1> DEFINE Provisioned ==
      \A p \in Processes :
         (route = "postgresql" /\ route' = "tigerbeetle" /\ pc[p] = "provision"
            /\ pc'[p] = "idle" /\ AuthorityOf[p] = "tigerbeetle") =>
           call[p].listed \subseteq executionAccounts
<1>1. CutoverInv /\ [CutoverNext]_cutoverVars => [Provisioned]_cutoverVars
  <2> SUFFICES ASSUME CutoverInv, [CutoverNext]_cutoverVars, NEW p \in Processes,
                      route = "postgresql", route' = "tigerbeetle",
                      pc[p] = "provision", pc'[p] = "idle", AuthorityOf[p] = "tigerbeetle"
               PROVE  call[p].listed \subseteq executionAccounts
    OBVIOUS
  <2>1. PICK q \in Processes : CompleteActivation(q)
    BY ControlSteps DEF configureLegalEntity, prepareTigerBeetleCutover,
       approveTigerBeetleCutover, activateTigerBeetleCutover, controlVars
  <2>2. q = p
    BY <2>1 DEF CompleteActivation, CutoverInv, CutoverTypeOK
  <2> QED
    BY <2>1, <2>2 DEF CompleteActivation, CutoverInv, DoneIsProvisioned
<1> QED
  BY <1>1, CutoverInvariant, PTL DEF CutoverSpec, RouteHasAccounts

-----------------------------------------------------------------------------
(* The refinement.                                                          *)

(* Operations begin only while the route and the control agree on an        *)
(* engine, and only by a step that leaves both alone.                       *)
LEMMA OpeningStep ==
  ASSUME CutoverInv, [CutoverNext]_cutoverVars, (Unresolved # {})' # (Unresolved # {})
  PROVE  UNCHANGED controlVars /\ ((Unresolved # {})' => (control.status # None /\ control.status = route))
<1>1. OperationStep
  BY DEF Unresolved, CutoverNext, cutoverVars, operationVars, configureLegalEntity,
     createAccount, RotateSigner, RecordEvidence, recordFinancialVerificationArtifact,
     prepareTigerBeetleCutover, approveTigerBeetleCutover, CheckpointStep,
     reconcileFinancialCheckpoint, ReadOperations, CompareWithLedger, InsertCheckpoint,
     ActivationStep, activateTigerBeetleCutover, ListAccounts, ProvisionAccount,
     CompleteActivation, Die
<1>2. PICK o \in Ops : \/ \E p \in Processes : createJournalIntent(p, o)
                       \/ postJournal(o) \/ writeReceipt(o) \/ finalizeAccepted(o)
  BY <1>1 DEF OperationStep
<1>3. CASE \E p \in Processes : createJournalIntent(p, o)
  BY <1>3 DEF createJournalIntent, controlVars, Engines, ControlStatus
<1>4. CASE postJournal(o) \/ writeReceipt(o) \/ finalizeAccepted(o)
  <2>1. o \in Unresolved
    BY <1>4 DEF postJournal, writeReceipt, finalizeAccepted, Unresolved
  <2> QED
    BY <1>4, <2>1 DEF postJournal, writeReceipt, finalizeAccepted, controlVars
<1> QED
  BY <1>2, <1>3, <1>4

(* Every step of the cutover is a step of the contract or none.             *)
LEMMA ContractStep ==
  ASSUME CutoverInv, [CutoverNext]_cutoverVars
  PROVE  [C!ContractNext]_C!contractVars
<1> USE DEF C!ContractNext, C!contractVars
<1> DEFINE open == Unresolved # {}
<1>1. CASE open' # open
  <2>1. UNCHANGED <<route, control>> /\ (open' => control.status # None /\ control.status = route)
    BY <1>1, OpeningStep DEF controlVars
  <2>2. open' \in BOOLEAN /\ open \in BOOLEAN
    OBVIOUS
  <2> QED
    BY <1>1, <2>1, <2>2 DEF C!OperationBegins, C!OperationsEnd
<1>2. CASE open' = open
  <2> HIDE DEF open
  <2>1. /\ control \in [status : ControlStatus \cup {None}, evidence : Artifacts \cup {None}]
        /\ RouteMatchesControl
    BY DEF CutoverInv, CutoverTypeOK
  <2>2. CASE configureLegalEntity
    BY <1>2, <2>1, <2>2 DEF configureLegalEntity, C!Configure, RouteMatchesControl, open
  <2>3. CASE prepareTigerBeetleCutover
    BY <1>2, <2>1, <2>3 DEF prepareTigerBeetleCutover, C!Prepare, open
  <2>4. ASSUME NEW x \in Artifacts, approveTigerBeetleCutover(x) PROVE C!Approve
    BY <1>2, <2>1, <2>4 DEF approveTigerBeetleCutover, CanMoveControl, C!Approve, ControlStatus, open
  <2>5. ASSUME NEW p \in Processes, activateTigerBeetleCutover(p)
        PROVE  C!Activate \/ UNCHANGED <<control, route>>
    BY <1>2, <2>1, <2>5 DEF activateTigerBeetleCutover, C!Activate, open
  <2>6. ASSUME NEW p \in Processes, CompleteActivation(p)
        PROVE  C!SwitchRoute \/ UNCHANGED <<control, route>>
    BY <1>2, <2>1, <2>6 DEF CompleteActivation, C!SwitchRoute, controlVars, open
  <2>7. CASE UNCHANGED controlVars
    BY <1>2, <2>7 DEF controlVars, open
  <2> QED
    BY <1>2, <2>2, <2>3, <2>4, <2>5, <2>6, <2>7, ControlSteps DEF open
<1> QED
  BY <1>1, <1>2

(* The commands implement the contract of the cutover.                      *)
THEOREM CutoverRefinement == CutoverSpec => ImplementsCutoverContract
<1>1. CutoverInit => C!ContractInit
  BY DEF CutoverInit, C!ContractInit, Unresolved
<1>2. CutoverInv /\ [CutoverNext]_cutoverVars => [C!ContractNext]_C!contractVars
  BY ContractStep
<1> QED
  BY <1>1, <1>2, CutoverInvariant, PTL DEF CutoverSpec, ImplementsCutoverContract, C!ContractSpec

=============================================================================
