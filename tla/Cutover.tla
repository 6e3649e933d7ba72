------------------------------- MODULE Cutover -------------------------------
(***************************************************************************)
(* The controlled cutover of one legal entity from the PostgreSQL ledger to *)
(* TigerBeetle (packages/accounting/src/service.ts), with the evidence it   *)
(* rests on: signed verification artifacts and the reconciliation           *)
(* checkpoints of packages/accounting/src/financial-operations.ts.          *)
(*                                                                         *)
(* prepare, approve and the recording of an artifact are one transaction    *)
(* each.  A checkpoint and an activation are not: a checkpoint reads the    *)
(* operations, asks the ledger about them and inserts its row without a     *)
(* lock in between; an activation provisions the accounts in the ledger     *)
(* between two transactions.  Any number of operators may be doing either   *)
(* at once.                                                                 *)
(*                                                                         *)
(* A hash stands for what it is computed from: the fact hashes of evidence  *)
(* are the set of facts, the watermarks and snapshot references of a        *)
(* request are one provenance.  The operations are those of                 *)
(* FinancialOperations as far as a checkpoint and an approval see them; all *)
(* of them are over the same ledger accounts.                               *)
(***************************************************************************)
CONSTANTS
    Processes,           \* API processes
    AuthorityOf,         \* the ledger a process is configured with
    Accounts,            \* accounts.id
    Ops,                 \* financial operations
    Artifacts,           \* financial_verification_artifacts.id
    Provenances,         \* source and target watermarks and snapshot references
    RecoveryWatermarks,  \* the idempotency key of a checkpoint
    Keys,                \* signing keys
    None

Engines == {"postgresql", "tigerbeetle"}

ControlStatus == {"postgresql", "preparing_tigerbeetle", "approved", "activating", "tigerbeetle"}

ASSUME CutoverConstants ==
    /\ AuthorityOf \in [Processes -> Engines]
    /\ None \notin Artifacts \cup Keys \cup ControlStatus

VARIABLES
    route,              \* legal_entity_accounting_configurations.financial_engine
    control,            \* financial_cutover_controls: status and evidence
    accounts,           \* rows of accounts
    executionAccounts,  \* accounts TigerBeetle has
    artifact,           \* id -> row of financial_verification_artifacts, or None
    checkpoint,         \* engine, recovery watermark -> row, or None
    signer,             \* the key the deployment signs with, or None
    opStatus,           \* op -> financial_operations.status
    opEngine,           \* op -> financial_operations.engine
    posted,             \* ops the authority ledger has posted
    pc,                 \* process -> where it is in its call
    call                \* process -> what its call holds

controlVars == <<route, control>>
accountVars == <<accounts, executionAccounts>>
evidenceVars == <<artifact, checkpoint, signer>>
operationVars == <<opStatus, opEngine, posted>>
processVars == <<pc, call>>
cutoverVars == <<route, control, accounts, executionAccounts, artifact, checkpoint,
                 signer, opStatus, opEngine, posted, pc, call>>

(* A fact of a snapshot: an operation and the status it has in PostgreSQL.  *)
Facts == [op : Ops, status : {"intent", "accepted", "reconciled"}]

ArtifactRow ==
    [kind : {"cutover_rehearsal", "observability"}, verified : BOOLEAN,
     provenance : Provenances, facts : SUBSET Facts, key : Keys]

CheckpointRow ==
    [verified : BOOLEAN, evidence : Artifacts \cup {None},
     provenance : Provenances, facts : SUBSET Facts]

(* What a checkpoint is asked for.                                          *)
Request == [watermark : RecoveryWatermarks, evidence : Artifacts \cup {None},
            provenance : Provenances]

Idle == [request |-> None, facts |-> {}, verified |-> FALSE, remaining |-> {}, listed |-> {}]

CutoverTypeOK ==
    /\ route \in Engines \cup {None}
    /\ control \in [status : ControlStatus \cup {None}, evidence : Artifacts \cup {None}]
    /\ accounts \subseteq Accounts
    /\ executionAccounts \subseteq Accounts
    /\ artifact \in [Artifacts -> ArtifactRow \cup {None}]
    /\ checkpoint \in [Engines \X RecoveryWatermarks -> CheckpointRow \cup {None}]
    /\ signer \in Keys \cup {None}
    /\ opStatus \in [Ops -> {"absent", "intent", "accepted", "rejected", "reconciled"}]
    /\ opEngine \in [Ops -> Engines \cup {None}]
    /\ posted \subseteq Ops
    /\ pc \in [Processes -> {"idle", "snapshot", "compare", "insert", "list", "provision"}]
    /\ call \in [Processes -> [request : Request \cup {None}, facts : SUBSET Facts,
                               verified : BOOLEAN, remaining : SUBSET Accounts,
                               listed : SUBSET Accounts]]

CutoverInit ==
    /\ route = None
    /\ control = [status |-> None, evidence |-> None]
    /\ accounts = {}
    /\ executionAccounts = {}
    /\ artifact = [x \in Artifacts |-> None]
    /\ checkpoint = [k \in Engines \X RecoveryWatermarks |-> None]
    /\ signer = None
    /\ opStatus = [o \in Ops |-> "absent"]
    /\ opEngine = [o \in Ops |-> None]
    /\ posted = {}
    /\ pc = [p \in Processes |-> "idle"]
    /\ call = [p \in Processes |-> Idle]

-----------------------------------------------------------------------------
(* Configuration.                                                           *)

(* The trigger legal_entity_accounting_cutover_control inserts the control  *)
(* row with the configuration, which is never TigerBeetle's.                *)
configureLegalEntity ==
    /\ route = None
    /\ route' = "postgresql"
    /\ control' = [control EXCEPT !.status = "postgresql"]
    /\ UNCHANGED <<accountVars, evidenceVars, operationVars, processVars>>

createAccount(a) ==
    /\ a \notin accounts
    /\ accounts' = accounts \cup {a}
    /\ UNCHANGED <<controlVars, executionAccounts, evidenceVars, operationVars, processVars>>

(* The deployment gets another key, or none.                                *)
RotateSigner(k) ==
    /\ k # signer
    /\ signer' = k
    /\ UNCHANGED <<controlVars, accountVars, artifact, checkpoint, operationVars, processVars>>

-----------------------------------------------------------------------------
(* The operations, as the cutover sees them.                                *)

(* createJournalIntent locks the configuration and the control.             *)
createJournalIntent(p, o) ==
    /\ opStatus[o] = "absent"
    /\ route = AuthorityOf[p] /\ control.status = route
    /\ opStatus' = [opStatus EXCEPT ![o] = "intent"]
    /\ opEngine' = [opEngine EXCEPT ![o] = route]
    /\ UNCHANGED <<posted, controlVars, accountVars, evidenceVars, processVars>>

(* The ledger posts.  PostgreSQL accepts in the same transaction, the       *)
(* receipt of TigerBeetle comes later.                                      *)
postJournal(o) ==
    /\ opStatus[o] = "intent" /\ o \notin posted
    /\ posted' = posted \cup {o}
    /\ opStatus' = [opStatus EXCEPT ![o] = IF opEngine[o] = "postgresql" THEN "accepted" ELSE @]
    /\ UNCHANGED <<opEngine, controlVars, accountVars, evidenceVars, processVars>>

writeReceipt(o) ==
    /\ opStatus[o] = "intent"
    /\ opStatus' = [opStatus EXCEPT ![o] = IF o \in posted THEN "accepted" ELSE "rejected"]
    /\ UNCHANGED <<opEngine, posted, controlVars, accountVars, evidenceVars, processVars>>

finalizeAccepted(o) ==
    /\ opStatus[o] = "accepted"
    /\ opStatus' = [opStatus EXCEPT ![o] = "reconciled"]
    /\ UNCHANGED <<opEngine, posted, controlVars, accountVars, evidenceVars, processVars>>

(* The operations a checkpoint reads: every one of the engine that is not   *)
(* rejected.                                                                *)
FactsOf(engine) ==
    {[op |-> o, status |-> opStatus[o]] :
       o \in {oo \in Ops : opEngine[oo] = engine /\ opStatus[oo] # "rejected"}}

Unresolved == {o \in Ops : opStatus[o] \in {"intent", "accepted"}}

-----------------------------------------------------------------------------
(* Evidence.                                                                *)

(* MUTANT of recordFinancialVerificationArtifact: a deployment without a    *)
(* signer records too.                                                      *)
recordFinancialVerificationArtifact_Unsigned(x, kind, verified, provenance, facts) ==
    /\ artifact[x] = None
    /\ route # None
    /\ artifact' = [artifact EXCEPT ![x] =
         [kind |-> kind, verified |-> verified, provenance |-> provenance,
          facts |-> facts, key |-> signer]]
    /\ UNCHANGED <<checkpoint, signer, controlVars, accountVars, operationVars, processVars>>

(* Whatever evidence the producer presents is signed and stored; it is      *)
(* "verified" when it counts no mismatch.  The row is immutable.            *)
recordFinancialVerificationArtifact(x, kind, verified, provenance, facts) ==
    /\ artifact[x] = None
    /\ route # None
    /\ signer # None
    /\ artifact' = [artifact EXCEPT ![x] =
         [kind |-> kind, verified |-> verified, provenance |-> provenance,
          facts |-> facts, key |-> signer]]
    /\ UNCHANGED <<checkpoint, signer, controlVars, accountVars, operationVars, processVars>>

(* The artifact a checkpoint refers to is verified and of one provenance    *)
(* with the request.                                                        *)
EvidenceFits(request) ==
    request.evidence # None =>
      /\ artifact[request.evidence] # None
      /\ artifact[request.evidence].verified
      /\ artifact[request.evidence].provenance = request.provenance

(* A row the watermark already has is the answer, or a conflict when it was *)
(* made for another request; nothing is written then.                       *)
reconcileFinancialCheckpoint(p, request) ==
    /\ pc[p] = "idle"
    /\ route # None
    /\ EvidenceFits(request)
    /\ checkpoint[<<AuthorityOf[p], request.watermark>>] = None
    /\ pc' = [pc EXCEPT ![p] = "snapshot"]
    /\ call' = [call EXCEPT ![p].request = request]
    /\ UNCHANGED <<controlVars, accountVars, evidenceVars, operationVars>>

(* The operations are read once and without a lock.                         *)
ReadOperations(p) ==
    /\ pc[p] = "snapshot"
    /\ pc' = [pc EXCEPT ![p] = "compare"]
    /\ call' = [call EXCEPT ![p].facts = FactsOf(AuthorityOf[p])]
    /\ UNCHANGED <<controlVars, accountVars, evidenceVars, operationVars>>

(* MUTANT of compareFinancialFactSnapshots: only the balances are compared. *)
compareFinancialFactSnapshots_BalancesOnly(p) ==
    call[p].facts # {} =>
      \A o \in posted : opEngine[o] = AuthorityOf[p] => \E f \in call[p].facts : f.op = o

(* What the ledger says now against what was read then: every operation is  *)
(* posted and was projected (the journal of an accepted TigerBeetle         *)
(* operation is still a draft), and the balances hold nothing else.  No     *)
(* operation, no balance to look at.                                        *)
compareFinancialFactSnapshots(p) ==
    /\ \A f \in call[p].facts :
         /\ f.op \in posted
         /\ \/ f.status = "reconciled"
            \/ f.status = "accepted" /\ AuthorityOf[p] = "postgresql"
    /\ call[p].facts # {} =>
         \A o \in posted : opEngine[o] = AuthorityOf[p] => \E f \in call[p].facts : f.op = o

(* The comparison with the ledger, and of the facts with the hashes of the  *)
(* artifact.  The hashes also depend on the order of the rows: equal facts  *)
(* in another order end the call too, as Die does.                          *)
CompareWithLedger(p) ==
    LET x == call[p].request.evidence IN
    /\ pc[p] = "compare"
    /\ IF x # None /\ artifact[x].facts # call[p].facts
       THEN /\ pc' = [pc EXCEPT ![p] = "idle"]
            /\ call' = [call EXCEPT ![p] = Idle]
       ELSE /\ pc' = [pc EXCEPT ![p] = "insert"]
            /\ call' = [call EXCEPT ![p].verified = compareFinancialFactSnapshots(p)]
    /\ UNCHANGED <<controlVars, accountVars, evidenceVars, operationVars>>

(* The row is inserted unless somebody else has inserted one for the same   *)
(* watermark; then that row is the answer, or the conflict.                 *)
InsertCheckpoint(p) ==
    LET request == call[p].request
        k == <<AuthorityOf[p], request.watermark>>
    IN
    /\ pc[p] = "insert"
    /\ checkpoint' = [checkpoint EXCEPT ![k] =
         IF @ # None THEN @
         ELSE [verified |-> call[p].verified, evidence |-> request.evidence,
               provenance |-> request.provenance, facts |-> call[p].facts]]
    /\ pc' = [pc EXCEPT ![p] = "idle"]
    /\ call' = [call EXCEPT ![p] = Idle]
    /\ UNCHANGED <<controlVars, accountVars, artifact, signer, operationVars>>

-----------------------------------------------------------------------------
(* The cutover commands.                                                    *)

(* The trigger financial_cutover_controls_transition.                       *)
CanMoveControl(from, to) ==
    \/ from = to
    \/ <<from, to>> \in {<<"postgresql", "preparing_tigerbeetle">>,
                         <<"preparing_tigerbeetle", "approved">>,
                         <<"approved", "activating">>,
                         <<"activating", "tigerbeetle">>}

(* Any later status is returned as it is.                                   *)
prepareTigerBeetleCutover ==
    /\ control.status = "postgresql" /\ route = "postgresql"
    /\ control' = [control EXCEPT !.status = "preparing_tigerbeetle"]
    /\ UNCHANGED <<route, accountVars, evidenceVars, operationVars, processVars>>

(* The artifact is verified cutover evidence, signed with the key that is   *)
(* current (there is no keyring).                                           *)
ArtifactValid(x) ==
    /\ artifact[x] # None
    /\ artifact[x].verified
    /\ artifact[x].kind = "cutover_rehearsal"
    /\ artifact[x].key = signer

(* MUTANT of CheckpointBacks: any verified checkpoint will do.              *)
CheckpointBacks_AnyArtifact(x) ==
    \E w \in RecoveryWatermarks :
      LET row == checkpoint[<<"tigerbeetle", w>>] IN
      row # None /\ row.verified

(* A verified TigerBeetle checkpoint was made for the artifact, of the same *)
(* provenance and facts.                                                    *)
CheckpointBacks(x) ==
    \E w \in RecoveryWatermarks :
      LET row == checkpoint[<<"tigerbeetle", w>>] IN
      /\ row # None
      /\ row.verified /\ row.evidence = x
      /\ row.provenance = artifact[x].provenance
      /\ row.facts = artifact[x].facts

(* MUTANT of approveTigerBeetleCutover: unresolved operations are not       *)
(* counted.                                                                 *)
approveTigerBeetleCutover_Unresolved(x) ==
    /\ control.status = "preparing_tigerbeetle"
    /\ route = "postgresql"
    /\ ArtifactValid(x) /\ CheckpointBacks(x)
    /\ control' = [control EXCEPT !.status = "approved", !.evidence = x]
    /\ UNCHANGED <<route, accountVars, evidenceVars, operationVars, processVars>>

(* An approved cutover is not approved again: the same artifact is          *)
(* confirmed, another one refused.  One that is activating would go back    *)
(* but for the trigger.                                                     *)
approveTigerBeetleCutover(x) ==
    /\ control.status \notin {None, "tigerbeetle", "approved", "postgresql"}
    /\ route = "postgresql"
    /\ ArtifactValid(x) /\ Unresolved = {} /\ CheckpointBacks(x)
    /\ CanMoveControl(control.status, "approved")
    /\ control' = [control EXCEPT !.status = "approved", !.evidence = x]
    /\ UNCHANGED <<route, accountVars, evidenceVars, operationVars, processVars>>

(* The first transaction of an activation.  Another one that is under way,  *)
(* or was given up, is joined.                                              *)
activateTigerBeetleCutover(p) ==
    /\ pc[p] = "idle"
    /\ control.status \in {"approved", "activating"}
    /\ route = "postgresql"
    /\ control' = [control EXCEPT !.status = "activating"]
    /\ pc' = [pc EXCEPT ![p] = "list"]
    /\ UNCHANGED <<route, accountVars, evidenceVars, operationVars, call>>

ListAccounts(p) ==
    /\ pc[p] = "list"
    /\ pc' = [pc EXCEPT ![p] = "provision"]
    /\ call' = [call EXCEPT ![p].remaining = accounts, ![p].listed = accounts]
    /\ UNCHANGED <<controlVars, accountVars, evidenceVars, operationVars>>

(* MUTANT of ProvisionAccount: an account that was not accepted is left     *)
(* out.                                                                     *)
ProvisionAccount_SkipsFailures(p) ==
    /\ pc[p] = "provision"
    /\ \E a \in call[p].remaining :
         /\ call' = [call EXCEPT ![p].remaining = @ \ {a}]
         /\ executionAccounts' \in {executionAccounts, executionAccounts \cup {a}}
    /\ UNCHANGED <<controlVars, accounts, evidenceVars, operationVars, pc>>

(* createExecutionAccount of the process's own ledger.  Over PostgreSQL it  *)
(* only reads.  What is not accepted (refused, or the answer is lost and    *)
(* the account may exist) ends the activation; the control stays as it is,  *)
(* but for the text of its last error.                                      *)
ProvisionAccount(p) ==
    /\ pc[p] = "provision"
    /\ \E a \in call[p].remaining :
         \/ /\ call' = [call EXCEPT ![p].remaining = @ \ {a}]
            /\ executionAccounts' = IF AuthorityOf[p] = "tigerbeetle"
                                    THEN executionAccounts \cup {a} ELSE executionAccounts
            /\ UNCHANGED pc
         \/ /\ executionAccounts' \in
                 {executionAccounts} \cup
                 (IF AuthorityOf[p] = "tigerbeetle" THEN {executionAccounts \cup {a}} ELSE {})
            /\ pc' = [pc EXCEPT ![p] = "idle"]
            /\ call' = [call EXCEPT ![p] = Idle]
    /\ UNCHANGED <<controlVars, accounts, evidenceVars, operationVars>>

(* The last transaction: the route, which the trigger                       *)
(* legal_entity_accounting_engine_activation_gate lets change only while    *)
(* activating, and the control together.  Whoever comes second finds both   *)
(* done.                                                                    *)
CompleteActivation(p) ==
    /\ pc[p] = "provision" /\ call[p].remaining = {}
    /\ \/ /\ control.status = "activating"
          /\ route' = "tigerbeetle"
          /\ control' = [control EXCEPT !.status = "tigerbeetle"]
       \/ /\ control.status = "tigerbeetle"
          /\ UNCHANGED controlVars
    /\ pc' = [pc EXCEPT ![p] = "idle"]
    /\ call' = [call EXCEPT ![p] = Idle]
    /\ UNCHANGED <<accountVars, evidenceVars, operationVars>>

(* The process dies, or a query or an unacknowledged commit fails its call. *)
Die(p) ==
    /\ pc[p] # "idle"
    /\ pc' = [pc EXCEPT ![p] = "idle"]
    /\ call' = [call EXCEPT ![p] = Idle]
    /\ UNCHANGED <<controlVars, accountVars, evidenceVars, operationVars>>

-----------------------------------------------------------------------------
(* The evidence a producer may present: the facts of an engine as they are. *)
RecordEvidence ==
    \E x \in Artifacts, kind \in {"cutover_rehearsal", "observability"},
       verified \in BOOLEAN, provenance \in Provenances, engine \in Engines :
      recordFinancialVerificationArtifact(x, kind, verified, provenance, FactsOf(engine))

OperationStep ==
    \E o \in Ops :
      \/ \E p \in Processes : createJournalIntent(p, o)
      \/ postJournal(o) \/ writeReceipt(o) \/ finalizeAccepted(o)

CheckpointStep(p) ==
    \/ \E request \in Request : reconcileFinancialCheckpoint(p, request)
    \/ ReadOperations(p) \/ CompareWithLedger(p) \/ InsertCheckpoint(p)

ActivationStep(p) ==
    \/ activateTigerBeetleCutover(p) \/ ListAccounts(p)
    \/ ProvisionAccount(p) \/ CompleteActivation(p)

CutoverNext ==
    \/ configureLegalEntity
    \/ \E a \in Accounts : createAccount(a)
    \/ \E k \in Keys \cup {None} : RotateSigner(k)
    \/ RecordEvidence
    \/ prepareTigerBeetleCutover
    \/ \E x \in Artifacts : approveTigerBeetleCutover(x)
    \/ OperationStep
    \/ \E p \in Processes : CheckpointStep(p) \/ ActivationStep(p) \/ Die(p)

CutoverSpec == CutoverInit /\ [][CutoverNext]_cutoverVars

-----------------------------------------------------------------------------
(* From its approval on a cutover rests on one artifact, and the artifact   *)
(* on a checkpoint: verified evidence of a rehearsal, confirmed by a        *)
(* TigerBeetle checkpoint made for this artifact from the same facts.  Keys *)
(* that rotate, checkpoints that race for a watermark and activations that  *)
(* are given up and joined never leave the control with less.               *)
ApprovalIsBacked ==
    control.status \in {"approved", "activating", "tigerbeetle"} =>
      LET x == control.evidence IN
      /\ x # None
      /\ artifact[x] # None
      /\ artifact[x].verified /\ artifact[x].kind = "cutover_rehearsal"
      /\ \E w \in RecoveryWatermarks :
           LET row == checkpoint[<<"tigerbeetle", w>>] IN
           row # None /\ row.verified /\ row.evidence = x /\ row.facts = artifact[x].facts

(* A verified checkpoint is true although nothing is locked while it is     *)
(* made: each operation it lists has been posted by the ledger of its       *)
(* engine, and the books show it.                                           *)
VerifiedCheckpointHolds ==
    \A k \in DOMAIN checkpoint :
      (checkpoint[k] # None /\ checkpoint[k].verified) =>
        \A f \in checkpoint[k].facts :
          /\ f.op \in posted
          /\ opStatus[f.op] \in {"accepted", "reconciled"}
          /\ opEngine[f.op] = k[1]

(* The route changes only when TigerBeetle has every account the activating *)
(* process listed, and then with the status of the control; an activation   *)
(* through a process that talks to PostgreSQL provisions nothing.           *)
RouteHasAccounts ==
    [][\A p \in Processes :
         (route = "postgresql" /\ route' = "tigerbeetle" /\ pc[p] = "provision"
            /\ pc'[p] = "idle" /\ AuthorityOf[p] = "tigerbeetle") =>
           call[p].listed \subseteq executionAccounts]_cutoverVars

C == INSTANCE CutoverContract WITH
       Evidence <- Artifacts, status <- control.status, evidence <- control.evidence,
       open <- Unresolved # {}

(* The commands implement the contract of the cutover: forward one status   *)
(* at a time, bound to the evidence of the approval, no operation open on   *)
(* the way, and the route changed by the last step only, however many       *)
(* operators prepare, approve and activate at once.                         *)
ImplementsCutoverContract == C!ContractSpec
=============================================================================
