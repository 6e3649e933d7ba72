------------------------- MODULE FinancialOperations -------------------------
(***************************************************************************)
(* The financial operation protocol of packages/accounting/src/             *)
(* financial-operations.ts: an operation is recorded as an intent, submitted *)
(* to the ledger that is the legal entity's financial authority, and its    *)
(* receipt is written back and projected on the journal.  One legal entity  *)
(* and one accounting period; every operation belongs to both.              *)
(*                                                                         *)
(* submit is not atomic.  It is a chain of database transactions with calls *)
(* to the ledger between them, so the model gives every process a program   *)
(* counter and one action per transaction or ledger call.  Between any two  *)
(* of them another process may be running the same operation (a lease ran   *)
(* out), the process may die, or a request may have got lost.               *)
(*                                                                         *)
(* Two ledgers implement FinancialLedgerPort.  TigerBeetle                  *)
(* (packages/kernel/src/tigerbeetle.ts) is a separate system: its facts are *)
(* in ledger, a request whose answer is no longer awaited may still be      *)
(* executed later (inflight), and the chain of transfers of an operation is *)
(* one atomic unit with deterministic ids.  The PostgreSQL ledger           *)
(* (postgresql-ledger.ts) decides in a transaction of its own on the same   *)
(* rows; there, ledger[o] = "posted" stands for its posted journal lines.   *)
(***************************************************************************)
CONSTANTS
    Processes,     \* API and worker processes
    Ops,           \* operation ids
    SourceOf,      \* the operation whose journal an operation reverses, or None
    AuthorityOf,   \* the financialAuthority a process is configured with
    None

Engines == {"postgresql", "tigerbeetle"}

ASSUME OperationConstants ==
    /\ AuthorityOf \in [Processes -> Engines]
    /\ SourceOf \in [Ops -> Ops \cup {None}]
    /\ None \notin Ops \cup Engines

VARIABLES
    opStatus,   \* op -> financial_operations.status
    engine,     \* op -> financial_operations.engine, fixed by the intent
    accounts,   \* op -> what the ledger says of the accounts and of the mapping
    transfers,  \* op -> financial_operation_transfers.status
    journal,    \* op -> journal_entries.status
    event,      \* op -> the reconciled event is in the outbox
    ledger,     \* op -> the fact in the authority ledger
    inflight,   \* ops with a TigerBeetle request nobody waits for any more
    wanted,     \* (op, job type) pairs jobs.enqueue was called with
    period,     \* accounting_periods.status
    posting,    \* legal_entity_accounting_configurations.posting_enabled
    cutover,    \* financial_cutover_controls.status
    pc,         \* process -> where it is in submit or in the rebuild
    op,         \* process -> the operation it submits or rebuilds
    mode,       \* process -> the job type, then whether it looks up or posts
    reply,      \* process -> the outcome it has to write as a receipt
    result      \* process -> the status submit returns, or how it failed:
                \*   "refused" by a constraint or a conflict, "error" otherwise

recordVars == <<opStatus, engine, accounts, transfers, journal, event, wanted>>
ledgerVars == <<ledger, inflight>>
controlVars == <<period, posting, cutover>>
callVars == <<pc, op, mode, reply, result>>
opVars == <<opStatus, engine, accounts, transfers, journal, event, ledger,
            inflight, wanted, period, posting, cutover, pc, op, mode, reply, result>>

OpStatus == {"intent", "submitted", "accepted", "rejected", "unknown",
             "manual_recovery", "reconciled"}

(* MUTANT of Terminal: an unknown outcome is returned as if it were final.  *)
Terminal_Unknown == {"reconciled", "rejected", "manual_recovery", "unknown"}

(* The statuses submit returns at once.                                     *)
Terminal == {"reconciled", "rejected", "manual_recovery"}

(* MUTANT of Unresolved: an operation in manual recovery is taken as        *)
(* settled.                                                                 *)
Unresolved_NoManualRecovery == {"intent", "submitted", "accepted", "unknown"}

(* The statuses closePeriod and approveTigerBeetleCutover wait for.         *)
Unresolved == {"intent", "submitted", "accepted", "unknown", "manual_recovery"}

(* FinancialExecutionOutcome.  "misidentified" is the outcome the           *)
(* PostgreSQL ledger returns for a DatabaseFailure: unknown, but under the  *)
(* operation id "unknown" instead of the operation's own.                   *)
Outcomes == {"accepted", "rejected", "manual_recovery", "unknown", "misidentified"}

CutoverStatus == {"postgresql", "preparing_tigerbeetle", "approved",
                  "activating", "tigerbeetle"}

OpsTypeOK ==
    /\ opStatus \in [Ops -> OpStatus \cup {"absent"}]
    /\ engine \in [Ops -> Engines \cup {None}]
    /\ accounts \in [Ops -> {"accepted", "rejected", "manual_recovery"}]
    /\ transfers \in [Ops -> {"unresolved", "accepted", "rejected", "manual_recovery"}]
    /\ journal \in [Ops -> {"draft", "posted", "reversed"}]
    /\ event \in [Ops -> BOOLEAN]
    /\ ledger \in [Ops -> {"absent", "posted", "failed"}]
    /\ inflight \subseteq Ops
    /\ wanted \subseteq Ops \X {"submit", "reconcile"}
    /\ period \in {"open", "closed"}
    /\ posting \in BOOLEAN
    /\ cutover \in CutoverStatus
    /\ pc \in [Processes -> {"idle", "begin", "defer", "account", "lookup",
                             "post", "receipt", "finalize", "done",
                             "verify", "rebuild", "quarantine"}]
    /\ op \in [Processes -> Ops \cup {None}]
    /\ mode \in [Processes -> {"submit", "reconcile"}]
    /\ reply \in [Processes -> Outcomes]
    /\ result \in [Processes -> OpStatus \cup {"refused", "error"}]

OpsInit ==
    /\ opStatus = [o \in Ops |-> "absent"]
    /\ engine = [o \in Ops |-> None]
    /\ accounts \in [Ops -> {"accepted", "rejected", "manual_recovery"}]
    /\ transfers = [o \in Ops |-> "unresolved"]
    /\ journal = [o \in Ops |-> "draft"]
    /\ event = [o \in Ops |-> FALSE]
    /\ ledger = [o \in Ops |-> "absent"]
    /\ inflight = {}
    /\ wanted = {}
    /\ period = "open"
    /\ posting = TRUE
    /\ cutover \in Engines           \* before its cutover, or after it
    /\ pc = [p \in Processes |-> "idle"]
    /\ op = [p \in Processes |-> None]
    /\ mode = [p \in Processes |-> "submit"]
    /\ reply = [p \in Processes |-> "unknown"]
    /\ result = [p \in Processes |-> "error"]

-----------------------------------------------------------------------------
(* Database constraints the transactions run into.                          *)

(* The trigger financial_operations_transition.  An UPDATE it refuses fails *)
(* the transaction.                                                         *)
CanMove(from, to) ==
    \/ from = to
    \/ from = "intent" /\ to \in {"submitted", "manual_recovery"}
    \/ from = "submitted" /\ to \in {"accepted", "reconciled", "rejected",
                                     "unknown", "manual_recovery"}
    \/ from = "unknown" /\ to \in {"submitted", "manual_recovery"}
    \/ from = "accepted" /\ to \in {"reconciled", "manual_recovery"}
    \/ from = "reconciled" /\ to = "manual_recovery"

(* The trigger financial_operation_transfers_transition.                    *)
CanMoveTransfers(from, to) ==
    \/ from = to
    \/ from = "unresolved" /\ to \in {"accepted", "rejected", "manual_recovery"}
    \/ from = "accepted" /\ to = "manual_recovery"

(* journal_entries_immutable_trigger refuses every UPDATE of a posted or    *)
(* reversed journal, an UPDATE that changes nothing included.               *)
JournalWritable(o) == journal[o] = "draft"

(* The status a journal ends in: a reversing journal ends as "reversed".    *)
JournalTarget(o) == IF SourceOf[o] = None THEN "posted" ELSE "reversed"

(* legal_entity_accounting_configurations.financial_engine.  Activation     *)
(* writes it in the transaction that ends the cutover.                      *)
ConfigEngine == IF cutover = "tigerbeetle" THEN "tigerbeetle" ELSE "postgresql"

-----------------------------------------------------------------------------
(* Moves of the program counter.                                            *)

Goto(p, label) ==
    /\ pc' = [pc EXCEPT ![p] = label]
    /\ UNCHANGED <<op, mode, reply, result>>

Reply(p, outcome) ==
    /\ pc' = [pc EXCEPT ![p] = "receipt"]
    /\ reply' = [reply EXCEPT ![p] = outcome]
    /\ UNCHANGED <<op, mode, result>>

Return(p, value) ==
    /\ pc' = [pc EXCEPT ![p] = "done"]
    /\ result' = [result EXCEPT ![p] = value]
    /\ reply' = [reply EXCEPT ![p] = "unknown"]
    /\ UNCHANGED <<op, mode>>

(* The call is over: its local variables are gone.                          *)
Forget(p) ==
    /\ pc' = [pc EXCEPT ![p] = "idle"]
    /\ op' = [op EXCEPT ![p] = None]
    /\ mode' = [mode EXCEPT ![p] = "submit"]
    /\ reply' = [reply EXCEPT ![p] = "unknown"]
    /\ result' = [result EXCEPT ![p] = "error"]

-----------------------------------------------------------------------------
(* createJournalIntent, createRevenueIntent and createReversalIntent: the   *)
(* draft journal, the operation, its transfers and the submit job in one    *)
(* transaction.  A repeated call finds the operation and returns it.        *)

(* MUTANT of SourceReady: source_journal_id is not unique.                  *)
SourceReady_NotUnique(o) ==
    LET source == SourceOf[o] IN
    source # None =>
      /\ journal[source] = "posted"
      /\ opStatus[source] = "reconciled"
      /\ engine[source] = ConfigEngine

(* The journal an intent reverses is posted, not itself a reversal, its     *)
(* operation is reconciled in the engine now configured, and no other       *)
(* operation reverses it (unique key on source_journal_id).                 *)
SourceReady(o) ==
    LET source == SourceOf[o] IN
    source # None =>
      /\ journal[source] = "posted"
      /\ opStatus[source] = "reconciled"
      /\ engine[source] = ConfigEngine
      /\ \A other \in Ops \ {o} :
           SourceOf[other] = source => opStatus[other] = "absent"

(* The engine is configured, is the one this process talks to, and no       *)
(* cutover away from it has begun.                                          *)
EngineActive(p) ==
    /\ ConfigEngine = AuthorityOf[p]
    /\ cutover = ConfigEngine

createJournalIntent(p, o) ==
    /\ opStatus[o] = "absent"
    /\ EngineActive(p)
    /\ posting /\ period = "open"
    /\ SourceReady(o)
    /\ opStatus' = [opStatus EXCEPT ![o] = "intent"]
    /\ engine' = [engine EXCEPT ![o] = ConfigEngine]
    /\ wanted' = wanted \cup {<<o, "submit">>}
    /\ UNCHANGED <<accounts, transfers, journal, event, ledgerVars, controlVars, callVars>>

-----------------------------------------------------------------------------
(* submit: submitFinancialOperation and reconcileFinancialOperation.        *)

(* The unlocked read and the authorization of the actor who made the        *)
(* intent.  A denial is written as a receipt; nothing is locked meanwhile.  *)
submit(p, o, jobType) ==
    /\ pc[p] = "idle"
    /\ opStatus[o] # "absent"
    /\ op' = [op EXCEPT ![p] = o]
    /\ mode' = [mode EXCEPT ![p] = jobType]
    /\ IF opStatus[o] \in Terminal
       THEN /\ pc' = [pc EXCEPT ![p] = "done"]
            /\ result' = [result EXCEPT ![p] = opStatus[o]]
            /\ UNCHANGED reply
       ELSE /\ pc' = [pc EXCEPT ![p] = "begin"]
            /\ UNCHANGED <<reply, result>>
    /\ UNCHANGED <<recordVars, ledgerVars, controlVars>>

AuthorizationDenied(p) ==
    /\ pc[p] = "begin"
    /\ Reply(p, "manual_recovery")
    /\ UNCHANGED <<recordVars, ledgerVars, controlVars>>

(* The intent takes the posting path only when it is not a reconciliation;  *)
(* only that path looks at the configuration and the period.                *)
FirstSubmission(p) == mode[p] = "submit" /\ opStatus[op[p]] = "intent"

RoutingChanged(p) ==
    LET o == op[p] IN
    \/ engine[o] # AuthorityOf[p]
    \/ FirstSubmission(p) /\ ConfigEngine # engine[o]

PostingBlocked(p) ==
    FirstSubmission(p) /\ (~ posting \/ period # "open")

(* The transaction that locks the operation and decides between posting and *)
(* looking up.                                                              *)
BeginSubmission(p) ==
    LET o == op[p] IN
    /\ pc[p] = "begin"
    /\ \/ /\ opStatus[o] \in Terminal
          /\ Return(p, opStatus[o])
          /\ UNCHANGED opStatus
       \/ /\ opStatus[o] \notin Terminal
          /\ RoutingChanged(p)
          /\ Reply(p, "manual_recovery")
          /\ UNCHANGED opStatus
       \/ /\ opStatus[o] \notin Terminal
          /\ ~ RoutingChanged(p)
          /\ PostingBlocked(p)
          /\ Goto(p, "defer")
          /\ UNCHANGED opStatus
       \/ /\ opStatus[o] \notin Terminal
          /\ ~ RoutingChanged(p) /\ ~ PostingBlocked(p)
          /\ opStatus' = [opStatus EXCEPT
                            ![o] = IF @ \in {"intent", "unknown"} THEN "submitted" ELSE @]
          /\ pc' = [pc EXCEPT ![p] = "account"]
          /\ mode' = [mode EXCEPT ![p] = IF FirstSubmission(p) THEN "submit" ELSE "reconcile"]
          /\ UNCHANGED <<op, reply, result>>
    /\ UNCHANGED <<engine, accounts, transfers, journal, event, wanted, ledgerVars, controlVars>>

(* A blocked operation is only rescheduled; whatever status it has by then  *)
(* is returned.                                                             *)
DeferBlocked(p) ==
    /\ pc[p] = "defer"
    /\ Return(p, opStatus[op[p]])
    /\ UNCHANGED <<recordVars, ledgerVars, controlVars>>

(* The accounts of the journal are created (or found) in the ledger and the *)
(* expected transfer ids are stored.  A mapping that does not fit is one of *)
(* the ways accounts[o] is "manual_recovery".                               *)
CreateExecutionAccounts(p) ==
    LET o == op[p] IN
    /\ pc[p] = "account"
    /\ \/ /\ accounts[o] = "accepted"
          /\ Goto(p, IF mode[p] = "reconcile" THEN "lookup" ELSE "post")
       \/ /\ accounts[o] # "accepted"
          /\ Reply(p, accounts[o])
    /\ UNCHANGED <<recordVars, ledgerVars, controlVars>>

AccountAnswerLost(p) ==
    /\ pc[p] = "account"
    /\ Reply(p, "unknown")
    /\ UNCHANGED <<recordVars, ledgerVars, controlVars>>

-----------------------------------------------------------------------------
(* FinancialLedgerPort over TigerBeetle.                                    *)

(* MUTANT of TigerBeetleVerdict: a failed chain may be tried again, as with *)
(* fresh ids for every attempt.                                             *)
TigerBeetleVerdict_Retries(o, verdict) ==
    verdict = (IF ledger[o] = "posted" THEN "posted" ELSE verdict)

(* What TigerBeetle makes of a chain of transfers.  The ids are determined  *)
(* by the operation, so a chain that was posted "exists" and one that       *)
(* failed is id_already_failed: the first verdict stands.                   *)
TigerBeetleVerdict(o, verdict) ==
    verdict = (IF ledger[o] = "absent" THEN verdict ELSE ledger[o])

(* createTransfers answered.                                                *)
PostJournalTB(p) ==
    LET o == op[p] IN
    /\ pc[p] = "post" /\ engine[o] = "tigerbeetle"
    /\ \E verdict \in {"posted", "failed"} :
         /\ TigerBeetleVerdict(o, verdict)
         /\ ledger' = [ledger EXCEPT ![o] = verdict]
         /\ Reply(p, IF verdict = "posted" THEN "accepted" ELSE "rejected")
    /\ UNCHANGED <<recordVars, inflight, controlVars>>

(* createTransfers failed in the client: nobody knows whether the request   *)
(* has been, will be or will never be executed.                             *)
PostAnswerLostTB(p) ==
    LET o == op[p] IN
    /\ pc[p] = "post" /\ engine[o] = "tigerbeetle"
    /\ inflight' = inflight \cup {o}
    /\ Reply(p, "unknown")
    /\ UNCHANGED <<recordVars, ledger, controlVars>>

(* A request nobody waits for is executed.                                  *)
LateExecution(o) ==
    /\ o \in inflight
    /\ inflight' = inflight \ {o}
    /\ \E verdict \in {"posted", "failed"} :
         /\ TigerBeetleVerdict(o, verdict)
         /\ ledger' = [ledger EXCEPT ![o] = verdict]
    /\ UNCHANGED <<recordVars, controlVars, callVars>>

(* MUTANT of ReconcileJournalTB: an id TigerBeetle has seen counts as       *)
(* posted.                                                                  *)
ReconcileJournalTB_SeenIsAccepted(p) ==
    LET o == op[p] IN
    /\ pc[p] = "lookup" /\ engine[o] = "tigerbeetle"
    /\ IF ledger[o] # "absent" THEN Reply(p, "accepted") ELSE Goto(p, "post")
    /\ UNCHANGED <<recordVars, ledgerVars, controlVars>>

(* lookupTransfers by the expected ids.  not_found makes submit post.       *)
ReconcileJournalTB(p) ==
    LET o == op[p] IN
    /\ pc[p] = "lookup" /\ engine[o] = "tigerbeetle"
    /\ IF ledger[o] = "posted" THEN Reply(p, "accepted") ELSE Goto(p, "post")
    /\ UNCHANGED <<recordVars, ledgerVars, controlVars>>

LookupUnavailableTB(p) ==
    /\ pc[p] = "lookup" /\ engine[op[p]] = "tigerbeetle"
    /\ Reply(p, "unknown")
    /\ UNCHANGED <<recordVars, ledgerVars, controlVars>>

-----------------------------------------------------------------------------
(* FinancialLedgerPort over PostgreSQL.                                     *)

(* The posting transaction accepts the operation, posts its journal and     *)
(* accepts its transfers together.                                          *)
AcceptInPostgreSQL(o) ==
    /\ opStatus' = [opStatus EXCEPT ![o] = "accepted"]
    /\ journal' = [journal EXCEPT ![o] = JournalTarget(o)]
    /\ transfers' = [transfers EXCEPT ![o] = "accepted"]
    /\ ledger' = [ledger EXCEPT ![o] = "posted"]
    /\ UNCHANGED <<engine, accounts, event, wanted>>

(* postJournal under the lock on the operation: a status that is already    *)
(* decided is reported, otherwise the balance constraints decide.           *)
PostJournalPG(p) ==
    LET o == op[p] IN
    /\ pc[p] = "post" /\ engine[o] = "postgresql"
    /\ \/ /\ opStatus[o] \in {"accepted", "reconciled"}
          /\ Reply(p, "accepted")
          /\ UNCHANGED <<recordVars, ledger>>
       \/ /\ opStatus[o] \in {"rejected", "manual_recovery"}
          /\ Reply(p, opStatus[o])
          /\ UNCHANGED <<recordVars, ledger>>
       \/ /\ opStatus[o] \notin Terminal \cup {"accepted"}
          /\ Reply(p, "rejected")
          /\ UNCHANGED <<recordVars, ledger>>
       \/ /\ opStatus[o] \notin Terminal \cup {"accepted"}
          /\ AcceptInPostgreSQL(o)
          /\ Reply(p, "accepted")
    /\ UNCHANGED <<inflight, controlVars>>

(* A DatabaseFailure, before or after the commit took effect.               *)
PostAnswerLostPG(p) ==
    LET o == op[p] IN
    /\ pc[p] = "post" /\ engine[o] = "postgresql"
    /\ Reply(p, "misidentified")
    /\ \/ UNCHANGED <<recordVars, ledger>>
       \/ opStatus[o] \notin Terminal \cup {"accepted"} /\ AcceptInPostgreSQL(o)
    /\ UNCHANGED <<inflight, controlVars>>

(* reconcileJournal reads without a lock.                                   *)
ReconcileJournalPG(p) ==
    LET o == op[p] IN
    /\ pc[p] = "lookup" /\ engine[o] = "postgresql"
    /\ CASE opStatus[o] \in {"rejected", "manual_recovery"} -> Reply(p, opStatus[o])
         [] opStatus[o] \in {"accepted", "reconciled"} ->
              Reply(p, IF transfers[o] = "accepted" /\ journal[o] = JournalTarget(o)
                       THEN "accepted" ELSE "manual_recovery")
         [] OTHER -> Goto(p, "post")
    /\ UNCHANGED <<recordVars, ledgerVars, controlVars>>

LookupFailedPG(p) ==
    /\ pc[p] = "lookup" /\ engine[op[p]] = "postgresql"
    /\ Reply(p, "misidentified")
    /\ UNCHANGED <<recordVars, ledgerVars, controlVars>>

-----------------------------------------------------------------------------
(* writeReceipt: the outcome is written under the lock on the operation, in *)
(* whatever status it is by now.                                            *)

(* MUTANT of RecordOutcome: the outcome is copied to the transfers, and the *)
(* transfers have no trigger.                                               *)
RecordOutcome_CopiesStatus(p, status) ==
    LET o == op[p] IN
    IF CanMove(opStatus[o], status)
    THEN /\ opStatus' = [opStatus EXCEPT ![o] = status]
         /\ transfers' = [transfers EXCEPT ![o] = status]
         /\ wanted' = IF status = "unknown" THEN wanted \cup {<<o, "reconcile">>} ELSE wanted
         /\ Return(p, status)
         /\ UNCHANGED <<engine, accounts, journal, event>>
    ELSE Return(p, "refused") /\ UNCHANGED recordVars

(* MUTANT of RecordOutcome: the reconcile job is not enqueued.              *)
RecordOutcome_NoJob(p, status) ==
    LET o == op[p]
        transferStatus == IF status = "unknown" THEN "unresolved" ELSE status
    IN  IF CanMove(opStatus[o], status) /\ CanMoveTransfers(transfers[o], transferStatus)
        THEN /\ opStatus' = [opStatus EXCEPT ![o] = status]
             /\ transfers' = [transfers EXCEPT ![o] = transferStatus]
             /\ Return(p, status)
             /\ UNCHANGED <<engine, accounts, journal, event, wanted>>
        ELSE Return(p, "refused") /\ UNCHANGED recordVars

(* The updates of the operation and of its transfers, and the reconcile job *)
(* of an unknown outcome.  A trigger that refuses one of them fails the     *)
(* transaction.                                                             *)
RecordOutcome(p, status) ==
    LET o == op[p]
        transferStatus == IF status = "unknown" THEN "unresolved" ELSE status
    IN  IF CanMove(opStatus[o], status) /\ CanMoveTransfers(transfers[o], transferStatus)
        THEN /\ opStatus' = [opStatus EXCEPT ![o] = status]
             /\ transfers' = [transfers EXCEPT ![o] = transferStatus]
             /\ wanted' = IF status = "unknown" THEN wanted \cup {<<o, "reconcile">>} ELSE wanted
             /\ Return(p, status)
             /\ UNCHANGED <<engine, accounts, journal, event>>
        ELSE Return(p, "refused") /\ UNCHANGED recordVars

writeReceipt(p) ==
    LET o == op[p]
        status == opStatus[o]
        outcome == reply[p]
    IN
    /\ pc[p] = "receipt"
    /\ \/ /\ outcome = "misidentified"
          /\ RecordOutcome(p, "manual_recovery")
       \/ /\ outcome # "misidentified"
          /\ status = "reconciled"
          /\ Return(p, status)
          /\ UNCHANGED recordVars
       \/ /\ outcome \notin {"misidentified", "accepted"}
          /\ status = "accepted"
          /\ Return(p, "refused")
          /\ UNCHANGED recordVars
       \/ /\ outcome = "accepted"
          /\ status # "reconciled"
          /\ IF CanMove(status, "accepted")
             THEN /\ opStatus' = [opStatus EXCEPT ![o] = "accepted"]
                  /\ Goto(p, "finalize")
             ELSE /\ Return(p, "refused")
                  /\ UNCHANGED opStatus
          /\ UNCHANGED <<engine, accounts, transfers, journal, event, wanted>>
       \/ /\ outcome \in {"rejected", "manual_recovery", "unknown"}
          /\ status \notin {"accepted", "reconciled"}
          /\ RecordOutcome(p, outcome)
    /\ UNCHANGED <<ledgerVars, controlVars>>

(* finalizeAccepted: status, journal, transfers and event in one            *)
(* transaction, which fails as a whole when the journal is already posted.  *)
finalizeAccepted(p) ==
    LET o == op[p] IN
    /\ pc[p] = "finalize"
    /\ \/ /\ opStatus[o] # "accepted"
          /\ Return(p, opStatus[o])
          /\ UNCHANGED recordVars
       \/ /\ opStatus[o] = "accepted"
          /\ ~ JournalWritable(o)
          /\ Return(p, "refused")
          /\ UNCHANGED recordVars
       \/ /\ opStatus[o] = "accepted"
          /\ JournalWritable(o)
          /\ CanMoveTransfers(transfers[o], "accepted")
          /\ opStatus' = [opStatus EXCEPT ![o] = "reconciled"]
          /\ journal' = [journal EXCEPT ![o] = JournalTarget(o)]
          /\ transfers' = [transfers EXCEPT ![o] = "accepted"]
          /\ event' = [event EXCEPT ![o] = TRUE]
          /\ Return(p, "reconciled")
          /\ UNCHANGED <<engine, accounts, wanted>>
    /\ UNCHANGED <<ledgerVars, controlVars>>

(* The caller takes the result.                                             *)
TakeResult(p) ==
    /\ pc[p] = "done"
    /\ Forget(p)
    /\ UNCHANGED <<recordVars, ledgerVars, controlVars>>

-----------------------------------------------------------------------------
(* rebuildFinancialProjections: an operator has the projection of every     *)
(* operation that is accepted or reconciled written again from the ledger.  *)
(* The operations are listed without a lock and taken one after the other,  *)
(* each verified against the ledger before its own transaction begins; what *)
(* the workers do meanwhile is only seen under the lock of that transaction.*)

rebuildFinancialProjections(p, o) ==
    /\ pc[p] = "idle"
    /\ opStatus[o] \in {"accepted", "reconciled"}
    /\ engine[o] = AuthorityOf[p]
    /\ pc' = [pc EXCEPT ![p] = "verify"]
    /\ op' = [op EXCEPT ![p] = o]
    /\ UNCHANGED <<mode, reply, result, recordVars, ledgerVars, controlVars>>

(* reconcileJournal of the ledger.  Identities that do not match, and an    *)
(* operation the PostgreSQL ledger reports as undone, are quarantined.  A   *)
(* fact that is not found blocks the rebuild.                               *)
VerifyProjection(p) ==
    LET o == op[p] IN
    /\ pc[p] = "verify"
    /\ \/ /\ engine[o] = "tigerbeetle"
          /\ IF ledger[o] = "posted" THEN Goto(p, "rebuild") ELSE Return(p, "error")
       \/ /\ engine[o] = "postgresql"
          /\ Goto(p, IF /\ opStatus[o] \in {"accepted", "reconciled"}
                        /\ transfers[o] = "accepted"
                        /\ journal[o] = JournalTarget(o)
                     THEN "rebuild" ELSE "quarantine")
    /\ UNCHANGED <<recordVars, ledgerVars, controlVars>>

(* MUTANT of rebuildAcceptedProjection: the event is left to                *)
(* finalizeAccepted.                                                        *)
rebuildAcceptedProjection_NoEvent(p) ==
    LET o == op[p] IN
    /\ pc[p] = "rebuild"
    /\ opStatus[o] \in {"accepted", "reconciled"}
    /\ opStatus' = [opStatus EXCEPT ![o] = "reconciled"]
    /\ journal' = [journal EXCEPT ![o] = JournalTarget(o)]
    /\ transfers' = [transfers EXCEPT ![o] = "accepted"]
    /\ Return(p, "reconciled")
    /\ UNCHANGED <<engine, accounts, event, wanted, ledgerVars, controlVars>>

(* Under the lock on the operation: its status, a journal that differs, its *)
(* transfers and its event, which messaging.append takes as a repetition    *)
(* when finalizeAccepted already appended it.                               *)
rebuildAcceptedProjection(p) ==
    LET o == op[p] IN
    /\ pc[p] = "rebuild"
    /\ \/ /\ opStatus[o] \notin {"accepted", "reconciled"}
          /\ Return(p, opStatus[o])
          /\ UNCHANGED recordVars
       \/ /\ opStatus[o] \in {"accepted", "reconciled"}
          /\ IF /\ journal[o] = JournalTarget(o) \/ JournalWritable(o)
                /\ CanMoveTransfers(transfers[o], "accepted")
             THEN /\ opStatus' = [opStatus EXCEPT ![o] = "reconciled"]
                  /\ journal' = [journal EXCEPT ![o] = JournalTarget(o)]
                  /\ transfers' = [transfers EXCEPT ![o] = "accepted"]
                  /\ event' = [event EXCEPT ![o] = TRUE]
                  /\ Return(p, "reconciled")
                  /\ UNCHANGED <<engine, accounts, wanted>>
             ELSE Return(p, "refused") /\ UNCHANGED recordVars
    /\ UNCHANGED <<ledgerVars, controlVars>>

quarantineProjection(p) ==
    LET o == op[p] IN
    /\ pc[p] = "quarantine"
    /\ IF opStatus[o] # "manual_recovery" /\ CanMove(opStatus[o], "manual_recovery")
          /\ CanMoveTransfers(transfers[o], "manual_recovery")
       THEN /\ opStatus' = [opStatus EXCEPT ![o] = "manual_recovery"]
            /\ transfers' = [transfers EXCEPT ![o] = "manual_recovery"]
            /\ Return(p, "manual_recovery")
       ELSE /\ Return(p, IF opStatus[o] = "manual_recovery" THEN "manual_recovery" ELSE "refused")
            /\ UNCHANGED <<opStatus, transfers>>
    /\ UNCHANGED <<engine, accounts, journal, event, wanted, ledgerVars, controlVars>>

-----------------------------------------------------------------------------
(* Failures.                                                                *)

(* A query or transaction of the call fails, or its commit is not           *)
(* acknowledged: the call fails and what was committed stays.  A rebuild    *)
(* also ends so when the ledger does not answer.                            *)
CallFails(p) ==
    /\ pc[p] \in {"begin", "defer", "account", "receipt", "finalize", "done",
                  "verify", "rebuild", "quarantine"}
    /\ result[p] \notin {"refused", "error"} \/ pc[p] # "done"
    /\ Return(p, "error")
    /\ UNCHANGED <<recordVars, ledgerVars, controlVars>>

(* The process dies in its call.  A TigerBeetle request it was waiting for    *)
(* stays out.                                                               *)
Die(p) ==
    /\ pc[p] \notin {"idle", "done"}
    /\ Forget(p)
    /\ inflight' = IF pc[p] = "post" /\ engine[op[p]] = "tigerbeetle"
                   THEN inflight \cup {op[p]} ELSE inflight
    /\ UNCHANGED <<recordVars, ledger, controlVars>>

-----------------------------------------------------------------------------
(* The controls around the protocol.                                        *)

closePeriod ==
    /\ period = "open"
    /\ \A o \in Ops : opStatus[o] \notin Unresolved
    /\ period' = "closed"
    /\ UNCHANGED <<recordVars, ledgerVars, posting, cutover, callVars>>

(* No code changes posting_enabled; an operator stops and resumes posting.  *)
SwitchPosting ==
    /\ posting' = ~ posting
    /\ UNCHANGED <<recordVars, ledgerVars, period, cutover, callVars>>

MoveCutover(from, to) ==
    /\ cutover = from
    /\ cutover' = to
    /\ UNCHANGED <<recordVars, ledgerVars, period, posting, callVars>>

prepareTigerBeetleCutover == MoveCutover("postgresql", "preparing_tigerbeetle")

(* MUTANT of approveTigerBeetleCutover: unresolved operations are not       *)
(* counted.                                                                 *)
approveTigerBeetleCutover_Unchecked ==
    MoveCutover("preparing_tigerbeetle", "approved")

(* Besides the evidence, which is in Cutover.                               *)
approveTigerBeetleCutover ==
    /\ \A o \in Ops : opStatus[o] \notin Unresolved
    /\ MoveCutover("preparing_tigerbeetle", "approved")

(* Two transactions with the provisioning of the accounts between them.     *)
beginActivation == MoveCutover("approved", "activating")

completeActivation == MoveCutover("activating", "tigerbeetle")

-----------------------------------------------------------------------------
(* One step of submit after it was called.                                  *)
SubmitStep(p) ==
    \/ BeginSubmission(p)
    \/ DeferBlocked(p)
    \/ CreateExecutionAccounts(p)
    \/ PostJournalTB(p)
    \/ ReconcileJournalTB(p)
    \/ PostJournalPG(p)
    \/ ReconcileJournalPG(p)
    \/ writeReceipt(p)
    \/ finalizeAccepted(p)

(* One step of a rebuild after it was called.                               *)
RebuildStep(p) ==
    \/ VerifyProjection(p)
    \/ rebuildAcceptedProjection(p)
    \/ quarantineProjection(p)

(* What goes wrong around a call.                                           *)
Fault(p) ==
    \/ AuthorizationDenied(p)
    \/ AccountAnswerLost(p)
    \/ PostAnswerLostTB(p)
    \/ LookupUnavailableTB(p)
    \/ PostAnswerLostPG(p)
    \/ LookupFailedPG(p)
    \/ CallFails(p)

Environment ==
    \/ \E p \in Processes, o \in Ops : createJournalIntent(p, o)
    \/ \E o \in Ops : LateExecution(o)
    \/ closePeriod
    \/ SwitchPosting
    \/ prepareTigerBeetleCutover
    \/ approveTigerBeetleCutover
    \/ beginActivation
    \/ completeActivation

(* submit is called with the payload of a job somebody enqueued.            *)
Call(p) == \E job \in wanted : submit(p, job[1], job[2])

OpsNext ==
    \/ Environment
    \/ \E p \in Processes :
         \/ Call(p) \/ SubmitStep(p)
         \/ \E o \in Ops : rebuildFinancialProjections(p, o)
         \/ RebuildStep(p)
         \/ Fault(p) \/ Die(p) \/ TakeResult(p)

OpsSpec == OpsInit /\ [][OpsNext]_opVars

(* Workers keep calling submit for every job and a call that was made goes  *)
(* on.  From some time on nothing fails: the ledger answers, no process     *)
(* dies and posting is enabled.                                             *)
Disturbance ==
    \/ SwitchPosting
    \/ \E p \in Processes : Fault(p) \/ Die(p)

OpsFairness ==
    /\ \A p \in Processes :
         /\ WF_opVars(SubmitStep(p) \/ RebuildStep(p))
         /\ WF_opVars(TakeResult(p))
         /\ \A o \in Ops, jobType \in {"submit", "reconcile"} :
              SF_opVars(<<o, jobType>> \in wanted /\ submit(p, o, jobType))
    /\ <>[][~ Disturbance]_opVars
    /\ <>[]posting

OpsLiveSpec == OpsSpec /\ OpsFairness

-----------------------------------------------------------------------------
(* A reconciled operation is complete: the ledger has posted it, its        *)
(* journal and transfers are projected and its event is in the outbox.      *)
(* finalizeAccepted and a rebuild both lead there, and either may find the  *)
(* other's work half or wholly done.                                        *)
ReconciledIsComplete ==
    \A o \in Ops : opStatus[o] = "reconciled" =>
      /\ ledger[o] = "posted"
      /\ journal[o] = JournalTarget(o)
      /\ transfers[o] = "accepted"
      /\ event[o]

(* Nothing is shown as posted that the authority did not post: an accepted  *)
(* operation, a posted journal and a published event all rest on the fact   *)
(* in the ledger, also when receipts arrive late, twice or out of order.    *)
ProjectionHasLedgerFact ==
    \A o \in Ops :
      (\/ opStatus[o] \in {"accepted", "reconciled"}
       \/ journal[o] # "draft"
       \/ event[o]) => ledger[o] = "posted"

(* Once a period is closed no operation of it reaches the ledger, not even  *)
(* by a worker that began before: closePeriod waits for every operation     *)
(* that might still post.                                                   *)
ClosedPeriodIsSealed ==
    [][period = "closed" => UNCHANGED <<ledger, journal>>]_opVars

(* Money moves in the configured engine only.  The cutover never lets a     *)
(* PostgreSQL operation post once it is approved or a TigerBeetle one       *)
(* before it is complete.                                                   *)
PostsInConfiguredEngine ==
    [][\A o \in Ops : (ledger[o] # "posted" /\ ledger'[o] = "posted") =>
         engine[o] = ConfigEngine /\ cutover \notin {"approved", "activating"}]_opVars

(* Every intent is settled in the end: reconciled, rejected, or handed to   *)
(* manual recovery, whatever failed on the way.                             *)
OperationsSettle ==
    \A o \in Ops :
      (opStatus[o] = "intent") ~>
        (opStatus[o] \in {"reconciled", "rejected", "manual_recovery"})

(* The fate of an operation: the ledger decides that it is posted, the      *)
(* operation's row that it is refused.                                      *)
Fate ==
    [o \in Ops |->
       IF ledger[o] = "posted" THEN "posted"
       ELSE IF opStatus[o] = "rejected" THEN "refused"
       ELSE IF opStatus[o] = "absent" THEN "none"
       ELSE "open"]

S == INSTANCE Settlement WITH fate <- Fate, published <- event, sealed <- period = "closed"

(* The protocol implements the abstract specification: however workers,     *)
(* lost answers and late executions interleave, the fate of an operation is *)
(* decided once, published once, and never in a sealed period.              *)
ImplementsSettlement == S!SettlementSpec

(* docs/architecture/financial-ledger.md: submitted -> accepted ->          *)
(* reconciled.  An operation its ledger has accepted is reconciled, or a    *)
(* mismatch sends it to manual recovery, by the workers alone: nothing but  *)
(* an operator calls for a rebuild.                                         *)
AcceptedIsReconciled ==
    \A o \in Ops :
      (opStatus[o] = "accepted") ~> (opStatus[o] \in {"reconciled", "manual_recovery"})
=============================================================================
