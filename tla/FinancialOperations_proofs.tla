---------------------- MODULE FinancialOperations_proofs ----------------------
(***************************************************************************)
(* Proofs about the financial operation protocol for any number of          *)
(* processes, configured for either ledger, and of operations, reversing    *)
(* each other or not; and, in the last section, about the worker that runs  *)
(* it from the job queue.  The module extends FinancialWorker because the   *)
(* lemmas about the steps of the protocol serve both: a step of the worker  *)
(* is one of the protocol with what it does to the queue.                   *)
(***************************************************************************)
EXTENDS FinancialWorker, TLAPS

USE OperationConstants

(* Why an operation may be refused for good: its accounts are, its chain of *)
(* transfers failed, or PostgreSQL decides under the lock on the row.       *)
Refusable(o) ==
    \/ engine[o] = "postgresql"
    \/ accounts[o] = "rejected"
    \/ ledger[o] = "failed"

(* Nothing that is still to come changes the ledger for the operation.      *)
Settled(o) ==
    \/ opStatus[o] \in {"absent", "rejected", "reconciled"}
    \/ opStatus[o] = "manual_recovery" /\ ledger[o] = "posted"

(* The row of an operation, its journal and its ledger fact agree.          *)
RowInv(o) ==
    /\ opStatus[o] = "absent" <=> engine[o] = None
    /\ opStatus[o] = "absent" => ledger[o] = "absent"
    /\ o \in inflight => engine[o] = "tigerbeetle" /\ accounts[o] = "accepted"
    /\ (engine[o] = "tigerbeetle" /\ ledger[o] # "absent") => accounts[o] = "accepted"
    /\ (engine[o] = "postgresql" /\ ledger[o] # "absent") =>
         /\ ledger[o] = "posted"
         /\ opStatus[o] \in {"accepted", "reconciled", "manual_recovery"}
    /\ opStatus[o] = "rejected" => Refusable(o) /\ ledger[o] # "posted"
    /\ journal[o] \in {"draft", JournalTarget(o)}
    /\ (\/ opStatus[o] \in {"accepted", "reconciled"}
        \/ journal[o] # "draft"
        \/ event[o]) => ledger[o] = "posted"
    /\ opStatus[o] = "reconciled" =>
         /\ journal[o] = JournalTarget(o)
         /\ transfers[o] = "accepted"
         /\ event[o]

(* A process works on an operation that exists, sends a request only when   *)
(* the accounts were accepted, and carries an outcome that is true.         *)
CallInv(p) ==
    /\ pc[p] # "idle" => op[p] \in Ops /\ opStatus[op[p]] # "absent"
    /\ pc[p] \in {"lookup", "post"} => accounts[op[p]] = "accepted"
    /\ pc[p] = "receipt" =>
         /\ reply[p] = "accepted" => ledger[op[p]] = "posted"
         /\ reply[p] = "rejected" => Refusable(op[p])

(* Closing the period and approving the cutover find everything settled,    *)
(* and an operation is of the engine that was configured when it was made.  *)
ControlInv ==
    /\ period = "closed" => \A o \in Ops : Settled(o)
    /\ cutover \in {"approved", "activating"} => \A o \in Ops : Settled(o)
    /\ cutover = "tigerbeetle" =>
         \A o \in Ops : engine[o] = "postgresql" => Settled(o)
    /\ cutover # "tigerbeetle" => \A o \in Ops : engine[o] # "tigerbeetle"

(* The inductive invariant.                                                 *)
OpsInv ==
    /\ OpsTypeOK
    /\ \A o \in Ops : RowInv(o)
    /\ \A p \in Processes : CallInv(p)
    /\ ControlInv

(* What a step leaves of an operation: it keeps its engine, the ledger its  *)
(* verdict, a settled one stays as it is and an event is never withdrawn.   *)
Progress(o) ==
    /\ opStatus[o] # "absent" => opStatus'[o] # "absent" /\ engine'[o] = engine[o]
    /\ ledger[o] # "absent" => ledger'[o] = ledger[o]
    /\ opStatus[o] = "rejected" => opStatus'[o] = "rejected"
    /\ (opStatus[o] # "absent" /\ Settled(o)) =>
         /\ Settled(o)'
         /\ ledger'[o] = ledger[o] /\ journal'[o] = journal[o] /\ event'[o] = event[o]
    /\ event[o] => event'[o]
    /\ event'[o] # event[o] => ledger[o] = "posted"

(* A step leaves the operation alone.                                       *)
RowUnchanged(o) ==
    /\ opStatus'[o] = opStatus[o] /\ engine'[o] = engine[o] /\ transfers'[o] = transfers[o]
    /\ journal'[o] = journal[o] /\ event'[o] = event[o] /\ ledger'[o] = ledger[o]
    /\ o \in inflight' => o \in inflight

(* At most one operation moves in a step.                                   *)
OneRowMoves ==
    \A o1, o2 \in Ops : o1 = o2 \/ RowUnchanged(o1) \/ RowUnchanged(o2)

(* Only createJournalIntent moves an operation that does not exist yet, and *)
(* only closePeriod the period.                                             *)
OpenedOrSealed ==
    /\ \A o \in Ops : opStatus[o] = "absent" =>
         RowUnchanged(o) \/ \E p \in Processes : createJournalIntent(p, o)
    /\ period' = period \/ closePeriod

(* What is shown of every step.                                             *)
StepOK ==
    /\ OpsInv'
    /\ \A o \in Ops : Progress(o)
    /\ OneRowMoves
    /\ OpenedOrSealed

(* The rows, and the calls under way, keep their types.                     *)
Labels == {"idle", "begin", "defer", "account", "lookup", "post", "receipt", "finalize",
           "done", "verify", "rebuild", "quarantine"}

RowTypeOK ==
    /\ opStatus \in [Ops -> OpStatus \cup {"absent"}]
    /\ engine \in [Ops -> Engines \cup {None}]
    /\ accounts \in [Ops -> {"accepted", "rejected", "manual_recovery"}]
    /\ transfers \in [Ops -> {"unresolved", "accepted", "rejected", "manual_recovery"}]
    /\ journal \in [Ops -> {"draft", "posted", "reversed"}]
    /\ event \in [Ops -> BOOLEAN]
    /\ ledger \in [Ops -> {"absent", "posted", "failed"}]
    /\ inflight \subseteq Ops
    /\ wanted \subseteq Ops \X {"submit", "reconcile"}

ControlTypeOK ==
    /\ period \in {"open", "closed"}
    /\ posting \in BOOLEAN
    /\ cutover \in CutoverStatus

CallTypeOK ==
    /\ pc \in [Processes -> Labels]
    /\ op \in [Processes -> Ops \cup {None}]
    /\ mode \in [Processes -> {"submit", "reconcile"}]
    /\ reply \in [Processes -> Outcomes]
    /\ result \in [Processes -> OpStatus \cup {"refused", "error"}]

(* OpsTypeOK in the three parts that steps disturb separately.              *)
LEMMA TypeParts == OpsTypeOK <=> RowTypeOK /\ ControlTypeOK /\ CallTypeOK
  BY DEF OpsTypeOK, RowTypeOK, ControlTypeOK, CallTypeOK, Labels

(* The same of the state after the step.                                    *)
LEMMA TypePartsNext == OpsTypeOK' <=> RowTypeOK' /\ ControlTypeOK' /\ CallTypeOK'
  BY DEF OpsTypeOK, RowTypeOK, ControlTypeOK, CallTypeOK, Labels

(* A step leaves the call of a process alone.                               *)
SameCall(q) == pc'[q] = pc[q] /\ op'[q] = op[q] /\ reply'[q] = reply[q]

(* What the moves of the program counter do, and that they touch no call    *)
(* but one.                                                                 *)
LEMMA GotoStep ==
  ASSUME CallTypeOK, NEW p \in Processes, NEW label \in Labels, Goto(p, label)
  PROVE  /\ CallTypeOK' /\ \A q \in Processes \ {p} : SameCall(q)
         /\ pc'[p] = label /\ op'[p] = op[p] /\ reply'[p] = reply[p]
  BY DEF Goto, CallTypeOK, SameCall

(* A process that gets an answer from the ledger goes on to write the       *)
(* receipt.                                                                 *)
LEMMA ReplyStep ==
  ASSUME CallTypeOK, NEW p \in Processes, NEW outcome \in Outcomes, Reply(p, outcome)
  PROVE  /\ CallTypeOK' /\ \A q \in Processes \ {p} : SameCall(q)
         /\ pc'[p] = "receipt" /\ op'[p] = op[p] /\ reply'[p] = outcome
  BY DEF Reply, CallTypeOK, SameCall, Labels

(* A process that returns from submit remembers its result and its          *)
(* operation.                                                               *)
LEMMA ReturnStep ==
  ASSUME CallTypeOK, NEW p \in Processes, NEW value \in OpStatus \cup {"refused", "error"},
         Return(p, value)
  PROVE  /\ CallTypeOK' /\ \A q \in Processes \ {p} : SameCall(q)
         /\ pc'[p] = "done" /\ op'[p] = op[p]
  BY DEF Return, CallTypeOK, SameCall, Labels, Outcomes

(* A process that is done, or dies, forgets its call.                       *)
LEMMA ForgetStep ==
  ASSUME CallTypeOK, NEW p \in Processes, Forget(p)
  PROVE  /\ CallTypeOK' /\ \A q \in Processes \ {p} : SameCall(q)
         /\ pc'[p] = "idle"
  BY DEF Forget, CallTypeOK, SameCall, Labels, Outcomes, OpStatus

(* An operation that a step leaves alone keeps its invariant.               *)
LEMMA UnchangedRow ==
  ASSUME NEW o \in Ops, RowInv(o), accounts' = accounts, RowUnchanged(o)
  PROVE  RowInv(o)' /\ Progress(o)
  BY DEF RowInv, RowUnchanged, Progress, Refusable, Settled, JournalTarget

(* A process that a step leaves alone still carries the truth.              *)
LEMMA CallKept ==
  ASSUME OpsTypeOK, \A o \in Ops : Progress(o), accounts' = accounts,
         NEW p \in Processes, CallInv(p), SameCall(p)
  PROVE  CallInv(p)'
<1>1. CASE pc[p] = "idle"
  BY <1>1 DEF CallInv, SameCall
<1>2. CASE pc[p] # "idle"
  <2> DEFINE o == op[p]
  <2>1. o \in Ops /\ opStatus[o] # "absent" /\ op'[p] = o
    BY <1>2 DEF CallInv, SameCall
  <2>2. Progress(o)
    BY <2>1
  <2>3. Refusable(o) => Refusable(o)'
    BY <2>1, <2>2 DEF Refusable, Progress
  <2>4. ledger[o] = "posted" => ledger'[o] = "posted"
    BY <2>2 DEF Progress
  <2> QED
    BY <2>1, <2>2, <2>3, <2>4 DEF CallInv, SameCall, Progress
<1> QED
  BY <1>1, <1>2

(* Where a call may go.                                                     *)
LEMMA CallMoved ==
  ASSUME NEW p \in Processes, NEW o \in Ops, op'[p] = o, opStatus[o] # "absent",
         Progress(o), accounts' = accounts,
         pc'[p] \in {"lookup", "post"} => accounts[o] = "accepted",
         pc'[p] = "receipt" =>
           /\ reply'[p] = "accepted" => ledger'[o] = "posted"
           /\ reply'[p] = "rejected" => Refusable(o)'
  PROVE  CallInv(p)'
<1>1. opStatus'[o] # "absent"
  BY DEF Progress
<1> QED
  BY <1>1 DEF CallInv, Refusable

(* No step but the making of an intent unsettles anything.                  *)
LEMMA ControlKept ==
  ASSUME OpsInv, \A o \in Ops : Progress(o), UNCHANGED controlVars,
         \A o \in Ops : opStatus[o] = "absent" => RowUnchanged(o)
  PROVE  ControlInv'
<1>1. ASSUME NEW o \in Ops
      PROVE  (Settled(o) => Settled(o)') /\ engine'[o] = engine[o]
  BY DEF Progress, RowUnchanged, Settled
<1> QED
  BY <1>1 DEF ControlInv, OpsInv, controlVars

(* One process moves, and changes at most the row of its operation.         *)
LEMMA ActorStep ==
  ASSUME OpsInv, NEW p \in Processes, NEW o \in Ops, op[p] = o, opStatus[o] # "absent",
         UNCHANGED controlVars, accounts' = accounts, RowTypeOK', CallTypeOK',
         \A q \in Processes \ {p} : SameCall(q),
         \A oo \in Ops \ {o} : RowUnchanged(oo),
         RowInv(o)', Progress(o),
         pc'[p] # "idle" =>
           /\ op'[p] = o
           /\ pc'[p] \in {"lookup", "post"} => accounts[o] = "accepted"
           /\ pc'[p] = "receipt" =>
                /\ reply'[p] = "accepted" => ledger'[o] = "posted"
                /\ reply'[p] = "rejected" => Refusable(o)'
  PROVE  StepOK
<1> USE DEF OpsInv
<1>2. \A oo \in Ops : RowInv(oo)' /\ Progress(oo)
  BY UnchangedRow
<1>3. CallInv(p)'
  <2>1. CASE pc'[p] = "idle"
    BY <2>1 DEF CallInv
  <2>2. CASE pc'[p] # "idle"
    BY <1>2, <2>2, CallMoved
  <2> QED
    BY <2>1, <2>2
<1>4. \A q \in Processes : CallInv(q)'
  BY <1>2, <1>3, CallKept
<1>5. ControlInv'
  BY <1>2, ControlKept
<1>6. ControlTypeOK'
  BY TypeParts DEF ControlTypeOK, controlVars
<1>7. OneRowMoves /\ OpenedOrSealed
  BY DEF OneRowMoves, OpenedOrSealed, controlVars
<1> QED
  BY <1>2, <1>4, <1>5, <1>6, <1>7, TypePartsNext DEF StepOK

(* One process moves and no row does.                                       *)
LEMMA ReadStep ==
  ASSUME OpsInv, NEW p \in Processes, pc[p] # "idle",
         UNCHANGED <<recordVars, ledgerVars, controlVars>>, CallTypeOK',
         \A q \in Processes \ {p} : SameCall(q),
         pc'[p] # "idle" =>
           /\ op'[p] = op[p]
           /\ pc'[p] \in {"lookup", "post"} => accounts[op[p]] = "accepted"
           /\ pc'[p] = "receipt" =>
                /\ reply'[p] = "accepted" => ledger[op[p]] = "posted"
                /\ reply'[p] = "rejected" => Refusable(op[p])
  PROVE  StepOK
<1>1. PICK o \in Ops : op[p] = o /\ opStatus[o] # "absent"
  BY DEF OpsInv, CallInv
<1>2. UNCHANGED <<opStatus, engine, accounts, transfers, journal, event, wanted, ledger, inflight>>
  BY DEF recordVars, ledgerVars
<1>3. \A oo \in Ops : RowUnchanged(oo)
  BY <1>2 DEF RowUnchanged
<1>4. RowInv(o)' /\ Progress(o)
  BY <1>2, <1>3, UnchangedRow DEF OpsInv
<1>5. RowTypeOK'
  BY <1>2, TypeParts DEF RowTypeOK, OpsInv
<1>6. Refusable(o)' = Refusable(o)
  BY <1>2 DEF Refusable
<1> QED
  BY <1>1, <1>2, <1>3, <1>4, <1>5, <1>6, ActorStep

(* The calls that only read: what they answer is true when they answer.     *)
LEMMA SubmitReads ==
  ASSUME OpsInv, NEW p \in Processes,
         \/ DeferBlocked(p) \/ AuthorizationDenied(p) \/ CreateExecutionAccounts(p)
         \/ AccountAnswerLost(p) \/ ReconcileJournalTB(p) \/ LookupUnavailableTB(p)
         \/ ReconcileJournalPG(p) \/ LookupFailedPG(p)
  PROVE  StepOK
<1>0. CallTypeOK /\ RowTypeOK /\ CallInv(p)
  BY TypeParts DEF OpsInv
<1>1. pc[p] # "idle" => op[p] \in Ops /\ opStatus[op[p]] \in OpStatus
  BY <1>0 DEF CallInv, RowTypeOK
<1>2. CASE DeferBlocked(p)
  BY <1>0, <1>1, <1>2, ReturnStep, ReadStep DEF DeferBlocked
<1>3. CASE AuthorizationDenied(p)
  BY <1>0, <1>3, ReplyStep, ReadStep DEF AuthorizationDenied, Outcomes
<1>4. CASE CreateExecutionAccounts(p)
  <2>1. pc[p] = "account" /\ UNCHANGED <<recordVars, ledgerVars, controlVars>>
    BY <1>4 DEF CreateExecutionAccounts
  <2>2. CASE accounts[op[p]] = "accepted"
    <3>1. PICK label \in {"lookup", "post"} : Goto(p, label)
      BY <1>4, <2>2 DEF CreateExecutionAccounts
    <3> QED
      BY <1>0, <2>1, <2>2, <3>1, GotoStep, ReadStep DEF Labels
  <2>3. CASE accounts[op[p]] # "accepted"
    <3>1. Reply(p, accounts[op[p]]) /\ accounts[op[p]] \in {"rejected", "manual_recovery"}
      BY <1>0, <1>1, <1>4, <2>1, <2>3 DEF CreateExecutionAccounts, RowTypeOK
    <3> QED
      BY <1>0, <2>1, <3>1, ReplyStep, ReadStep DEF Outcomes, Refusable
  <2> QED
    BY <2>2, <2>3
<1>5. CASE AccountAnswerLost(p)
  BY <1>0, <1>5, ReplyStep, ReadStep DEF AccountAnswerLost, Outcomes
<1>6. CASE ReconcileJournalTB(p)
  <2>1. pc[p] = "lookup" /\ UNCHANGED <<recordVars, ledgerVars, controlVars>>
    BY <1>6 DEF ReconcileJournalTB
  <2>2. CASE ledger[op[p]] = "posted"
    BY <1>0, <1>6, <2>1, <2>2, ReplyStep, ReadStep DEF ReconcileJournalTB, Outcomes
  <2>3. CASE ledger[op[p]] # "posted"
    BY <1>0, <1>6, <2>1, <2>3, GotoStep, ReadStep DEF ReconcileJournalTB, Labels, CallInv
  <2> QED
    BY <2>2, <2>3
<1>7. CASE LookupUnavailableTB(p)
  BY <1>0, <1>7, ReplyStep, ReadStep DEF LookupUnavailableTB, Outcomes
<1>8. CASE ReconcileJournalPG(p)
  <2> DEFINE o == op[p]
  <2>1. pc[p] = "lookup" /\ engine[o] = "postgresql"
        /\ UNCHANGED <<recordVars, ledgerVars, controlVars>>
    BY <1>8 DEF ReconcileJournalPG
  <2>2. o \in Ops /\ RowInv(o) /\ opStatus[o] \in OpStatus /\ accounts[o] = "accepted"
    BY <1>0, <1>1, <2>1 DEF OpsInv, CallInv
  <2>3. CASE opStatus[o] \in {"rejected", "manual_recovery"}
    BY <1>0, <1>8, <2>1, <2>3, ReplyStep, ReadStep DEF ReconcileJournalPG, Outcomes, Refusable
  <2>4. CASE opStatus[o] \in {"accepted", "reconciled"}
    <3>1. ledger[o] = "posted"
      BY <2>2, <2>4 DEF RowInv
    <3>2. PICK outcome \in {"accepted", "manual_recovery"} : Reply(p, outcome)
      BY <1>8, <2>4 DEF ReconcileJournalPG
    <3> QED
      BY <1>0, <2>1, <3>1, <3>2, ReplyStep, ReadStep DEF Outcomes
  <2>5. CASE opStatus[o] \notin {"rejected", "manual_recovery", "accepted", "reconciled"}
    <3>1. Goto(p, "post")
      BY <1>8, <2>5 DEF ReconcileJournalPG
    <3> QED
      BY <1>0, <2>1, <2>2, <3>1, GotoStep, ReadStep DEF Labels
  <2> QED
    BY <2>3, <2>4, <2>5
<1>9. CASE LookupFailedPG(p)
  BY <1>0, <1>9, ReplyStep, ReadStep DEF LookupFailedPG, Outcomes
<1> QED
  BY <1>2, <1>3, <1>4, <1>5, <1>6, <1>7, <1>8, <1>9

(* A rebuild verifies, a call fails or its result is taken.                 *)
LEMMA OtherReads ==
  ASSUME OpsInv, NEW p \in Processes, VerifyProjection(p) \/ CallFails(p) \/ TakeResult(p)
  PROVE  StepOK
<1>0. CallTypeOK
  BY TypeParts DEF OpsInv
<1>1. CASE VerifyProjection(p)
  <2>1. pc[p] = "verify" /\ UNCHANGED <<recordVars, ledgerVars, controlVars>>
    BY <1>1 DEF VerifyProjection
  <2>2. Return(p, "error") \/ \E label \in {"rebuild", "quarantine"} : Goto(p, label)
    BY <1>1 DEF VerifyProjection
  <2> QED
    BY <1>0, <2>1, <2>2, GotoStep, ReturnStep, ReadStep DEF Labels
<1>2. CASE CallFails(p)
  BY <1>0, <1>2, ReturnStep, ReadStep DEF CallFails
<1>3. CASE TakeResult(p)
  BY <1>0, <1>3, ForgetStep, ReadStep DEF TakeResult
<1> QED
  BY <1>1, <1>2, <1>3

(* The operation of a call and what is known of it.                         *)
LEMMA CallOperation ==
  ASSUME OpsInv, NEW p \in Processes, pc[p] # "idle"
  PROVE  /\ op[p] \in Ops /\ RowInv(op[p]) /\ opStatus[op[p]] \in OpStatus
         /\ RowTypeOK /\ CallTypeOK /\ CallInv(p)
  BY TypeParts DEF OpsInv, CallInv, RowTypeOK

(* The locked transaction submits an operation that is not settled.         *)
LEMMA BeginStep ==
  ASSUME OpsInv, NEW p \in Processes, BeginSubmission(p)
  PROVE  StepOK
<1>p. PICK o \in Ops : o = op[p]
  <2>1. pc[p] = "begin"
    BY DEF BeginSubmission
  <2> QED
    BY <2>1, CallOperation
<1>0. pc[p] = "begin" /\ UNCHANGED <<engine, accounts, transfers, journal, event, wanted>>
      /\ UNCHANGED <<ledgerVars, controlVars>>
  BY <1>p DEF BeginSubmission
<1>1. o \in Ops /\ RowInv(o) /\ opStatus[o] \in OpStatus /\ RowTypeOK /\ CallTypeOK
  BY <1>p, <1>0, CallOperation
<1>2. CASE opStatus' = opStatus /\ (Goto(p, "defer") \/ Reply(p, "manual_recovery") \/ Return(p, opStatus[o]))
  <2>1. UNCHANGED <<recordVars, ledgerVars, controlVars>>
    BY <1>p, <1>0, <1>2 DEF recordVars
  <2> QED
    BY <1>p, <1>0, <1>1, <1>2, <2>1, GotoStep, ReplyStep, ReturnStep, ReadStep DEF Labels, Outcomes
<1>3. CASE /\ opStatus[o] \notin Terminal
           /\ opStatus' = [opStatus EXCEPT ![o] = IF @ \in {"intent", "unknown"} THEN "submitted" ELSE @]
           /\ pc' = [pc EXCEPT ![p] = "account"]
           /\ mode' = [mode EXCEPT ![p] = IF FirstSubmission(p) THEN "submit" ELSE "reconcile"]
           /\ UNCHANGED <<op, reply, result>>
  <2>1. /\ opStatus'[o] \in {opStatus[o], "submitted"}
        /\ opStatus'[o] = "submitted" => opStatus[o] \in {"intent", "unknown", "submitted"}
        /\ \A oo \in Ops \ {o} : opStatus'[oo] = opStatus[oo]
        /\ opStatus' \in [Ops -> OpStatus \cup {"absent"}]
    BY <1>p, <1>1, <1>3 DEF RowTypeOK, OpStatus
  <2>2. RowTypeOK' /\ \A oo \in Ops \ {o} : RowUnchanged(oo)
    BY <1>p, <1>0, <1>1, <2>1 DEF RowTypeOK, RowUnchanged, ledgerVars
  <2>3. /\ CallTypeOK' /\ \A q \in Processes \ {p} : SameCall(q)
        /\ pc'[p] = "account" /\ op'[p] = o
    BY <1>p, <1>1, <1>3 DEF CallTypeOK, SameCall, Labels
  <2>4. Progress(o)
    BY <1>p, <1>0, <1>1, <1>3, <2>1 DEF Progress, Settled, ledgerVars, OpStatus, Terminal
  <2>5. RowInv(o)'
    BY <1>p, <1>0, <1>1, <1>3, <2>1 DEF RowInv, ledgerVars, OpStatus, Terminal, Refusable, JournalTarget
  <2> QED
    BY <1>p, <1>0, <1>1, <2>2, <2>3, <2>4, <2>5, ActorStep DEF OpStatus
<1> QED
  BY <1>p, <1>2, <1>3 DEF BeginSubmission

(* TigerBeetle's verdict: the first one stands.                             *)
LEMMA VerdictRow ==
  ASSUME OpsInv, NEW o \in Ops, engine[o] = "tigerbeetle", accounts[o] = "accepted",
         NEW verdict \in {"posted", "failed"}, TigerBeetleVerdict(o, verdict),
         ledger' = [ledger EXCEPT ![o] = verdict], inflight' \subseteq inflight,
         UNCHANGED recordVars
  PROVE  /\ RowTypeOK' /\ RowInv(o)' /\ Progress(o)
         /\ \A oo \in Ops \ {o} : RowUnchanged(oo)
         /\ ledger'[o] = verdict
<1>1. RowTypeOK /\ RowInv(o)
  BY TypeParts DEF OpsInv
<1>2. UNCHANGED <<opStatus, engine, accounts, transfers, journal, event, wanted>>
  BY DEF recordVars
<1>3. /\ ledger'[o] = verdict /\ \A oo \in Ops \ {o} : ledger'[oo] = ledger[oo]
      /\ RowTypeOK'
  BY <1>1, <1>2 DEF RowTypeOK
<1>4. \A oo \in Ops \ {o} : RowUnchanged(oo)
  BY <1>2, <1>3 DEF RowUnchanged
<1>5. ledger[o] = "absent" \/ verdict = ledger[o]
  BY DEF TigerBeetleVerdict
<1>6. ledger[o] \in {"absent", "posted", "failed"}
  BY <1>1 DEF RowTypeOK
<1>7. RowInv(o)'
  BY <1>1, <1>2, <1>3, <1>5 DEF RowInv, Refusable, JournalTarget, Engines
<1>8. Progress(o)
  BY <1>1, <1>2, <1>3, <1>5 DEF Progress, Settled, RowInv, Refusable, Engines
<1> QED
  BY <1>3, <1>4, <1>7, <1>8

(* Posting through TigerBeetle, answered or not.                            *)
LEMMA PostStepTB ==
  ASSUME OpsInv, NEW p \in Processes, PostJournalTB(p) \/ PostAnswerLostTB(p)
  PROVE  StepOK
<1>p. PICK o \in Ops : o = op[p]
  <2>1. pc[p] = "post"
    BY DEF PostJournalTB, PostAnswerLostTB
  <2> QED
    BY <2>1, CallOperation
<1>0. pc[p] = "post" /\ engine[o] = "tigerbeetle" /\ UNCHANGED <<recordVars, controlVars>>
  BY <1>p DEF PostJournalTB, PostAnswerLostTB
<1>1. /\ o \in Ops /\ RowInv(o) /\ opStatus[o] \in OpStatus /\ RowTypeOK /\ CallTypeOK
      /\ accounts[o] = "accepted" /\ accounts' = accounts
  BY <1>p, <1>0, CallOperation DEF CallInv, recordVars
<1>2. CASE PostJournalTB(p)
  <2>1. PICK verdict \in {"posted", "failed"} :
          /\ TigerBeetleVerdict(o, verdict)
          /\ ledger' = [ledger EXCEPT ![o] = verdict]
          /\ Reply(p, IF verdict = "posted" THEN "accepted" ELSE "rejected")
          /\ inflight' = inflight
    BY <1>p, <1>2 DEF PostJournalTB
  <2>2. /\ RowTypeOK' /\ RowInv(o)' /\ Progress(o)
        /\ \A oo \in Ops \ {o} : RowUnchanged(oo)
        /\ ledger'[o] = verdict
    BY <1>p, <1>0, <1>1, <2>1, VerdictRow
  <2>3. /\ CallTypeOK' /\ \A q \in Processes \ {p} : SameCall(q)
        /\ pc'[p] = "receipt" /\ op'[p] = o
        /\ reply'[p] = IF verdict = "posted" THEN "accepted" ELSE "rejected"
    BY <1>p, <1>1, <2>1, ReplyStep DEF Outcomes
  <2>4. reply'[p] = "rejected" => Refusable(o)'
    BY <2>2, <2>3 DEF Refusable
  <2> QED
    BY <1>p, <1>0, <1>1, <2>2, <2>3, <2>4, ActorStep DEF OpStatus
<1>3. CASE PostAnswerLostTB(p)
  <2>1. /\ UNCHANGED <<opStatus, engine, accounts, transfers, journal, event, wanted, ledger>>
        /\ inflight' = inflight \cup {o}
        /\ Reply(p, "unknown")
    BY <1>p, <1>3 DEF PostAnswerLostTB, recordVars
  <2>2. /\ RowTypeOK' /\ RowInv(o)' /\ Progress(o)
        /\ \A oo \in Ops \ {o} : RowUnchanged(oo)
    BY <1>p, <1>0, <1>1, <2>1 DEF RowTypeOK, RowInv, Progress, RowUnchanged, Settled, Refusable,
       JournalTarget
  <2>3. /\ CallTypeOK' /\ \A q \in Processes \ {p} : SameCall(q)
        /\ pc'[p] = "receipt" /\ op'[p] = o /\ reply'[p] = "unknown"
    BY <1>p, <1>1, <2>1, ReplyStep DEF Outcomes
  <2> QED
    BY <1>p, <1>0, <1>1, <2>2, <2>3, ActorStep DEF OpStatus
<1> QED
  BY <1>2, <1>3

(* The posting transaction of PostgreSQL.                                   *)
LEMMA AcceptRow ==
  ASSUME OpsInv, NEW o \in Ops, engine[o] = "postgresql",
         opStatus[o] \notin Terminal \cup {"accepted", "absent"},
         AcceptInPostgreSQL(o), inflight' = inflight
  PROVE  /\ RowTypeOK' /\ RowInv(o)' /\ Progress(o)
         /\ \A oo \in Ops \ {o} : RowUnchanged(oo)
         /\ ledger'[o] = "posted" /\ accounts' = accounts
<1>1. RowTypeOK /\ RowInv(o)
  BY TypeParts DEF OpsInv
<1>2. /\ opStatus'[o] = "accepted" /\ ledger'[o] = "posted" /\ transfers'[o] = "accepted"
      /\ journal'[o] = JournalTarget(o)
      /\ UNCHANGED <<engine, accounts, event, wanted>>
  BY <1>1 DEF AcceptInPostgreSQL, RowTypeOK
<1>3. RowTypeOK' /\ \A oo \in Ops \ {o} : RowUnchanged(oo)
  BY <1>1 DEF AcceptInPostgreSQL, RowTypeOK, RowUnchanged, OpStatus, JournalTarget
<1>4. RowInv(o)'
  BY <1>1, <1>2 DEF RowInv, Engines, Refusable, JournalTarget
<1>5. Progress(o)
  BY <1>1, <1>2 DEF Progress, Settled, Terminal, RowInv, RowTypeOK, OpStatus
<1> QED
  BY <1>2, <1>3, <1>4, <1>5

(* Posting through PostgreSQL, answered or not.                             *)
LEMMA PostStepPG ==
  ASSUME OpsInv, NEW p \in Processes, PostJournalPG(p) \/ PostAnswerLostPG(p)
  PROVE  StepOK
<1>p. PICK o \in Ops : o = op[p]
  <2>1. pc[p] = "post"
    BY DEF PostJournalPG, PostAnswerLostPG
  <2> QED
    BY <2>1, CallOperation
<1>0. pc[p] = "post" /\ engine[o] = "postgresql" /\ inflight' = inflight /\ UNCHANGED controlVars
  BY <1>p DEF PostJournalPG, PostAnswerLostPG
<1>1. /\ o \in Ops /\ RowInv(o) /\ opStatus[o] \in OpStatus /\ RowTypeOK /\ CallTypeOK
  BY <1>p, <1>0, CallOperation
<1>2. PICK outcome \in Outcomes :
        /\ Reply(p, outcome)
        /\ \/ /\ UNCHANGED <<recordVars, ledger>>
              /\ outcome = "accepted" => opStatus[o] \in {"accepted", "reconciled"}
           \/ opStatus[o] \notin Terminal \cup {"accepted"} /\ AcceptInPostgreSQL(o)
  BY <1>p DEF PostJournalPG, PostAnswerLostPG, Outcomes
<1>3. CASE UNCHANGED <<recordVars, ledger>>
           /\ (outcome = "accepted" => opStatus[o] \in {"accepted", "reconciled"})
  <2>1. outcome = "accepted" => ledger[o] = "posted"
    BY <1>p, <1>1, <1>3 DEF RowInv
  <2>2. UNCHANGED <<recordVars, ledgerVars, controlVars>>
    BY <1>0, <1>3 DEF ledgerVars
  <2> QED
    BY <1>p, <1>0, <1>1, <1>2, <2>1, <2>2, ReplyStep, ReadStep DEF Refusable
<1>4. CASE opStatus[o] \notin Terminal \cup {"accepted"} /\ AcceptInPostgreSQL(o)
  <2>1. /\ RowTypeOK' /\ RowInv(o)' /\ Progress(o)
        /\ \A oo \in Ops \ {o} : RowUnchanged(oo)
        /\ ledger'[o] = "posted" /\ accounts' = accounts
    BY <1>p, <1>0, <1>1, <1>4, AcceptRow DEF OpStatus
  <2>2. /\ CallTypeOK' /\ \A q \in Processes \ {p} : SameCall(q)
        /\ pc'[p] = "receipt" /\ op'[p] = o
    BY <1>p, <1>1, <1>2, ReplyStep
  <2>3. Refusable(o)'
    BY <1>0, <1>4 DEF Refusable, AcceptInPostgreSQL
  <2> QED
    BY <1>p, <1>0, <1>1, <2>1, <2>2, <2>3, ActorStep DEF OpStatus
<1> QED
  BY <1>2, <1>3, <1>4

(* An outcome that is not an acceptance is recorded, or a trigger refuses   *)
(* it: an operation whose fact is in the ledger is never rejected, and one  *)
(* that was rejected stays so.                                              *)
LEMMA RecordStep ==
  ASSUME OpsInv, NEW p \in Processes, pc[p] # "idle",
         NEW written \in {"rejected", "manual_recovery", "unknown"}, RecordOutcome(p, written),
         written # "manual_recovery" => opStatus[op[p]] \notin {"accepted", "reconciled"},
         written = "rejected" => Refusable(op[p]),
         UNCHANGED <<ledgerVars, controlVars>>
  PROVE  StepOK
<1>p. PICK o \in Ops : o = op[p]
  BY CallOperation
<1>1. /\ RowInv(o) /\ opStatus[o] \in OpStatus /\ RowTypeOK /\ CallTypeOK
  BY <1>p, CallOperation
<1> DEFINE transferStatus == IF written = "unknown" THEN "unresolved" ELSE written
           moves == CanMove(opStatus[o], written) /\ CanMoveTransfers(transfers[o], transferStatus)
<1>2. CASE ~moves
  <2>1. Return(p, "refused") /\ UNCHANGED <<recordVars, ledgerVars, controlVars>>
    BY <1>p, <1>2 DEF RecordOutcome
  <2> QED
    BY <1>1, <2>1, ReturnStep, ReadStep
<1>3. CASE moves
  <2>1. /\ opStatus' = [opStatus EXCEPT ![o] = written]
        /\ transfers' = [transfers EXCEPT ![o] = transferStatus]
        /\ wanted' \in {wanted, wanted \cup {<<o, "reconcile">>}}
        /\ Return(p, written)
        /\ UNCHANGED <<engine, accounts, journal, event, ledger, inflight>>
    BY <1>p, <1>3 DEF RecordOutcome, ledgerVars
  <2>2. /\ opStatus'[o] = written
        /\ CanMove(opStatus[o], written)
        /\ RowTypeOK' /\ \A oo \in Ops \ {o} : RowUnchanged(oo)
    BY <1>1, <1>3, <2>1 DEF RowTypeOK, RowUnchanged, OpStatus
  <2>3. ledger[o] = "posted" /\ engine[o] = "postgresql" => opStatus[o] \in {"accepted", "reconciled", "manual_recovery"}
    BY <1>1 DEF RowInv
  <2>4. RowInv(o)'
    <3>1. written = "rejected" => ledger[o] # "posted" /\ Refusable(o)
      BY <1>p, <1>1, <2>2, <2>3 DEF Refusable, RowInv, CanMove, Engines, RowTypeOK
    <3>2. Refusable(o)' = Refusable(o)
      BY <2>1 DEF Refusable
    <3>3. engine[o] = "postgresql" /\ ledger[o] # "absent" => written = "manual_recovery"
      BY <1>p, <1>1, <2>2 DEF RowInv, CanMove
    <3> QED
      BY <1>1, <2>1, <2>2, <3>1, <3>2, <3>3 DEF RowInv, JournalTarget, OpStatus
  <2>5. Progress(o)
    <3>1. opStatus[o] = "rejected" => written = "rejected"
      BY <2>2 DEF CanMove
    <3>2. opStatus[o] = "reconciled" => written = "manual_recovery" /\ ledger[o] = "posted"
      BY <1>1, <2>2 DEF CanMove, RowInv
    <3>3. opStatus[o] = "manual_recovery" => written = "manual_recovery"
      BY <2>2 DEF CanMove
    <3> QED
      BY <1>1, <2>1, <2>2, <3>1, <3>2, <3>3 DEF Progress, Settled, OpStatus
  <2>6. /\ CallTypeOK' /\ \A q \in Processes \ {p} : SameCall(q)
        /\ pc'[p] = "done" /\ op'[p] = o
    BY <1>p, <1>1, <2>1, ReturnStep DEF OpStatus
  <2> QED
    BY <1>p, <1>1, <2>1, <2>2, <2>4, <2>5, <2>6, ActorStep DEF OpStatus
<1> QED
  BY <1>2, <1>3

(* The receipt: an acceptance is written only over a status that may be     *)
(* accepted, and rests on the ledger.                                       *)
LEMMA ReceiptStep ==
  ASSUME OpsInv, NEW p \in Processes, writeReceipt(p)
  PROVE  StepOK
<1>0. pc[p] = "receipt" /\ UNCHANGED <<ledgerVars, controlVars>>
  BY DEF writeReceipt
<1>p. PICK o \in Ops : o = op[p]
  BY <1>0, CallOperation
<1>1. /\ RowInv(o) /\ opStatus[o] \in OpStatus /\ RowTypeOK /\ CallTypeOK
      /\ reply[p] = "accepted" => ledger[o] = "posted"
      /\ reply[p] = "rejected" => Refusable(o)
  BY <1>0, <1>p, CallOperation DEF CallInv
<1>2. CASE \E value \in OpStatus \cup {"refused"} : Return(p, value) /\ UNCHANGED recordVars
  BY <1>0, <1>1, <1>2, ReturnStep, ReadStep
<1>3. CASE \E written \in {"rejected", "manual_recovery", "unknown"} :
             /\ RecordOutcome(p, written)
             /\ written = reply[p] \/ written = "manual_recovery"
             /\ written # "manual_recovery" => opStatus[o] \notin {"accepted", "reconciled"}
  BY <1>0, <1>p, <1>1, <1>3, RecordStep
<1>4. CASE /\ reply[p] = "accepted" /\ CanMove(opStatus[o], "accepted")
           /\ opStatus' = [opStatus EXCEPT ![o] = "accepted"]
           /\ Goto(p, "finalize")
           /\ UNCHANGED <<engine, accounts, transfers, journal, event, wanted>>
  <2>1. opStatus[o] \in {"submitted", "accepted"} /\ ledger[o] = "posted"
    BY <1>1, <1>4 DEF CanMove
  <2>2. /\ opStatus'[o] = "accepted" /\ ledger' = ledger /\ inflight' = inflight
        /\ RowTypeOK' /\ \A oo \in Ops \ {o} : RowUnchanged(oo)
    BY <1>0, <1>1, <1>4 DEF RowTypeOK, RowUnchanged, OpStatus, ledgerVars
  <2>3. RowInv(o)' /\ Progress(o)
    BY <1>1, <1>4, <2>1, <2>2 DEF RowInv, Progress, Settled, Refusable, JournalTarget
  <2>4. /\ CallTypeOK' /\ \A q \in Processes \ {p} : SameCall(q)
        /\ pc'[p] = "finalize" /\ op'[p] = o
    BY <1>p, <1>1, <1>4, GotoStep DEF Labels
  <2> QED
    BY <1>0, <1>p, <1>4, <2>1, <2>2, <2>3, <2>4, ActorStep
<1>5. CASE reply[p] = "misidentified"
  BY <1>3, <1>5 DEF writeReceipt
<1>6. CASE reply[p] # "misidentified" /\ opStatus[o] = "reconciled"
  <2>1. Return(p, opStatus[o]) /\ UNCHANGED recordVars
    BY <1>p, <1>6 DEF writeReceipt
  <2> QED
    BY <1>1, <1>2, <2>1
<1>7. CASE reply[p] \notin {"misidentified", "accepted"} /\ opStatus[o] = "accepted"
  <2>1. Return(p, "refused") /\ UNCHANGED recordVars
    BY <1>p, <1>7 DEF writeReceipt
  <2> QED
    BY <1>2, <2>1
<1>8. CASE reply[p] = "accepted" /\ opStatus[o] # "reconciled"
  <2>1. CASE CanMove(opStatus[o], "accepted")
    BY <1>p, <1>4, <1>8, <2>1 DEF writeReceipt
  <2>2. CASE ~ CanMove(opStatus[o], "accepted")
    <3>1. Return(p, "refused") /\ UNCHANGED recordVars
      BY <1>p, <1>8, <2>2 DEF writeReceipt, recordVars
    <3> QED
      BY <1>2, <3>1
  <2> QED
    BY <2>1, <2>2
<1>9. CASE reply[p] \notin {"misidentified", "accepted"} /\ opStatus[o] \notin {"accepted", "reconciled"}
  <2>1. reply[p] \in {"rejected", "manual_recovery", "unknown"} /\ RecordOutcome(p, reply[p])
    BY <1>p, <1>9 DEF writeReceipt
  <2> QED
    BY <1>3, <1>9, <2>1
<1> QED
  BY <1>5, <1>6, <1>7, <1>8, <1>9

(* Projecting an operation whose fact is in the ledger: by finalizeAccepted *)
(* or by a rebuild, whichever comes first.                                  *)
LEMMA ProjectRow ==
  ASSUME OpsInv, NEW o \in Ops, opStatus[o] \in {"accepted", "reconciled"},
         opStatus' = [opStatus EXCEPT ![o] = "reconciled"],
         journal' = [journal EXCEPT ![o] = JournalTarget(o)],
         transfers' = [transfers EXCEPT ![o] = "accepted"],
         event' = [event EXCEPT ![o] = TRUE],
         UNCHANGED <<engine, accounts, wanted, ledgerVars>>
  PROVE  /\ RowTypeOK' /\ RowInv(o)' /\ Progress(o) /\ accounts' = accounts
         /\ \A oo \in Ops \ {o} : RowUnchanged(oo)
<1>1. RowTypeOK /\ RowInv(o) /\ ledger[o] = "posted"
  BY TypeParts DEF OpsInv, RowInv
<1>2. /\ opStatus'[o] = "reconciled" /\ journal'[o] = JournalTarget(o)
      /\ transfers'[o] = "accepted" /\ event'[o] /\ ledger' = ledger /\ inflight' = inflight
  BY <1>1 DEF RowTypeOK, ledgerVars
<1>3. RowTypeOK' /\ \A oo \in Ops \ {o} : RowUnchanged(oo)
  BY <1>1 DEF RowTypeOK, RowUnchanged, OpStatus, JournalTarget, ledgerVars
<1>4. RowInv(o)'
  BY <1>1, <1>2 DEF RowInv, Refusable, JournalTarget
<1>5. event[o] \in BOOLEAN /\ event'[o] = TRUE
  BY <1>1 DEF RowTypeOK
<1>6. Progress(o)
  BY <1>1, <1>2, <1>5 DEF Progress, Settled, RowInv
<1> QED
  BY <1>3, <1>4, <1>6

(* finalizeAccepted and the transactions of a rebuild.                      *)
LEMMA ProjectionStep ==
  ASSUME OpsInv, NEW p \in Processes, finalizeAccepted(p) \/ rebuildAcceptedProjection(p)
  PROVE  StepOK
<1>0. pc[p] \in {"finalize", "rebuild"} /\ UNCHANGED <<ledgerVars, controlVars>>
  BY DEF finalizeAccepted, rebuildAcceptedProjection
<1>p. PICK o \in Ops : o = op[p]
  BY <1>0, CallOperation
<1>1. opStatus[o] \in OpStatus /\ RowTypeOK /\ CallTypeOK
  BY <1>0, <1>p, CallOperation
<1>2. CASE \E value \in OpStatus \cup {"refused"} : Return(p, value) /\ UNCHANGED recordVars
  BY <1>0, <1>1, <1>2, ReturnStep, ReadStep
<1>3. CASE /\ opStatus[o] \in {"accepted", "reconciled"}
           /\ opStatus' = [opStatus EXCEPT ![o] = "reconciled"]
           /\ journal' = [journal EXCEPT ![o] = JournalTarget(o)]
           /\ transfers' = [transfers EXCEPT ![o] = "accepted"]
           /\ event' = [event EXCEPT ![o] = TRUE]
           /\ Return(p, "reconciled")
           /\ UNCHANGED <<engine, accounts, wanted>>
  <2>1. /\ RowTypeOK' /\ RowInv(o)' /\ Progress(o) /\ accounts' = accounts
        /\ \A oo \in Ops \ {o} : RowUnchanged(oo)
    BY <1>0, <1>3, ProjectRow
  <2>2. /\ CallTypeOK' /\ \A q \in Processes \ {p} : SameCall(q)
        /\ pc'[p] = "done" /\ op'[p] = o
    BY <1>p, <1>1, <1>3, ReturnStep DEF OpStatus
  <2> QED
    BY <1>0, <1>p, <1>1, <2>1, <2>2, ActorStep DEF OpStatus
<1> QED
  BY <1>p, <1>1, <1>2, <1>3 DEF finalizeAccepted, rebuildAcceptedProjection, OpStatus

(* A quarantine keeps what the ledger posted.                               *)
LEMMA QuarantineStep ==
  ASSUME OpsInv, NEW p \in Processes, quarantineProjection(p)
  PROVE  StepOK
<1>0. pc[p] = "quarantine" /\ UNCHANGED <<engine, accounts, journal, event, wanted, ledgerVars, controlVars>>
  BY DEF quarantineProjection
<1>p. PICK o \in Ops : o = op[p]
  BY <1>0, CallOperation
<1>1. RowInv(o) /\ opStatus[o] \in OpStatus /\ RowTypeOK /\ CallTypeOK
  BY <1>0, <1>p, CallOperation
<1>2. CASE /\ \E value \in {"manual_recovery", "refused"} : Return(p, value)
           /\ UNCHANGED <<opStatus, transfers>>
  <2>1. UNCHANGED <<recordVars, ledgerVars, controlVars>>
    BY <1>0, <1>2 DEF recordVars
  <2> QED
    BY <1>0, <1>1, <1>2, <2>1, ReturnStep, ReadStep DEF OpStatus
<1>3. CASE /\ opStatus[o] # "manual_recovery" /\ CanMove(opStatus[o], "manual_recovery")
           /\ opStatus' = [opStatus EXCEPT ![o] = "manual_recovery"]
           /\ transfers' = [transfers EXCEPT ![o] = "manual_recovery"]
           /\ Return(p, "manual_recovery")
  <2>1. /\ opStatus'[o] = "manual_recovery" /\ ledger' = ledger /\ inflight' = inflight
        /\ RowTypeOK' /\ \A oo \in Ops \ {o} : RowUnchanged(oo)
    BY <1>0, <1>1, <1>3 DEF RowTypeOK, RowUnchanged, OpStatus, ledgerVars
  <2>2. RowInv(o)'
    BY <1>0, <1>1, <2>1 DEF RowInv, Refusable, JournalTarget, OpStatus
  <2>3. opStatus[o] # "rejected" /\ opStatus[o] # "absent"
    BY <1>1, <1>3 DEF CanMove, OpStatus
  <2>4. Progress(o)
    BY <1>0, <1>1, <2>1, <2>3 DEF Progress, Settled, RowInv
  <2>5. /\ CallTypeOK' /\ \A q \in Processes \ {p} : SameCall(q)
        /\ pc'[p] = "done" /\ op'[p] = o
    BY <1>p, <1>1, <1>3, ReturnStep DEF OpStatus
  <2> QED
    BY <1>0, <1>p, <2>1, <2>2, <2>3, <2>4, <2>5, ActorStep
<1> QED
  BY <1>p, <1>2, <1>3 DEF quarantineProjection

(* A process that dies may leave a request to TigerBeetle behind.           *)
LEMMA DieStep ==
  ASSUME OpsInv, NEW p \in Processes, Die(p)
  PROVE  StepOK
<1>0. pc[p] \notin {"idle", "done"} /\ UNCHANGED <<recordVars, ledger, controlVars>>
      /\ UNCHANGED <<opStatus, engine, accounts, transfers, journal, event, wanted>>
  BY DEF Die, recordVars
<1>p. PICK o \in Ops : o = op[p]
  BY <1>0, CallOperation
<1>1. /\ RowInv(o) /\ opStatus[o] \in OpStatus /\ RowTypeOK /\ CallTypeOK
      /\ pc[p] = "post" => accounts[o] = "accepted"
  BY <1>0, <1>p, CallOperation DEF CallInv
<1>2. inflight' = inflight \/ (inflight' = inflight \cup {o} /\ engine[o] = "tigerbeetle" /\ accounts[o] = "accepted")
  BY <1>p, <1>1 DEF Die
<1>3. /\ RowTypeOK' /\ RowInv(o)' /\ Progress(o)
      /\ \A oo \in Ops \ {o} : RowUnchanged(oo)
  BY <1>0, <1>1, <1>2 DEF RowTypeOK, RowInv, Progress, RowUnchanged, Settled, Refusable, JournalTarget
<1>4. /\ CallTypeOK' /\ \A q \in Processes \ {p} : SameCall(q)
      /\ pc'[p] = "idle"
  BY <1>1, ForgetStep DEF Die
<1> QED
  BY <1>0, <1>p, <1>1, <1>3, <1>4, ActorStep DEF OpStatus

-----------------------------------------------------------------------------
(* The start of a call changes no row.                                      *)
LEMMA CallStarts ==
  ASSUME OpsInv, NEW p \in Processes,
         Call(p) \/ \E o \in Ops : rebuildFinancialProjections(p, o)
  PROVE  StepOK
<1>1. RowTypeOK /\ CallTypeOK
  BY TypeParts DEF OpsInv
<1>2. PICK o \in Ops :
        /\ opStatus[o] # "absent"
        /\ UNCHANGED <<recordVars, ledgerVars, controlVars>>
        /\ op' = [op EXCEPT ![p] = o]
        /\ mode' = mode \/ \E jobType \in {"submit", "reconcile"} : mode' = [mode EXCEPT ![p] = jobType]
        /\ \E label \in {"done", "begin", "verify"} : pc' = [pc EXCEPT ![p] = label]
        /\ reply' = reply
        /\ result' = result \/ \E value \in OpStatus : result' = [result EXCEPT ![p] = value]
  <2>1. CASE Call(p)
    <3>1. PICK o \in Ops, jobType \in {"submit", "reconcile"} : submit(p, o, jobType)
      BY <1>1, <2>1 DEF Call, RowTypeOK
    <3> QED
      BY <3>1 DEF submit, Terminal, OpStatus
  <2>2. CASE \E o \in Ops : rebuildFinancialProjections(p, o)
    BY <2>2 DEF rebuildFinancialProjections
  <2> QED
    BY <2>1, <2>2
<1>3. /\ CallTypeOK' /\ \A q \in Processes \ {p} : SameCall(q)
      /\ op'[p] = o /\ pc'[p] \in {"done", "begin", "verify"}
  BY <1>1, <1>2 DEF CallTypeOK, SameCall, Labels
<1>4. UNCHANGED <<opStatus, engine, accounts, transfers, journal, event, wanted, ledger, inflight>>
  BY <1>2 DEF recordVars, ledgerVars
<1>5. \A oo \in Ops : RowUnchanged(oo)
  BY <1>4 DEF RowUnchanged
<1>6. \A oo \in Ops : RowInv(oo)' /\ Progress(oo)
  BY <1>4, <1>5, UnchangedRow DEF OpsInv
<1>7. CallInv(p)'
  BY <1>2, <1>3, <1>4 DEF CallInv
<1>8. \A q \in Processes : CallInv(q)'
  BY <1>3, <1>4, <1>6, <1>7, CallKept DEF OpsInv
<1>9. ControlInv'
  BY <1>2, <1>5, <1>6, ControlKept
<1>10. RowTypeOK' /\ ControlTypeOK'
  BY <1>1, <1>2, <1>4, TypeParts DEF OpsInv, RowTypeOK, ControlTypeOK, controlVars
<1>11. OneRowMoves /\ OpenedOrSealed
  BY <1>2, <1>5 DEF OneRowMoves, OpenedOrSealed, controlVars
<1> QED
  BY <1>3, <1>5, <1>6, <1>8, <1>9, <1>10, <1>11, TypePartsNext DEF StepOK, OpsInv

(* Calls under way are untouched when the environment moves.                *)
LEMMA CallsKept ==
  ASSUME OpsInv, UNCHANGED callVars, accounts' = accounts, \A o \in Ops : Progress(o)
  PROVE  CallTypeOK' /\ \A p \in Processes : CallInv(p)'
<1>1. CallTypeOK /\ UNCHANGED <<pc, op, mode, reply, result>>
  BY TypeParts DEF OpsInv, callVars
<1>2. CallTypeOK' /\ \A p \in Processes : SameCall(p)
  BY <1>1 DEF CallTypeOK, SameCall
<1> QED
  BY <1>2, CallKept DEF OpsInv

(* A request nobody waits for is executed.                                  *)
LEMMA LateStep ==
  ASSUME OpsInv, NEW o \in Ops, LateExecution(o)
  PROVE  StepOK
<1>1. PICK verdict \in {"posted", "failed"} :
        /\ TigerBeetleVerdict(o, verdict)
        /\ ledger' = [ledger EXCEPT ![o] = verdict]
  BY DEF LateExecution
<1>2. /\ o \in inflight /\ inflight' \subseteq inflight
      /\ UNCHANGED <<recordVars, controlVars, callVars>>
      /\ accounts' = accounts
  BY DEF LateExecution, recordVars
<1>3. engine[o] = "tigerbeetle" /\ accounts[o] = "accepted" /\ opStatus[o] # "absent"
  BY <1>2 DEF OpsInv, RowInv, Engines
<1>4. /\ RowTypeOK' /\ RowInv(o)' /\ Progress(o)
      /\ \A oo \in Ops \ {o} : RowUnchanged(oo)
  BY <1>1, <1>2, <1>3, VerdictRow
<1>5. \A oo \in Ops : RowInv(oo)' /\ Progress(oo)
  BY <1>2, <1>4, UnchangedRow DEF OpsInv
<1>6. CallTypeOK' /\ \A p \in Processes : CallInv(p)'
  BY <1>2, <1>5, CallsKept
<1>7. ControlInv'
  BY <1>2, <1>3, <1>4, <1>5, ControlKept
<1>8. ControlTypeOK'
  BY <1>2, TypeParts DEF OpsInv, ControlTypeOK, controlVars
<1>9. OneRowMoves /\ OpenedOrSealed
  BY <1>2, <1>3, <1>4 DEF OneRowMoves, OpenedOrSealed, controlVars
<1> QED
  BY <1>4, <1>5, <1>6, <1>7, <1>8, <1>9, TypePartsNext DEF StepOK, OpsInv

(* An intent is made in an open period, outside a cutover, for the engine   *)
(* that is configured.                                                      *)
LEMMA CreateStep ==
  ASSUME OpsInv, NEW p \in Processes, NEW o \in Ops, createJournalIntent(p, o)
  PROVE  StepOK
<1>1. RowTypeOK /\ ControlTypeOK /\ RowInv(o)
  BY TypeParts DEF OpsInv
<1>2. /\ opStatus[o] = "absent" /\ period = "open" /\ cutover = ConfigEngine
      /\ ConfigEngine \in Engines
      /\ opStatus' = [opStatus EXCEPT ![o] = "intent"]
      /\ engine' = [engine EXCEPT ![o] = ConfigEngine]
      /\ wanted' = wanted \cup {<<o, "submit">>}
      /\ UNCHANGED <<accounts, transfers, journal, event, ledger, inflight, period, posting, cutover>>
      /\ UNCHANGED callVars
  BY DEF createJournalIntent, EngineActive, ConfigEngine, Engines, ledgerVars, controlVars
<1>3. /\ opStatus'[o] = "intent" /\ engine'[o] = ConfigEngine
      /\ RowTypeOK' /\ \A oo \in Ops \ {o} : RowUnchanged(oo)
  BY <1>1, <1>2 DEF RowTypeOK, RowUnchanged, OpStatus
<1>4. RowInv(o)'
  <2>1. /\ ledger[o] = "absent" /\ o \notin inflight /\ journal[o] = "draft" /\ ~event[o]
    BY <1>1, <1>2 DEF RowInv, Engines
  <2> QED
    BY <1>1, <1>2, <1>3, <2>1 DEF RowInv, Refusable, JournalTarget, Engines
<1>5. Progress(o)
  BY <1>1, <1>2, <1>3 DEF Progress, RowInv
<1>6. \A oo \in Ops : RowInv(oo)' /\ Progress(oo)
  BY <1>2, <1>3, <1>4, <1>5, UnchangedRow DEF OpsInv
<1>7. CallTypeOK' /\ \A q \in Processes : CallInv(q)'
  BY <1>2, <1>6, CallsKept
<1>8. ControlInv'
  <2>1. \A oo \in Ops \ {o} : (Settled(oo) => Settled(oo)') /\ engine'[oo] = engine[oo]
    BY <1>3 DEF Settled, RowUnchanged
  <2>2. cutover' = cutover /\ period' = "open" /\ engine'[o] = cutover
    BY <1>2, <1>3
  <2>3. cutover \in {"postgresql", "tigerbeetle"}
    BY <1>2 DEF Engines
  <2> QED
    BY <2>1, <2>2, <2>3 DEF ControlInv, OpsInv
<1>9. ControlTypeOK'
  BY <1>1, <1>2 DEF ControlTypeOK
<1>10. OneRowMoves /\ OpenedOrSealed
  BY <1>2, <1>3 DEF OneRowMoves, OpenedOrSealed
<1> QED
  BY <1>3, <1>4, <1>6, <1>7, <1>8, <1>9, <1>10, TypePartsNext DEF StepOK, OpsInv

(* A control changes, and finds what it has to find.                        *)
LEMMA ControlStep ==
  ASSUME OpsInv,
         \/ closePeriod \/ SwitchPosting \/ prepareTigerBeetleCutover
         \/ approveTigerBeetleCutover \/ beginActivation \/ completeActivation
  PROVE  StepOK
<1>1. RowTypeOK /\ ControlTypeOK
  BY TypeParts DEF OpsInv
<1>2. /\ UNCHANGED <<opStatus, engine, accounts, transfers, journal, event, wanted, ledger, inflight>>
      /\ UNCHANGED callVars
  BY DEF closePeriod, SwitchPosting, prepareTigerBeetleCutover, approveTigerBeetleCutover,
         beginActivation, completeActivation, MoveCutover, recordVars, ledgerVars
<1>3. RowTypeOK' /\ \A o \in Ops : RowUnchanged(o)
  BY <1>1, <1>2 DEF RowTypeOK, RowUnchanged
<1>4. \A o \in Ops : RowInv(o)' /\ Progress(o)
  BY <1>2, <1>3, UnchangedRow DEF OpsInv
<1>5. CallTypeOK' /\ \A p \in Processes : CallInv(p)'
  BY <1>2, <1>4, CallsKept
<1>6. ControlTypeOK'
  BY <1>1 DEF ControlTypeOK, closePeriod, SwitchPosting, prepareTigerBeetleCutover,
     approveTigerBeetleCutover, beginActivation, completeActivation, MoveCutover, CutoverStatus
<1>7. ASSUME NEW o \in Ops
      PROVE  (Settled(o) => Settled(o)') /\ engine'[o] = engine[o]
  BY <1>2 DEF Settled
<1>8. (\A o \in Ops : opStatus[o] \notin Unresolved) => \A o \in Ops : Settled(o)
  BY <1>1 DEF RowTypeOK, Settled, Unresolved, OpStatus
<1>9. ControlInv'
  <2>1. CASE closePeriod
    BY <1>7, <1>8, <2>1 DEF ControlInv, OpsInv, closePeriod
  <2>2. CASE SwitchPosting
    BY <1>7, <2>2 DEF ControlInv, OpsInv, SwitchPosting
  <2>3. CASE prepareTigerBeetleCutover
    BY <1>7, <2>3 DEF ControlInv, OpsInv, prepareTigerBeetleCutover, MoveCutover
  <2>4. CASE approveTigerBeetleCutover
    BY <1>7, <1>8, <2>4 DEF ControlInv, OpsInv, approveTigerBeetleCutover, MoveCutover
  <2>5. CASE beginActivation
    BY <1>7, <2>5 DEF ControlInv, OpsInv, beginActivation, MoveCutover
  <2>6. CASE completeActivation
    BY <1>7, <2>6 DEF ControlInv, OpsInv, completeActivation, MoveCutover
  <2> QED
    BY <2>1, <2>2, <2>3, <2>4, <2>5, <2>6
<1>10. OneRowMoves /\ OpenedOrSealed
  BY <1>3 DEF OneRowMoves, OpenedOrSealed, SwitchPosting,
     prepareTigerBeetleCutover, approveTigerBeetleCutover, beginActivation, completeActivation,
     MoveCutover
<1> QED
  BY <1>3, <1>4, <1>5, <1>6, <1>9, <1>10, TypePartsNext DEF StepOK, OpsInv

(* A stuttering step.                                                       *)
LEMMA StutterStep ==
  ASSUME OpsInv, UNCHANGED opVars
  PROVE  StepOK
<1>1. /\ UNCHANGED <<opStatus, engine, accounts, transfers, journal, event, wanted, ledger, inflight>>
      /\ UNCHANGED <<period, posting, cutover>> /\ UNCHANGED callVars /\ UNCHANGED controlVars
  BY DEF opVars, callVars, controlVars
<1>2. RowTypeOK' /\ ControlTypeOK' /\ \A o \in Ops : RowUnchanged(o)
  BY <1>1, TypeParts DEF OpsInv, RowTypeOK, ControlTypeOK, RowUnchanged
<1>3. \A o \in Ops : RowInv(o)' /\ Progress(o)
  BY <1>1, <1>2, UnchangedRow DEF OpsInv
<1>4. CallTypeOK' /\ \A p \in Processes : CallInv(p)'
  BY <1>1, <1>3, CallsKept
<1>5. ControlInv'
  BY <1>1, <1>2, <1>3, ControlKept
<1>6. OneRowMoves /\ OpenedOrSealed
  BY <1>1, <1>2 DEF OneRowMoves, OpenedOrSealed
<1> QED
  BY <1>2, <1>3, <1>4, <1>5, <1>6, TypePartsNext DEF StepOK, OpsInv

(* Every step keeps the invariant, moves one operation at most, and moves   *)
(* it forward.                                                              *)
LEMMA NextStep ==
  ASSUME OpsInv, [OpsNext]_opVars
  PROVE  StepOK
<1>1. CASE Environment
  BY <1>1, CreateStep, LateStep, ControlStep DEF Environment
<1>2. ASSUME NEW p \in Processes, Call(p) \/ \E o \in Ops : rebuildFinancialProjections(p, o)
      PROVE  StepOK
  BY <1>2, CallStarts
<1>3. ASSUME NEW p \in Processes, SubmitStep(p)
      PROVE  StepOK
  BY <1>3, BeginStep, SubmitReads, PostStepTB, PostStepPG, ReceiptStep, ProjectionStep DEF SubmitStep
<1>4. ASSUME NEW p \in Processes, RebuildStep(p)
      PROVE  StepOK
  BY <1>4, OtherReads, ProjectionStep, QuarantineStep DEF RebuildStep
<1>5. ASSUME NEW p \in Processes, Fault(p)
      PROVE  StepOK
  BY <1>5, SubmitReads, PostStepTB, PostStepPG, OtherReads DEF Fault
<1>6. ASSUME NEW p \in Processes, Die(p) \/ TakeResult(p)
      PROVE  StepOK
  BY <1>6, DieStep, OtherReads
<1> QED
  BY <1>1, <1>2, <1>3, <1>4, <1>5, <1>6, StutterStep DEF OpsNext

(* Nothing has been done at the start.                                      *)
LEMMA InitInv == OpsInit => OpsInv
<1> SUFFICES ASSUME OpsInit PROVE OpsInv
  OBVIOUS
<1>1. OpsTypeOK
  BY DEF OpsInit, OpsTypeOK, Engines, CutoverStatus, Outcomes, OpStatus
<1>2. \A o \in Ops : RowInv(o)
  BY DEF OpsInit, RowInv, Refusable, Engines
<1>3. \A p \in Processes : CallInv(p)
  BY DEF OpsInit, CallInv
<1>4. ControlInv
  BY DEF OpsInit, ControlInv, Settled, Engines
<1> QED
  BY <1>1, <1>2, <1>3, <1>4 DEF OpsInv

(* The inductive invariant holds in every reachable state.                  *)
THEOREM OpsInvariant == OpsSpec => []OpsInv
<1>1. OpsInv /\ [OpsNext]_opVars => OpsInv'
  BY NextStep DEF StepOK
<1> QED
  BY <1>1, InitInv, PTL DEF OpsSpec

-----------------------------------------------------------------------------
(* Every variable keeps its type: a status, an engine and a fact of the     *)
(* ledger are always among those the triggers and the port know.            *)
THEOREM OpsTypeCorrect == OpsSpec => []OpsTypeOK
<1>1. OpsInv => OpsTypeOK
  BY DEF OpsInv
<1> QED
  BY <1>1, OpsInvariant, PTL

(* An accepted operation, a posted journal and a published event rest on    *)
(* the fact in the ledger: writeReceipt, finalizeAccepted and a rebuild act *)
(* only on an answer that is still true when they act.                      *)
THEOREM ProjectionTrue == OpsSpec => []ProjectionHasLedgerFact
<1>1. OpsInv => ProjectionHasLedgerFact
  BY DEF OpsInv, RowInv, ProjectionHasLedgerFact
<1> QED
  BY <1>1, OpsInvariant, PTL

(* A reconciled operation is posted, projected and published: every path to *)
(* the status, of finalizeAccepted and of a rebuild, does the whole.        *)
THEOREM ReconciledComplete == OpsSpec => []ReconciledIsComplete
<1>1. OpsInv => ReconciledIsComplete
  BY DEF OpsInv, RowInv, ReconciledIsComplete
<1> QED
  BY <1>1, OpsInvariant, PTL

(* In a closed period, or for a settled operation, nothing more is decided. *)
LEMMA SealedStep ==
  ASSUME OpsInv, StepOK, NEW o \in Ops, period = "closed"
  PROVE  ledger'[o] = ledger[o] /\ journal'[o] = journal[o] /\ event'[o] = event[o]
<1>1. CASE opStatus[o] = "absent"
  <2>1. \A p \in Processes : ~ createJournalIntent(p, o)
    BY DEF createJournalIntent
  <2> QED
    BY <1>1, <2>1 DEF StepOK, OpenedOrSealed, RowUnchanged
<1>2. CASE opStatus[o] # "absent"
  <2>1. Settled(o)
    BY DEF OpsInv, ControlInv
  <2> QED
    BY <1>2, <2>1 DEF StepOK, Progress
<1> QED
  BY <1>1, <1>2

(* A closed period is sealed: closePeriod waits for every operation that    *)
(* might still post, and no intent is made after it.                        *)
THEOREM ClosedSealed == OpsSpec => ClosedPeriodIsSealed
<1>1. ASSUME OpsInv, [OpsNext]_opVars
      PROVE  [period = "closed" => UNCHANGED <<ledger, journal>>]_opVars
  <2>1. StepOK
    BY <1>1, NextStep
  <2>2. RowTypeOK /\ RowTypeOK'
    BY <1>1, <2>1, TypeParts, TypePartsNext DEF OpsInv, StepOK
  <2>3. SUFFICES ASSUME period = "closed" PROVE ledger' = ledger /\ journal' = journal
    OBVIOUS
  <2>4. \A o \in Ops : ledger'[o] = ledger[o] /\ journal'[o] = journal[o]
    BY <1>1, <2>1, <2>3, SealedStep
  <2> QED
    BY <2>2, <2>4 DEF RowTypeOK
<1> QED
  BY <1>1, OpsInvariant, PTL DEF OpsSpec, ClosedPeriodIsSealed

(* Money moves in the configured engine only: an operation of the other     *)
(* engine was settled before the cutover was approved, and requests still   *)
(* out or calls still running cannot unsettle it.                           *)
THEOREM ConfiguredEngine == OpsSpec => PostsInConfiguredEngine
<1>1. ASSUME OpsInv, [OpsNext]_opVars
      PROVE  [\A o \in Ops : (ledger[o] # "posted" /\ ledger'[o] = "posted") =>
                engine[o] = ConfigEngine /\ cutover \notin {"approved", "activating"}]_opVars
  <2>1. StepOK
    BY <1>1, NextStep
  <2>2. SUFFICES ASSUME NEW o \in Ops, ledger[o] # "posted", ledger'[o] = "posted"
                 PROVE  engine[o] = ConfigEngine /\ cutover \notin {"approved", "activating"}
    OBVIOUS
  <2>3. opStatus[o] # "absent"
    <3>1. (\E p \in Processes : createJournalIntent(p, o)) => ledger' = ledger
      BY DEF createJournalIntent, ledgerVars
    <3> QED
      BY <2>1, <2>2, <3>1 DEF StepOK, OpenedOrSealed, RowUnchanged
  <2>4. ~ Settled(o)
    BY <2>1, <2>2, <2>3 DEF StepOK, Progress
  <2>5. engine[o] \in Engines
    BY <1>1, <2>3, TypeParts DEF OpsInv, RowInv, RowTypeOK
  <2> QED
    BY <1>1, <2>4, <2>5 DEF OpsInv, ControlInv, ConfigEngine, Engines
<1> QED
  BY <1>1, OpsInvariant, PTL DEF OpsSpec, PostsInConfiguredEngine

-----------------------------------------------------------------------------
(* The protocol implements Settlement.                                      *)

(* The fate of an operation.                                                *)
LEMMA FateOf ==
  ASSUME NEW o \in Ops
  PROVE  Fate[o] = IF ledger[o] = "posted" THEN "posted"
                   ELSE IF opStatus[o] = "rejected" THEN "refused"
                   ELSE IF opStatus[o] = "absent" THEN "none"
                   ELSE "open"
  BY DEF Fate

(* The fate of an operation after the step, written with primed variables.  *)
LEMMA FateNext ==
  ASSUME NEW o \in Ops
  PROVE  Fate'[o] = IF ledger'[o] = "posted" THEN "posted"
                    ELSE IF opStatus'[o] = "rejected" THEN "refused"
                    ELSE IF opStatus'[o] = "absent" THEN "none"
                    ELSE "open"
  BY DEF Fate

(* The fates of the others are what they were.                              *)
LEMMA FateMoves ==
  ASSUME OpsInv, OpsInv', NEW o \in Ops, \A oo \in Ops \ {o} : RowUnchanged(oo)
  PROVE  /\ Fate' = [Fate EXCEPT ![o] = Fate'[o]]
         /\ event' = [event EXCEPT ![o] = event'[o]]
<1>1. \A oo \in Ops \ {o} : Fate'[oo] = Fate[oo] /\ event'[oo] = event[oo]
  BY FateOf, FateNext DEF RowUnchanged
<1>2. event \in [Ops -> BOOLEAN] /\ event' \in [Ops -> BOOLEAN]
  BY TypeParts, TypePartsNext DEF OpsInv, RowTypeOK
<1>3. Fate = [oo \in Ops |-> Fate[oo]] /\ Fate' = [oo \in Ops |-> Fate'[oo]]
  BY DEF Fate
<1>4. Fate' = [Fate EXCEPT ![o] = Fate'[o]]
  BY <1>1, <1>3
<1> QED
  BY <1>1, <1>2, <1>4

(* createJournalIntent opens the operation.                                 *)
LEMMA CreateOpens ==
  ASSUME OpsInv, StepOK, NEW p \in Processes, NEW o \in Ops, createJournalIntent(p, o),
         \A oo \in Ops \ {o} : RowUnchanged(oo)
  PROVE  S!Open(o)
<1>1. /\ opStatus[o] = "absent" /\ period = "open" /\ SourceReady(o)
      /\ opStatus' = [opStatus EXCEPT ![o] = "intent"]
      /\ UNCHANGED <<ledger, event, period>>
  BY DEF createJournalIntent, ledgerVars, controlVars
<1>2. \A oo \in Ops : opStatus[oo] = "absent" => Fate[oo] = "none"
  BY FateOf DEF OpsInv, RowInv
<1>3. Fate'[o] = "open"
  <2>1. opStatus'[o] = "intent" /\ ledger'[o] = "absent"
    BY <1>1, TypeParts DEF OpsInv, RowInv, RowTypeOK
  <2> QED
    BY <2>1, FateNext
<1>4. Fate' = [Fate EXCEPT ![o] = "open"]
  BY <1>3, FateMoves DEF StepOK
<1>5. SourceOf[o] # None =>
        /\ event[SourceOf[o]]
        /\ \A other \in Ops \ {o} : SourceOf[other] = SourceOf[o] => Fate[other] = "none"
  BY <1>1, <1>2 DEF SourceReady, OpsInv, RowInv
<1> QED
  BY <1>1, <1>2, <1>4, <1>5 DEF S!Open

(* An operation that exists is decided, published, or keeps its fate.       *)
LEMMA RowRefines ==
  ASSUME OpsInv, StepOK, NEW o \in Ops, opStatus[o] # "absent", period' = period,
         \A oo \in Ops \ {o} : RowUnchanged(oo)
  PROVE  [S!SettlementNext]_<<Fate, event, period = "closed">>
<1>1. Fate' = [Fate EXCEPT ![o] = Fate'[o]] /\ event' = [event EXCEPT ![o] = event'[o]]
  BY FateMoves DEF StepOK
<1>2. /\ Fate = [oo \in Ops |-> Fate[oo]] /\ event \in [Ops -> BOOLEAN]
      /\ event'[o] \in BOOLEAN
  BY TypeParts, TypePartsNext DEF OpsInv, RowTypeOK, StepOK, Fate
<1>3. Progress(o) /\ opStatus'[o] # "absent" /\ RowInv(o) /\ RowInv(o)'
  BY DEF StepOK, Progress, OpsInv
<1>4. CASE Fate'[o] = Fate[o] /\ event'[o] = event[o]
  BY <1>1, <1>2, <1>4
<1>5. CASE Fate'[o] # Fate[o]
  <2>1. Fate[o] = "open" /\ Fate'[o] \in {"posted", "refused"} /\ ~ Settled(o) /\ event'[o] = event[o]
    BY <1>2, <1>3, <1>5, FateOf, FateNext DEF Progress, Settled, RowInv
  <2>2. period # "closed"
    BY <2>1 DEF OpsInv, ControlInv
  <2>3. event' = event
    BY <1>1, <1>2, <2>1
  <2>4. S!Decide(o, Fate'[o])
    BY <1>1, <2>1, <2>2, <2>3 DEF S!Decide
  <2> QED
    BY <2>1, <2>4 DEF S!SettlementNext
<1>6. CASE Fate'[o] = Fate[o] /\ event'[o] # event[o]
  <2>1. ledger[o] = "posted" /\ ~ Settled(o)
    BY <1>3, <1>6 DEF Progress
  <2>2. period # "closed" /\ Fate[o] = "posted"
    BY <2>1, FateOf DEF OpsInv, ControlInv
  <2>3. event[o] = FALSE /\ event'[o] = TRUE
    BY <1>2, <1>3, <1>6 DEF Progress
  <2>4. Fate' = Fate
    BY <1>1, <1>2, <1>6
  <2>5. S!Publish(o)
    BY <1>1, <2>2, <2>3, <2>4 DEF S!Publish
  <2> QED
    BY <2>5 DEF S!SettlementNext
<1> QED
  BY <1>4, <1>5, <1>6

(* closePeriod seals: every operation that was posted was published.        *)
LEMMA CloseSeals ==
  ASSUME OpsInv, closePeriod
  PROVE  S!Seal
<1>1. /\ period = "open" /\ period' = "closed"
      /\ UNCHANGED <<opStatus, ledger, event>>
      /\ \A o \in Ops : opStatus[o] \notin Unresolved
  BY DEF closePeriod, recordVars, ledgerVars
<1>2. Fate' = Fate
  BY <1>1 DEF Fate
<1>3. ASSUME NEW o \in Ops
      PROVE  Fate[o] \in {"none", "refused"} \/ event[o]
  <2>1. opStatus[o] \in {"absent", "rejected", "reconciled"}
    BY <1>1, TypeParts DEF OpsInv, RowTypeOK, OpStatus, Unresolved
  <2> QED
    BY <2>1, FateOf DEF OpsInv, RowInv
<1> QED
  BY <1>1, <1>2, <1>3 DEF S!Seal

(* The refinement: whatever a step of the protocol does, the fate of at     *)
(* most one operation moves, as Settlement lets it.                         *)
THEOREM SettlementRefinement == OpsSpec => ImplementsSettlement
<1>1. OpsInit => S!SettlementInit
  BY DEF OpsInit, S!SettlementInit, Fate
<1>2. ASSUME OpsInv, [OpsNext]_opVars
      PROVE  [S!SettlementNext]_S!settlementVars
  <2>0. StepOK
    BY <1>2, NextStep
  <2>1. SUFFICES [S!SettlementNext]_<<Fate, event, period = "closed">>
    BY DEF S!settlementVars
  <2>2. CASE closePeriod
    BY <1>2, <2>2, CloseSeals DEF S!SettlementNext
  <2>3. CASE period' = period
    <3>1. CASE \A o \in Ops : RowUnchanged(o)
      <4>1. \A o \in Ops : Fate'[o] = Fate[o] /\ event'[o] = event[o]
        BY <3>1, FateOf, FateNext DEF RowUnchanged
      <4>2. event \in [Ops -> BOOLEAN] /\ event' \in [Ops -> BOOLEAN]
        BY <1>2, <2>0, TypeParts, TypePartsNext DEF OpsInv, StepOK, RowTypeOK
      <4>3. Fate = [o \in Ops |-> Fate[o]] /\ Fate' = [o \in Ops |-> Fate'[o]]
        BY DEF Fate
      <4>4. Fate' = Fate
        BY <4>1, <4>3
      <4>5. event' = event
        BY <4>1, <4>2
      <4> QED
        BY <2>3, <4>4, <4>5
    <3>2. ASSUME NEW o \in Ops, ~ RowUnchanged(o)
          PROVE  [S!SettlementNext]_<<Fate, event, period = "closed">>
      <4>1. \A oo \in Ops \ {o} : RowUnchanged(oo)
        BY <2>0, <3>2 DEF StepOK, OneRowMoves
      <4>2. CASE opStatus[o] = "absent"
        <5>1. PICK p \in Processes : createJournalIntent(p, o)
          BY <2>0, <3>2, <4>2 DEF StepOK, OpenedOrSealed
        <5> QED
          BY <1>2, <2>0, <4>1, <5>1, CreateOpens DEF S!SettlementNext
      <4>3. CASE opStatus[o] # "absent"
        BY <1>2, <2>0, <2>3, <4>1, <4>3, RowRefines
      <4> QED
        BY <4>2, <4>3
    <3> QED
      BY <3>1, <3>2
  <2> QED
    BY <2>0, <2>2, <2>3 DEF StepOK, OpenedOrSealed
<1> QED
  BY <1>1, <1>2, OpsInvariant, PTL DEF OpsSpec, ImplementsSettlement, S!SettlementSpec

-----------------------------------------------------------------------------
(* The worker over the job queue.                                           *)

QueueTypeOK ==
    /\ status \in [Jobs -> J!JobStatus \cup {"absent"}]
    /\ heldJob \in [Processes -> Jobs \cup {None}]

(* The rows of the queue are what the transactions asked for; an operation  *)
(* has a submit job, and a reconcile job once its outcome was unknown.      *)
RowsAreWanted ==
    /\ wanted = {j \in Jobs : status[j] # "absent"}
    /\ \A o \in Ops :
         /\ opStatus[o] # "absent" => <<o, "submit">> \in wanted
         /\ opStatus[o] = "unknown" => <<o, "reconcile">> \in wanted

(* A job ends well only for an operation that is settled, or when the       *)
(* reconcile job takes over.                                                *)
JobsEndInTime ==
    \A o \in Ops :
      /\ status[<<o, "submit">>] \in {"completed", "failed"} =>
           opStatus[o] \in Terminal \/ <<o, "reconcile">> \in wanted
      /\ status[<<o, "reconcile">>] \in {"completed", "failed"} => opStatus[o] \in Terminal

(* A process submits the operation of the job it holds, and the status that *)
(* submit returned to it still says as much, whatever happened since.       *)
ResultTrue(p) ==
    /\ pc[p] # "idle" => heldJob[p] \in Jobs /\ heldJob[p][1] = op[p]
    /\ pc[p] = "done" =>
         /\ result[p] \in Terminal => opStatus[op[p]] \in Terminal
         /\ result[p] = "unknown" => <<op[p], "reconcile">> \in wanted

WorkerInv ==
    /\ OpsInv
    /\ QueueTypeOK
    /\ RowsAreWanted
    /\ JobsEndInTime
    /\ \A p \in Processes : ResultTrue(p)

(* What a step of the protocol does, as far as the queue is concerned.      *)
StatusesMove ==
    /\ \A o \in Ops :
         /\ opStatus[o] \in Terminal => opStatus'[o] \in Terminal
         /\ opStatus'[o] # "absent" => opStatus[o] # "absent" \/ <<o, "submit">> \in wanted'
         /\ opStatus'[o] = "unknown" => opStatus[o] = "unknown" \/ <<o, "reconcile">> \in wanted'
    /\ wanted' = wanted \/ \E j \in Jobs : wanted' = wanted \cup {j}

SameResult(q) == pc'[q] = pc[q] /\ op'[q] = op[q] /\ result'[q] = result[q]

(* A process goes on with its operation; what it returns is the status it   *)
(* leaves behind, or a failure.                                             *)
CallMoves(p) ==
    /\ \A q \in Processes \ {p} : SameResult(q)
    /\ pc'[p] # "idle" => pc[p] # "idle" /\ op'[p] = op[p]
    /\ pc'[p] = "done" => result'[p] \in {opStatus'[op[p]], "refused", "error"}

(* A call that goes on keeps its operation and has no result yet.           *)
LEMMA CallGoesOn ==
  ASSUME CallTypeOK, NEW p \in Processes, pc[p] # "idle",
         \/ \E label \in Labels \ {"idle", "done"} : Goto(p, label)
         \/ \E outcome \in Outcomes : Reply(p, outcome)
  PROVE  CallMoves(p)
<1>1. CASE \E label \in Labels \ {"idle", "done"} : Goto(p, label)
  BY <1>1 DEF Goto, CallTypeOK, CallMoves, SameResult
<1>2. CASE \E outcome \in Outcomes : Reply(p, outcome)
  BY <1>2 DEF Reply, CallTypeOK, CallMoves, SameResult
<1> QED
  BY <1>1, <1>2

(* A call that returns reports the status its transaction wrote, or that it *)
(* failed.                                                                  *)
LEMMA CallReturns ==
  ASSUME CallTypeOK, NEW p \in Processes, pc[p] # "idle", NEW value, Return(p, value),
         value \in {opStatus'[op[p]], "refused", "error"}
  PROVE  CallMoves(p)
  BY DEF Return, CallTypeOK, CallMoves, SameResult

(* Steps that leave the records alone.                                      *)
LEMMA NothingMoves ==
  ASSUME UNCHANGED recordVars
  PROVE  StatusesMove
  BY DEF recordVars, StatusesMove

(* An update of the status of one operation.                                *)
LEMMA OneStatusMoves ==
  ASSUME RowTypeOK, NEW o \in Ops, NEW written, written # "absent",
         opStatus' = [opStatus EXCEPT ![o] = written],
         opStatus[o] # "absent",
         opStatus[o] \in Terminal => written \in Terminal,
         written = "unknown" => <<o, "reconcile">> \in wanted',
         wanted' = wanted \/ \E j \in Jobs : wanted' = wanted \cup {j}
  PROVE  StatusesMove /\ opStatus'[o] = written
  BY DEF RowTypeOK, StatusesMove

(* writeReceipt with an outcome other than accepted moves one status, and   *)
(* returns it.                                                              *)
LEMMA OutcomeMoves ==
  ASSUME OpsInv, NEW p \in Processes, pc[p] # "idle",
         NEW written \in {"rejected", "manual_recovery", "unknown"}, RecordOutcome(p, written)
  PROVE  StatusesMove /\ CallMoves(p)
<1>p. PICK o \in Ops : o = op[p]
  BY CallOperation
<1>0. RowTypeOK /\ CallTypeOK /\ opStatus[o] \in OpStatus
  BY <1>p, CallOperation
<1>1. \/ Return(p, "refused") /\ UNCHANGED recordVars
      \/ /\ CanMove(opStatus[o], written)
         /\ opStatus' = [opStatus EXCEPT ![o] = written]
         /\ wanted' = IF written = "unknown" THEN wanted \cup {<<o, "reconcile">>} ELSE wanted
         /\ Return(p, written)
  BY <1>p DEF RecordOutcome
<1>2. CASE Return(p, "refused") /\ UNCHANGED recordVars
  BY <1>0, <1>2, CallReturns, NothingMoves
<1>3. CASE /\ CanMove(opStatus[o], written)
           /\ opStatus' = [opStatus EXCEPT ![o] = written]
           /\ wanted' = IF written = "unknown" THEN wanted \cup {<<o, "reconcile">>} ELSE wanted
           /\ Return(p, written)
  <2>1. opStatus[o] \in Terminal => written \in Terminal
    BY <1>3 DEF CanMove, Terminal
  <2>2. <<o, "reconcile">> \in Jobs
    BY DEF Jobs
  <2>3. opStatus[o] # "absent"
    BY <1>0 DEF OpStatus
  <2>4. StatusesMove /\ opStatus'[o] = written
    BY <1>0, <1>3, <2>1, <2>2, <2>3, OneStatusMoves
  <2> QED
    BY <1>0, <1>p, <1>3, <2>4, CallReturns
<1> QED
  BY <1>1, <1>2, <1>3

(* The steps of submit and what goes wrong in it.                           *)
LEMMA SubmitMoves ==
  ASSUME OpsInv, NEW p \in Processes, SubmitStep(p) \/ Fault(p)
  PROVE  StatusesMove /\ CallMoves(p)
<1>i. pc[p] # "idle"
  BY DEF SubmitStep, Fault, BeginSubmission, DeferBlocked, CreateExecutionAccounts, PostJournalTB,
     ReconcileJournalTB, PostJournalPG, ReconcileJournalPG, writeReceipt, finalizeAccepted,
     AuthorizationDenied, AccountAnswerLost, PostAnswerLostTB, LookupUnavailableTB,
     PostAnswerLostPG, LookupFailedPG, CallFails
<1>p. PICK o \in Ops : o = op[p]
  BY <1>i, CallOperation
<1>0. RowTypeOK /\ CallTypeOK /\ opStatus[o] \in OpStatus /\ opStatus[o] # "absent"
  BY <1>i, <1>p, CallOperation DEF OpStatus
<1>1. ASSUME UNCHANGED recordVars,
             \/ \E label \in Labels \ {"idle", "done"} : Goto(p, label)
             \/ \E outcome \in Outcomes : Reply(p, outcome)
             \/ \E value \in {opStatus[o], "refused", "error"} : Return(p, value)
      PROVE  StatusesMove /\ CallMoves(p)
  <2>1. opStatus' = opStatus
    BY <1>1 DEF recordVars
  <2> QED
    BY <1>i, <1>p, <1>0, <1>1, <2>1, CallGoesOn, CallReturns, NothingMoves
<1>2. CASE BeginSubmission(p)
  <2>1. \/ UNCHANGED recordVars /\ Return(p, opStatus[o])
        \/ UNCHANGED recordVars /\ Reply(p, "manual_recovery")
        \/ UNCHANGED recordVars /\ Goto(p, "defer")
        \/ /\ opStatus[o] \notin Terminal
           /\ opStatus' = [opStatus EXCEPT ![o] = IF opStatus[o] \in {"intent", "unknown"}
                                                  THEN "submitted" ELSE opStatus[o]]
           /\ wanted' = wanted
           /\ pc' = [pc EXCEPT ![p] = "account"] /\ UNCHANGED <<op, reply, result>>
    BY <1>p, <1>2 DEF BeginSubmission, recordVars
  <2>2. CASE \/ UNCHANGED recordVars /\ Return(p, opStatus[o])
             \/ UNCHANGED recordVars /\ Reply(p, "manual_recovery")
             \/ UNCHANGED recordVars /\ Goto(p, "defer")
    BY <1>1, <2>2 DEF Outcomes, Labels
  <2>3. CASE /\ opStatus[o] \notin Terminal
             /\ opStatus' = [opStatus EXCEPT ![o] = IF opStatus[o] \in {"intent", "unknown"}
                                                    THEN "submitted" ELSE opStatus[o]]
             /\ wanted' = wanted
             /\ pc' = [pc EXCEPT ![p] = "account"] /\ UNCHANGED <<op, reply, result>>
    <3>1. PICK written : /\ written = IF opStatus[o] \in {"intent", "unknown"}
                                     THEN "submitted" ELSE opStatus[o]
                         /\ opStatus' = [opStatus EXCEPT ![o] = written]
      BY <2>3
    <3>2. StatusesMove
      BY <1>0, <2>3, <3>1, OneStatusMoves
    <3>3. CallMoves(p)
      BY <1>i, <1>0, <2>3 DEF CallTypeOK, CallMoves, SameResult
    <3> QED
      BY <3>2, <3>3
  <2> QED
    BY <2>1, <2>2, <2>3
<1>3. CASE DeferBlocked(p) \/ CreateExecutionAccounts(p) \/ PostJournalTB(p)
             \/ ReconcileJournalTB(p)
  <2>1. UNCHANGED recordVars
    BY <1>3 DEF DeferBlocked, CreateExecutionAccounts, PostJournalTB, ReconcileJournalTB
  <2>2. accounts[o] \in Outcomes
    BY <1>0 DEF RowTypeOK, Outcomes
  <2>3. \/ \E label \in {"lookup", "post"} : Goto(p, label)
        \/ \E outcome \in {accounts[o], "accepted", "rejected"} : Reply(p, outcome)
        \/ Return(p, opStatus[o])
    BY <1>p, <1>3 DEF DeferBlocked, CreateExecutionAccounts, PostJournalTB, ReconcileJournalTB
  <2> QED
    BY <1>1, <2>1, <2>2, <2>3 DEF Labels, Outcomes
<1>4. CASE ReconcileJournalPG(p)
  <2>1. UNCHANGED recordVars
    BY <1>4 DEF ReconcileJournalPG
  <2>2. \/ Goto(p, "post")
        \/ \E outcome \in {"rejected", "manual_recovery", "accepted"} : Reply(p, outcome)
    BY <1>p, <1>4 DEF ReconcileJournalPG
  <2> QED
    BY <1>1, <2>1, <2>2 DEF Labels, Outcomes
<1>a. ASSUME opStatus[o] \notin Terminal \cup {"accepted"}, AcceptInPostgreSQL(o),
             NEW outcome \in Outcomes, Reply(p, outcome)
      PROVE  StatusesMove /\ CallMoves(p)
  <2>1. StatusesMove
    BY <1>0, <1>a, OneStatusMoves DEF AcceptInPostgreSQL
  <2> QED
    BY <1>i, <1>0, <1>a, <2>1, CallGoesOn
<1>5. CASE PostJournalPG(p)
  <2>1. \/ UNCHANGED recordVars
             /\ \E outcome \in {"accepted", "rejected", "manual_recovery"} : Reply(p, outcome)
        \/ /\ opStatus[o] \notin Terminal \cup {"accepted"}
           /\ AcceptInPostgreSQL(o) /\ Reply(p, "accepted")
    BY <1>p, <1>5 DEF PostJournalPG
  <2> QED
    BY <1>1, <1>a, <2>1 DEF Outcomes
<1>6. CASE writeReceipt(p)
  <2>1. \/ \E written \in {"rejected", "manual_recovery", "unknown"} : RecordOutcome(p, written)
        \/ UNCHANGED recordVars /\ Return(p, opStatus[o])
        \/ UNCHANGED recordVars /\ Return(p, "refused")
        \/ /\ CanMove(opStatus[o], "accepted") /\ opStatus[o] # "reconciled"
           /\ opStatus' = [opStatus EXCEPT ![o] = "accepted"]
           /\ wanted' = wanted /\ Goto(p, "finalize")
    BY <1>p, <1>6 DEF writeReceipt, recordVars
  <2>2. CASE \E written \in {"rejected", "manual_recovery", "unknown"} : RecordOutcome(p, written)
    BY <1>i, <2>2, OutcomeMoves
  <2>3. CASE UNCHANGED recordVars /\ (Return(p, opStatus[o]) \/ Return(p, "refused"))
    BY <1>1, <2>3
  <2>4. CASE /\ CanMove(opStatus[o], "accepted") /\ opStatus[o] # "reconciled"
             /\ opStatus' = [opStatus EXCEPT ![o] = "accepted"]
             /\ wanted' = wanted /\ Goto(p, "finalize")
    <3>1. opStatus[o] \notin Terminal
      BY <2>4 DEF CanMove, Terminal
    <3>2. StatusesMove
      BY <1>0, <2>4, <3>1, OneStatusMoves
    <3> QED
      BY <1>i, <1>0, <2>4, <3>2, CallGoesOn DEF Labels
  <2> QED
    BY <2>1, <2>2, <2>3, <2>4
<1>7. CASE finalizeAccepted(p)
  <2>1. \/ UNCHANGED recordVars /\ Return(p, opStatus[o])
        \/ UNCHANGED recordVars /\ Return(p, "refused")
        \/ /\ opStatus' = [opStatus EXCEPT ![o] = "reconciled"]
           /\ wanted' = wanted /\ Return(p, "reconciled")
    BY <1>p, <1>7 DEF finalizeAccepted
  <2>2. CASE UNCHANGED recordVars /\ (Return(p, opStatus[o]) \/ Return(p, "refused"))
    BY <1>1, <2>2
  <2>3. CASE /\ opStatus' = [opStatus EXCEPT ![o] = "reconciled"]
             /\ wanted' = wanted /\ Return(p, "reconciled")
    <3>1. StatusesMove /\ opStatus'[o] = "reconciled"
      BY <1>0, <2>3, OneStatusMoves DEF Terminal
    <3> QED
      BY <1>i, <1>p, <1>0, <2>3, <3>1, CallReturns
  <2> QED
    BY <2>1, <2>2, <2>3
<1>8. CASE Fault(p)
  <2>1. CASE PostAnswerLostPG(p)
    <3>1. \/ UNCHANGED recordVars /\ Reply(p, "misidentified")
          \/ /\ opStatus[o] \notin Terminal \cup {"accepted"}
             /\ AcceptInPostgreSQL(o) /\ Reply(p, "misidentified")
      BY <1>p, <2>1 DEF PostAnswerLostPG
    <3> QED
      BY <1>1, <1>a, <3>1 DEF Outcomes
  <2>2. CASE ~ PostAnswerLostPG(p)
    <3>1. /\ UNCHANGED recordVars
          /\ \/ \E outcome \in {"manual_recovery", "unknown", "misidentified"} : Reply(p, outcome)
             \/ Return(p, "error")
      BY <1>8, <2>2 DEF Fault, AuthorizationDenied, AccountAnswerLost, PostAnswerLostTB,
         LookupUnavailableTB, LookupFailedPG, CallFails
    <3> QED
      BY <1>1, <3>1 DEF Outcomes
  <2> QED
    BY <2>1, <2>2
<1> QED
  BY <1>2, <1>3, <1>4, <1>5, <1>6, <1>7, <1>8 DEF SubmitStep

-----------------------------------------------------------------------------
(* The queue and the protocol together.                                     *)

(* The worker runs the protocol, and only for jobs somebody asked for.      *)
LEMMA WorkerStepIsOpsStep ==
  ASSUME WorkerInv, [WorkerNext]_workerVars
  PROVE  [OpsNext]_opVars
<1>1. ASSUME NEW p \in Processes, ClaimAndSubmit(p)
      PROVE  OpsNext
  <2>1. PICK j \in Jobs : J!claimJob(p, j, p) /\ submit(p, j[1], j[2])
    BY <1>1 DEF ClaimAndSubmit
  <2>2. j \in wanted
    BY <2>1 DEF J!claimJob, J!Claimable, WorkerInv, RowsAreWanted
  <2> QED
    BY <2>1, <2>2 DEF Call, OpsNext
<1>2. ASSUME NEW p \in Processes, RunSubmit(p) \/ FinishJob(p) \/ LoseLease(p) \/ WorkerDies(p)
      PROVE  OpsNext
  BY <1>2 DEF RunSubmit, FinishJob, LoseLease, WorkerDies, OpsNext
<1>3. ASSUME WorkerEnvironment
      PROVE  OpsNext
  BY <1>3 DEF WorkerEnvironment, OpsNext, Environment
<1>4. ASSUME \/ UNCHANGED workerVars
             \/ \E p \in Processes, j \in Jobs : ClockTick(p, j)
      PROVE  UNCHANGED opVars
  BY <1>4 DEF ClockTick, workerVars
<1> QED
  BY <1>1, <1>2, <1>3, <1>4 DEF WorkerNext

(* A transaction that asks for a job has its row when it commits.           *)
LEMMA EnqueueStep ==
  ASSUME QueueTypeOK, RowsAreWanted, StatusesMove, EnqueueWanted
  PROVE  /\ QueueTypeOK'
         /\ wanted' = {j \in Jobs : status'[j] # "absent"}
         /\ \A j \in Jobs : status'[j] \in {"completed", "failed"} => status'[j] = status[j]
         /\ wanted \subseteq wanted'
         /\ heldJob' = heldJob
<1>1. CASE wanted' = wanted
  BY <1>1 DEF EnqueueWanted, queueVars, QueueTypeOK, RowsAreWanted
<1>2. CASE wanted' # wanted
  <2>1. PICK j \in wanted' \ wanted : J!enqueue(j)
    BY <1>2 DEF EnqueueWanted
  <2>2. wanted' = wanted \cup {j} /\ j \in Jobs
    BY <1>2, <2>1 DEF StatusesMove
  <2>3. status[j] = "absent"
    BY <2>1, <2>2 DEF RowsAreWanted
  <2>4. status' = [status EXCEPT ![j] = "pending"] /\ heldJob' = heldJob
    BY <2>1, <2>3 DEF J!enqueue
  <2>5. QueueTypeOK'
    BY <2>2, <2>4 DEF QueueTypeOK, J!JobStatus
  <2>6. \A x \in Jobs : status'[x] = IF x = j THEN "pending" ELSE status[x]
    BY <2>2, <2>4 DEF QueueTypeOK
  <2> QED
    BY <2>2, <2>4, <2>5, <2>6 DEF RowsAreWanted
<1> QED
  BY <1>1, <1>2

(* A step of the protocol with its enqueue.                                 *)
LEMMA ProtocolKeeps ==
  ASSUME WorkerInv, StatusesMove, EnqueueWanted, OpsTypeOK',
         \A q \in Processes : SameResult(q) \/ CallMoves(q)
  PROVE  /\ QueueTypeOK' /\ RowsAreWanted' /\ JobsEndInTime'
         /\ \A q \in Processes : ResultTrue(q)'
<1>1. /\ QueueTypeOK'
      /\ wanted' = {j \in Jobs : status'[j] # "absent"}
      /\ \A j \in Jobs : status'[j] \in {"completed", "failed"} => status'[j] = status[j]
      /\ wanted \subseteq wanted'
      /\ heldJob' = heldJob
  BY EnqueueStep DEF WorkerInv
<1>2. RowsAreWanted'
  BY <1>1 DEF WorkerInv, RowsAreWanted, StatusesMove
<1>3. JobsEndInTime'
  <2>1. \A o \in Ops : <<o, "submit">> \in Jobs /\ <<o, "reconcile">> \in Jobs
    BY DEF Jobs
  <2> QED
    BY <1>1, <2>1 DEF WorkerInv, JobsEndInTime, StatusesMove
<1>4. ASSUME NEW q \in Processes
      PROVE  ResultTrue(q)'
  <2>1. ResultTrue(q)
    BY DEF WorkerInv
  <2>2. pc[q] # "idle" => op[q] \in Ops
    BY DEF WorkerInv, OpsInv, CallInv
  <2>3. CASE SameResult(q)
    BY <1>1, <2>1, <2>2, <2>3 DEF ResultTrue, SameResult, StatusesMove
  <2>4. CASE CallMoves(q)
    <3>1. pc'[q] # "idle" => heldJob'[q] \in Jobs /\ heldJob'[q][1] = op'[q]
      BY <1>1, <2>1, <2>4 DEF ResultTrue, CallMoves
    <3>2. ASSUME pc'[q] = "done"
          PROVE  /\ result'[q] \in Terminal => opStatus'[op'[q]] \in Terminal
                 /\ result'[q] = "unknown" => <<op'[q], "reconcile">> \in wanted'
      <4>1. op'[q] = op[q] /\ op[q] \in Ops /\ result'[q] \in {opStatus'[op[q]], "refused", "error"}
        BY <2>2, <2>4, <3>2 DEF CallMoves
      <4> QED
        BY <1>2, <4>1 DEF RowsAreWanted, Terminal
    <3> QED
      BY <3>1, <3>2 DEF ResultTrue
  <2> QED
    BY <2>3, <2>4
<1> QED
  BY <1>1, <1>2, <1>3, <1>4

(* A process gives up what it holds, and its call with it.                  *)
LEMMA LetGoKeeps ==
  ASSUME WorkerInv, NEW p \in Processes, UNCHANGED recordVars, Forget(p),
         QueueTypeOK', JobsEndInTime', \A j \in Jobs : status'[j] = "absent" <=> status[j] = "absent",
         \A q \in Processes \ {p} : heldJob'[q] = heldJob[q]
  PROVE  /\ RowsAreWanted'
         /\ \A q \in Processes : ResultTrue(q)'
<1>1. opStatus' = opStatus /\ wanted' = wanted
  BY DEF recordVars
<1>2. RowsAreWanted'
  BY <1>1 DEF WorkerInv, RowsAreWanted
<1>3. CallTypeOK
  BY TypeParts DEF WorkerInv, OpsInv
<1>4. ResultTrue(p)'
  BY <1>3 DEF Forget, CallTypeOK, ResultTrue
<1>5. ASSUME NEW q \in Processes, q # p
      PROVE  ResultTrue(q)'
  <2>1. SameResult(q) /\ heldJob'[q] = heldJob[q]
    BY <1>3, <1>5 DEF Forget, CallTypeOK, SameResult
  <2>2. ResultTrue(q)
    BY DEF WorkerInv
  <2> QED
    BY <1>1, <2>1, <2>2 DEF ResultTrue, SameResult
<1> QED
  BY <1>2, <1>4, <1>5

(* The runner closes a job only in time.                                    *)
LEMMA FinishKeeps ==
  ASSUME WorkerInv, NEW p \in Processes, FinishJob(p)
  PROVE  /\ QueueTypeOK' /\ RowsAreWanted' /\ JobsEndInTime'
         /\ \A q \in Processes : ResultTrue(q)'
<1>1. /\ pc[p] = "done" /\ Forget(p) /\ UNCHANGED recordVars
      /\ opStatus' = opStatus /\ wanted' = wanted
  BY DEF FinishJob, TakeResult, recordVars
<1>2. PICK j \in Jobs : j = heldJob[p] /\ j[1] = op[p]
  BY <1>1 DEF WorkerInv, ResultTrue
<1>3. PICK o \in Ops, jobType \in {"submit", "reconcile"} : j = <<o, jobType>> /\ o = op[p]
  BY <1>2 DEF Jobs
<1>4. PICK closed \in J!JobStatus :
        /\ status[j] = "leased"
        /\ status' = [status EXCEPT ![j] = closed]
        /\ heldJob' = [heldJob EXCEPT ![p] = None]
        /\ closed \in {"completed", "failed"} => Completes(jobType, result[p])
  <2>1. CASE Completes(heldJob[p][2], result[p])
    BY <1>2, <1>3, <2>1 DEF FinishJob, J!completeJob, J!LeaseValid, J!CloseLease, J!JobStatus
  <2>2. CASE ~ Completes(heldJob[p][2], result[p])
    BY <1>2, <2>2 DEF FinishJob, J!failJob, J!LeaseValid, J!CloseLease, J!FailureStatus, J!JobStatus
  <2> QED
    BY <2>1, <2>2
<1>5. /\ status \in [Jobs -> J!JobStatus \cup {"absent"}]
      /\ heldJob \in [Processes -> Jobs \cup {None}]
  BY DEF WorkerInv, QueueTypeOK
<1>6. QueueTypeOK'
  BY <1>4, <1>5 DEF QueueTypeOK
<1>7. \A x \in Jobs : status'[x] = IF x = j THEN closed ELSE status[x]
  BY <1>4, <1>5
<1>8. \A x \in Jobs : status'[x] = "absent" <=> status[x] = "absent"
  BY <1>4, <1>7 DEF J!JobStatus
<1>9. Completes(jobType, result[p]) =>
        opStatus[o] \in Terminal \/ (jobType = "submit" /\ <<o, "reconcile">> \in wanted)
  BY <1>1, <1>3 DEF Completes, WorkerInv, ResultTrue, Terminal
<1>10. JobsEndInTime'
  <2>1. ASSUME NEW x \in Ops, NEW t \in {"submit", "reconcile"},
               status'[<<x, t>>] \in {"completed", "failed"}
        PROVE  opStatus[x] \in Terminal \/ (t = "submit" /\ <<x, "reconcile">> \in wanted)
    <3>1. <<x, t>> \in Jobs
      BY DEF Jobs
    <3>2. CASE <<x, t>> = j
      BY <1>3, <1>4, <1>7, <1>9, <2>1, <3>1, <3>2
    <3>3. CASE <<x, t>> # j
      BY <1>7, <2>1, <3>1, <3>3 DEF WorkerInv, JobsEndInTime
    <3> QED
      BY <3>2, <3>3
  <2> QED
    BY <1>1, <2>1 DEF JobsEndInTime
<1>11. \A q \in Processes \ {p} : heldJob'[q] = heldJob[q]
  BY <1>4, <1>5
<1> QED
  BY <1>1, <1>6, <1>8, <1>10, <1>11, LetGoKeeps

(* A lease that ran out, and a process that dies.                           *)
LEMMA AbandonKeeps ==
  ASSUME WorkerInv, NEW p \in Processes, LoseLease(p) \/ WorkerDies(p)
  PROVE  /\ QueueTypeOK' /\ RowsAreWanted' /\ JobsEndInTime'
         /\ \A q \in Processes : ResultTrue(q)'
<1>1. /\ Forget(p) /\ UNCHANGED recordVars
      /\ status' = status /\ heldJob' = [heldJob EXCEPT ![p] = None]
  BY DEF LoseLease, WorkerDies, J!leaseLost, J!Crash, J!rowVars, TakeResult, Die
<1>2. QueueTypeOK' /\ \A q \in Processes \ {p} : heldJob'[q] = heldJob[q]
  BY <1>1 DEF WorkerInv, QueueTypeOK
<1>3. JobsEndInTime'
  BY <1>1 DEF WorkerInv, JobsEndInTime, recordVars
<1> QED
  BY <1>1, <1>2, <1>3, LetGoKeeps

(* A claim hands the operation of the job to submit.                        *)
LEMMA ClaimKeeps ==
  ASSUME WorkerInv, NEW p \in Processes, ClaimAndSubmit(p)
  PROVE  /\ QueueTypeOK' /\ RowsAreWanted' /\ JobsEndInTime'
         /\ \A q \in Processes : ResultTrue(q)'
<1>1. PICK j \in Jobs : J!claimJob(p, j, p) /\ submit(p, j[1], j[2])
  BY DEF ClaimAndSubmit
<1>2. PICK o \in Ops, jobType \in {"submit", "reconcile"} : j = <<o, jobType>>
  BY DEF Jobs
<1>3. /\ status[j] # "absent"
      /\ status' = [status EXCEPT ![j] = "leased"]
      /\ heldJob' = [heldJob EXCEPT ![p] = j]
  BY <1>1 DEF J!claimJob, J!Claimable
<1>4. /\ UNCHANGED <<opStatus, wanted>> /\ op' = [op EXCEPT ![p] = o]
      /\ \/ /\ opStatus[o] \in Terminal
            /\ pc' = [pc EXCEPT ![p] = "done"] /\ result' = [result EXCEPT ![p] = opStatus[o]]
         \/ pc' = [pc EXCEPT ![p] = "begin"] /\ result' = result
  BY <1>1, <1>2 DEF submit, recordVars
<1>5. /\ status \in [Jobs -> J!JobStatus \cup {"absent"}]
      /\ heldJob \in [Processes -> Jobs \cup {None}]
      /\ CallTypeOK
  BY TypeParts DEF WorkerInv, QueueTypeOK, OpsInv
<1>6. QueueTypeOK'
  BY <1>3, <1>5 DEF QueueTypeOK, J!JobStatus
<1>7. \A x \in Jobs : status'[x] = IF x = j THEN "leased" ELSE status[x]
  BY <1>3, <1>5
<1>8. RowsAreWanted'
  BY <1>3, <1>4, <1>7 DEF WorkerInv, RowsAreWanted
<1>9. JobsEndInTime'
  <2>1. \A x \in Ops : <<x, "submit">> \in Jobs /\ <<x, "reconcile">> \in Jobs
    BY DEF Jobs
  <2> QED
    BY <1>4, <1>7, <2>1 DEF WorkerInv, JobsEndInTime
<1>10. ResultTrue(p)'
  <2>1. op'[p] = o /\ heldJob'[p] = j /\ j[1] = o
    BY <1>2, <1>3, <1>4, <1>5 DEF CallTypeOK
  <2>2. pc'[p] = "done" => result'[p] = opStatus[o] /\ opStatus[o] \in Terminal
    BY <1>4, <1>5 DEF CallTypeOK
  <2> QED
    BY <1>4, <2>1, <2>2 DEF ResultTrue, Terminal
<1>11. ASSUME NEW q \in Processes, q # p
       PROVE  ResultTrue(q)'
  <2>1. SameResult(q) /\ heldJob'[q] = heldJob[q]
    BY <1>3, <1>4, <1>5, <1>11 DEF CallTypeOK, SameResult
  <2>2. ResultTrue(q)
    BY DEF WorkerInv
  <2> QED
    BY <1>4, <2>1, <2>2 DEF ResultTrue, SameResult
<1> QED
  BY <1>6, <1>8, <1>9, <1>10, <1>11

(* Nothing is asked for yet.                                                *)
LEMMA WorkerStart == WorkerInit => WorkerInv
<1> SUFFICES ASSUME WorkerInit PROVE WorkerInv
  OBVIOUS
<1>1. OpsInv
  BY InitInv DEF WorkerInit
<1>2. QueueTypeOK /\ \A j \in Jobs : status[j] = "absent"
  BY DEF WorkerInit, J!JobsInit, QueueTypeOK
<1>3. RowsAreWanted
  BY <1>2 DEF WorkerInit, OpsInit, RowsAreWanted
<1>4. JobsEndInTime
  BY <1>2 DEF JobsEndInTime, Jobs
<1>5. \A p \in Processes : ResultTrue(p)
  BY DEF WorkerInit, OpsInit, ResultTrue
<1> QED
  BY <1>1, <1>2, <1>3, <1>4, <1>5 DEF WorkerInv

(* Every step keeps the invariant.                                          *)
LEMMA WorkerNextInv == WorkerInv /\ [WorkerNext]_workerVars => WorkerInv'
<1> SUFFICES ASSUME WorkerInv, [WorkerNext]_workerVars PROVE WorkerInv'
  OBVIOUS
<1>o. OpsInv'
  BY WorkerStepIsOpsStep, NextStep DEF WorkerInv, StepOK
<1>t. OpsInv /\ OpsTypeOK'
  BY <1>o DEF WorkerInv, OpsInv
<1>1. SUFFICES /\ QueueTypeOK' /\ RowsAreWanted' /\ JobsEndInTime'
               /\ \A q \in Processes : ResultTrue(q)'
  BY <1>o DEF WorkerInv
<1>2. CASE WorkerEnvironment
  <2>1. EnqueueWanted /\ UNCHANGED callVars
    BY <1>2 DEF WorkerEnvironment, createJournalIntent, LateExecution
  <2>2. \A q \in Processes : SameResult(q)
    BY <2>1 DEF callVars, SameResult
  <2>3. StatusesMove
    <3>1. CASE \E o \in Ops : LateExecution(o)
      BY <3>1, NothingMoves DEF LateExecution
    <3>2. ASSUME NEW p \in Processes, NEW o \in Ops, createJournalIntent(p, o)
          PROVE  StatusesMove
      <4>1. /\ opStatus[o] = "absent" /\ opStatus' = [opStatus EXCEPT ![o] = "intent"]
            /\ wanted' = wanted \cup {<<o, "submit">>}
        BY <3>2 DEF createJournalIntent
      <4>2. RowTypeOK /\ <<o, "submit">> \in Jobs
        BY <1>t, TypeParts DEF OpsInv, Jobs
      <4> QED
        BY <4>1, <4>2 DEF StatusesMove, RowTypeOK, Terminal
    <3> QED
      BY <1>2, <3>1, <3>2 DEF WorkerEnvironment
  <2> QED
    BY <1>t, <2>1, <2>2, <2>3, ProtocolKeeps
<1>3. ASSUME NEW p \in Processes, RunSubmit(p)
      PROVE  /\ QueueTypeOK' /\ RowsAreWanted' /\ JobsEndInTime'
             /\ \A q \in Processes : ResultTrue(q)'
  <2>1. StatusesMove /\ CallMoves(p) /\ EnqueueWanted
    BY <1>t, <1>3, SubmitMoves DEF RunSubmit
  <2>2. \A q \in Processes : SameResult(q) \/ CallMoves(q)
    BY <2>1 DEF CallMoves
  <2> QED
    BY <1>t, <2>1, <2>2, ProtocolKeeps
<1>4. ASSUME NEW p \in Processes, ClaimAndSubmit(p)
      PROVE  /\ QueueTypeOK' /\ RowsAreWanted' /\ JobsEndInTime'
             /\ \A q \in Processes : ResultTrue(q)'
  BY <1>4, ClaimKeeps
<1>5. ASSUME NEW p \in Processes, FinishJob(p)
      PROVE  /\ QueueTypeOK' /\ RowsAreWanted' /\ JobsEndInTime'
             /\ \A q \in Processes : ResultTrue(q)'
  BY <1>5, FinishKeeps
<1>6. ASSUME NEW p \in Processes, LoseLease(p) \/ WorkerDies(p)
      PROVE  /\ QueueTypeOK' /\ RowsAreWanted' /\ JobsEndInTime'
             /\ \A q \in Processes : ResultTrue(q)'
  BY <1>6, AbandonKeeps
<1>7. CASE \/ UNCHANGED workerVars
           \/ \E p \in Processes, j \in Jobs : ClockTick(p, j)
  <2>1. UNCHANGED <<opStatus, wanted, pc, op, result, status, heldJob>>
    BY <1>7 DEF workerVars, opVars, queueVars, ClockTick, J!ClockPasses, J!heldVars
  <2> QED
    BY <2>1 DEF WorkerInv, QueueTypeOK, RowsAreWanted, JobsEndInTime, ResultTrue
<1> QED
  BY <1>2, <1>3, <1>4, <1>5, <1>6, <1>7 DEF WorkerNext

(* The queue, the workers and the protocol agree in every reachable state.  *)
THEOREM WorkerInvariant == WorkerSpec => []WorkerInv
  BY WorkerStart, WorkerNextInv, PTL DEF WorkerSpec

(* No operation is forgotten: while it is open, one of its jobs can be      *)
(* claimed, is being worked on, or ran out of attempts.                     *)
THEOREM NothingForgotten == WorkerSpec => []OpenOperationHasJob
<1>1. WorkerInv => OpenOperationHasJob
  <2> SUFFICES ASSUME WorkerInv, NEW o \in Ops, opStatus[o] \in OpStatus \ Terminal
               PROVE  \E jobType \in {"submit", "reconcile"} :
                        status[<<o, jobType>>] \in {"pending", "leased", "manual_recovery"}
    BY DEF OpenOperationHasJob
  <2>1. \A jobType \in {"submit", "reconcile"} :
          <<o, jobType>> \in wanted =>
            status[<<o, jobType>>] \in {"pending", "leased", "manual_recovery"}
              \/ status[<<o, jobType>>] \in {"completed", "failed"}
    BY DEF WorkerInv, QueueTypeOK, RowsAreWanted, J!JobStatus
  <2>2. <<o, "submit">> \in wanted
    BY DEF WorkerInv, RowsAreWanted, OpStatus
  <2>3. status[<<o, "submit">>] \in {"completed", "failed"} => <<o, "reconcile">> \in wanted
    BY DEF WorkerInv, JobsEndInTime
  <2>4. status[<<o, "reconcile">>] \notin {"completed", "failed"}
    BY DEF WorkerInv, JobsEndInTime
  <2> QED
    BY <2>1, <2>2, <2>3, <2>4
<1> QED
  BY <1>1, WorkerInvariant, PTL

(* The worker over the queue implements the protocol, so that every theorem *)
(* about OpsSpec holds of it.                                               *)
THEOREM WorkerRefinement == WorkerSpec => WorkerImplementsOperations
<1>1. WorkerInit => OpsInit
  BY DEF WorkerInit
<1>2. WorkerInv /\ [WorkerNext]_workerVars => [OpsNext]_opVars
  BY WorkerStepIsOpsStep
<1> QED
  BY <1>1, <1>2, WorkerInvariant, PTL DEF WorkerSpec, WorkerImplementsOperations, OpsSpec

=============================================================================
