------------------------------ MODULE AtmAudit ------------------------------
(***************************************************************************)
(* The terminal session together with the readers of its journal: the      *)
(* replay inspector, the recovery classifier, the terminal shell's summary *)
(* and the certification harness.  They see the journal only; the          *)
(* properties compare what they conclude with what happened.               *)
(*                                                                         *)
(* The journal reaches its file in the order of its events, so a terminal  *)
(* that stops at any moment leaves a prefix of it behind: what is said of  *)
(* a reader is said of every prefix.                                       *)
(***************************************************************************)
EXTENDS AtmSession, Certification

\* The journals a stop of the terminal can leave in the file: the anchor is in
\* it before the session begins.
Persisted == {SubSeq(journal, 1, n) : n \in 1 .. Len(journal)}

\* What the session's requests did is in the account it booked them to.
Booked == accounts[account] - InitialBalance = Moved

\* The recommended action fits what the far ends did, and what a device or a
\* host may still do after the terminal has stopped:
\*  - nothing to do, or a plain retry, is recommended only when every hold and
\*    every movement of cash is booked in a completed transaction;
\*  - a reversal only when the host holds an approval for cash that neither
\*    moved nor can still move.
RecoverySound ==
    \A file \in Persisted :
        LET recovery == ClassifyRecovery(file)
        IN  /\ (\E k \in CashMoves \cup {"authorize"} : AtLarge(k))
               => \/ recovery \notin {"none", "safe_retry"}
                  \/ /\ recovery = "none"
                     /\ JournalOutcome(file) = "completed"
                     /\ Booked
            /\ recovery = "reverse_authorization" =>
                  req["authorize"] = "ok" /\ ~AtLarge("dispense")

\* A journal that strict replay rejects, for instance one cut short by a stop
\* of the terminal, is never one the classifier lets an automatic action
\* follow from.
RejectedJournalsGoToAnOperator ==
    \A file \in Persisted :
        ~ReplayValid(file) =>
            ClassifyRecovery(file) \in {"manual_reconciliation", "operator_review"}

\* The readers were written separately and agree on every persisted journal:
\* on the host requests still open and on the outcome.  They agree on the
\* failure code too, but for a flow failure that follows no outcome, to which
\* the summary gives a code of its own.
ReadersAgree ==
    \A file \in Persisted :
        LET replayed == Replay(file)
            summary  == HistorySummary(file)
            outcome  == CASE replayed.status \in {"completed", "cancelled"} ->
                               replayed.status
                          [] replayed.status \in
                               {"failed", "reconciliation_required"} -> "failed"
                          [] OTHER -> "idle"
        IN  /\ PendingAuthorizationTransactions(file)
                 = {t \in DOMAIN replayed.pending : replayed.pending[t] > 0}
            /\ outcome = JournalOutcome(file)
            /\ outcome = summary.status
            /\ \/ summary.failureCode = TerminalFailureCode(file)
               \/ /\ summary.failureCode = "FLOW_FAILED"
                  /\ TerminalFailureCode(file) = NoCode

\* The screen tells the customer and the operator the truth: a transaction is
\* shown as cancelled only if nothing was asked of host or devices, as declined
\* or refused only if no cash can move any more, and as completed with its cash
\* only if that cash moved, with the balances and the terminal cash of now.
ScreenTruthful ==
    \A file \in Persisted :
        LET summary == HistorySummary(file)
            detail  == OperationDetail(summary)
        IN  /\ detail = "untouched" => Untouched /\ AccountsUntouched
            /\ file = journal /\ OperationState(summary, file) = "skipped" =>
                  Untouched
            /\ detail \in {"HOST_DECLINED", "DISPENSER_OFFLINE",
                           "CARD_READER_OFFLINE"} => ~AtLarge("dispense")
            /\ detail = "ACCEPTOR_OFFLINE" => ~AtLarge("accept")
            /\ summary.status = "completed" =>
                  /\ detail = "dispensed" => req["dispense"] = "ok"
                  /\ detail = "accepted" => req["accept"] = "ok"
                  /\ \A a \in summary.report.known :
                        summary.report.balances[a] = accounts[a]
                  /\ summary.report.cash \subseteq {cash}

\* After a session that ran to its end, the opening ledger and the journal are
\* enough to reconstruct every balance and terminal cash.
LedgerRecovered ==
    pc = "done" =>
        LET ledger == Replay(journal).ledger
        IN  /\ \A a \in Accounts :
                  accounts[a] = IF a \in ledger.known THEN ledger.balances[a]
                                                      ELSE InitialBalance
            /\ {cash} = IF ledger.cash = Unreported THEN {InitialCash} ELSE ledger.cash
-----------------------------------------------------------------------------
(***************************************************************************)
(* The session's two cash calls implement the abstract cash request.       *)
(***************************************************************************)
RequestOf(k) ==
    CASE req[k] \in {"idle", "open"} -> req[k]
      [] req[k] = "ok"               -> "moved"
      [] OTHER                       -> "refused"

\* The module knows what it acts upon: it books a movement, journals a
\* failure, or leaves the outcome open.
ToldOf(k) ==
    CASE req[k] = "idle" \/ pc = k                    -> "none"
      [] req[k] # "idle" /\ pc # k
         /\ accounts[account] # InitialBalance        -> "moved"
      [] req[k] # "idle" /\ pc # k
         /\ accounts[account] = InitialBalance
         /\ Journaled("transaction.failed", Name)     -> "refused"
      [] OTHER                                        -> "unknown"

Dispenser == INSTANCE CashDevice
    WITH request <- RequestOf("dispense"), told <- ToldOf("dispense")
Acceptor == INSTANCE CashDevice
    WITH request <- RequestOf("accept"), told <- ToldOf("accept")

\* What a session that ran to its end deserves in a certification profile, by
\* what its requests came to and not by what it journaled of them: the possible
\* outcomes, with their failure code and recovery.
Deserved ==
    LET failed(code, recovery) ==
            [status |-> "failed", failureCode |-> code, recovery |-> recovery]
        ended(status) ==
            [status |-> status, failureCode |-> NoExpectation, recovery |-> "none"]
        retry(code) == IF code \in RecoveryCodes THEN "safe_retry"
                                                 ELSE "operator_review"
    IN  CASE \E k \in CashMoves : ToldOf(k) = "unknown" ->
               {failed("ADAPTER_OUTCOME_UNKNOWN", "manual_reconciliation")}
          [] \E k \in CashMoves : ToldOf(k) = "moved" -> {ended("completed")}
          [] ToldOf("dispense") = "refused" ->
               {failed(req["dispense"], "reverse_authorization")}
          [] ToldOf("accept") = "refused" ->
               {failed(req["accept"], retry(req["accept"]))}
          [] Untouched -> {ended("completed"), ended("cancelled")}
          [] OTHER -> \* the host refused, or its answer was not awaited
               {IF code = "HOST_DECLINED" THEN failed(code, "none")
                                          ELSE failed(code, retry(code)) :
                code \in {req["authorize"], "ADAPTER_TIMEOUT"}
                           \cup LostCodes["authorize"]}

\* A session that ran to its end passes the certification of what it deserves:
\* its journal replays without an error, the summary and the classifier agree
\* with it, and the recovery is the one its requests call for.
EndedSessionsCertify ==
    pc = "done" /\ transaction # UnknownTransaction =>
        \E expected \in Deserved :
            CasePasses(expected, journal, Summary(journal, TRUE))

\* Whatever the devices and the timer do, a withdrawal treats its dispense and
\* a deposit its acceptance as CashDevice promises (callAdapter,
\* CashWithdrawalModule, CashDepositModule).
MovesAreCashRequests == Dispenser!Spec /\ Acceptor!Spec
-----------------------------------------------------------------------------
\* The planner of cash is exact up to the largest amount a simulator knows:
\* whatever notes deposits and adjustments have left in the cash units, such an
\* amount gets a plan just when some choice of the notes at hand is worth it, and
\* the plan is such a choice; a larger amount gets none, even if notes are worth
\* it (allocateCash).  It depends on no state and is looked at before a session
\* begins.
AllocationExact ==
    pc = "load" =>
        \A inventory \in [CashUnits -> 0 .. MaxCount] :
            \A a \in 1 .. InventoryTotal(inventory) + 1 :
                LET plan   == Allocate(a, DispenseDenominations, inventory)
                    choices == {counts \in [CashUnits -> 0 .. MaxCount] :
                                   /\ \A d \in CashUnits : counts[d] <= inventory[d]
                                   /\ InventoryTotal(counts) = a}
                IN  IF a > MaxTransactionAmount \/ choices = {} THEN plan = NoPlan
                    ELSE plan \in choices
-----------------------------------------------------------------------------
\* docs/concepts.md: "host authorization checks for insufficient funds".
FundsChecked ==
    ~Remote /\ req["authorize"] = "ok" /\ req["dispense"] \in {"idle", "open"} =>
        amount <= accounts[account]

\* docs/certification-harness.md: "Failure after host approval" is answered
\* with "reverse_authorization"; here the cash neither moved nor can move.
ApprovalFailureReversed ==
    /\ Ended
    /\ JournalOutcome(journal) = "failed"
    /\ \E e \in Entries(journal) : e.code = "HOST_APPROVED"
    /\ ~AtLarge("dispense")
    /\ ~ \E e \in Entries(journal) :
            e.type = "transaction.reconciliation_required"
    => ClassifyRecovery(journal) = "reverse_authorization"
=============================================================================
