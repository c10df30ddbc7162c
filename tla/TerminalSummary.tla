--------------------------- MODULE TerminalSummary ---------------------------
(***************************************************************************)
(* The summary the terminal shell makes of one session's events, for the   *)
(* session that has just run and for every session of a persisted journal: *)
(* its status, its failure, the money it reports and what the step         *)
(* "Authorize and operate devices" tells about it.  Titles, messages and   *)
(* the details that only repeat a field are left out.                      *)
(***************************************************************************)
EXTENDS Journal, SequencesExt

\* The first event of a type, or 0.
FirstOf(events, type) == SelectInSeq(events, LAMBDA e : e.type = type)
Holds(events, type) == FirstOf(events, type) # 0

\* Faulty variant: a transaction to be reconciled is not a failed one.
StatusOfOutcome(events, flowOk) ==
    CASE ~flowOk \/ Holds(events, "transaction.failed") -> "failed"
      [] Holds(events, "transaction.completed")         -> "completed"
      [] Holds(events, "transaction.cancelled")         -> "cancelled"
      [] OTHER                                          -> "idle"

SummaryStatus(events, flowOk) ==
    IF \/ ~flowOk
       \/ Holds(events, "transaction.failed")
       \/ Holds(events, "transaction.reconciliation_required") THEN "failed"
    ELSE IF Holds(events, "transaction.completed") THEN "completed"
    ELSE IF Holds(events, "transaction.cancelled") THEN "cancelled"
    ELSE "idle"

SummaryFailureCode(events, flowOk) ==
    LET failed    == FirstOf(events, "transaction.failed")
        reconcile == FirstOf(events, "transaction.reconciliation_required")
    IN  IF failed # 0         THEN events[failed].code
        ELSE IF reconcile # 0 THEN events[reconcile].code
        ELSE IF ~flowOk       THEN "FLOW_FAILED"
        ELSE NoCode

\* A customer whose transaction was not selected but cancelled is said to have
\* selected it.
SummaryTransaction(events) ==
    LET selected  == FirstOf(events, "transaction.selected")
        cancelled == FirstOf(events, "transaction.cancelled")
    IN  IF selected # 0       THEN events[selected].transaction
        ELSE IF cancelled # 0 THEN events[cancelled].transaction
        ELSE NoTransaction

\* summarizeEvents.
Summary(events, flowOk) ==
    LET completed == FirstOf(events, "transaction.completed")
    IN  [status      |-> SummaryStatus(events, flowOk),
         transaction |-> SummaryTransaction(events),
         failureCode |-> SummaryFailureCode(events, flowOk),
         report      |-> IF completed = 0 THEN NoReport
                                          ELSE events[completed].report]

\* The failures the screen has words of its own for.
KnownFailures ==
    {"HOST_DECLINED", "DISPENSER_OFFLINE", "ACCEPTOR_OFFLINE",
     "CARD_READER_OFFLINE", "ADAPTER_OUTCOME_UNKNOWN"}

\* operationDetail: what the operation step claims of a summarized session.
OperationDetail(summary) ==
    LET t == summary.transaction
    IN  IF summary.status = "cancelled" THEN "untouched"
        ELSE IF summary.failureCode \in KnownFailures THEN summary.failureCode
        ELSE CASE t \in {"CashWithdrawal", "FastCash"} -> "dispensed"
               [] t = "CashDeposit"                    -> "accepted"
               [] t = "BalanceInquiry"                 -> "looked up"
               [] t \in {"AdminBalanceTerminal", "AdminCashAdjustment",
                         "AdminPrintTotals"}           -> "administered"
               [] OTHER                                -> "no device"

\* createTerminalSteps: the state of the operation step.
OperationState(summary, events) ==
    CASE summary.status = "cancelled" -> "skipped"
      [] summary.status = "failed"    -> "failed"
      [] OTHER -> IF \/ summary.transaction # NoTransaction
                     \/ Holds(events, "host.authorization_requested")
                     \/ Holds(events, "host.authorization_result")
                  THEN "done" ELSE "skipped"

\* readJournalHistory, for the events of one session: it ran well unless its
\* journal holds a flow failure.
HistorySummary(events) == Summary(events, ~Holds(events, "flow.failed"))
=============================================================================
