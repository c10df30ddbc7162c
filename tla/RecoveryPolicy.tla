--------------------------- MODULE RecoveryPolicy ---------------------------
(***************************************************************************)
(* classifyRecovery of the certification harness: the recovery action it   *)
(* recommends for a session, read from the session's journal alone.        *)
(***************************************************************************)
EXTENDS Journal, FiniteSetsExt

RecoveryActions == {"none", "safe_retry", "reverse_authorization",
                    "manual_reconciliation", "operator_review"}

\* The failures after which a transaction may simply be repeated.
RecoveryCodes ==
    {"ACCEPTOR_OFFLINE", "ACCEPTOR_UNAVAILABLE", "CARD_READER_OFFLINE",
     "CARD_READER_UNAVAILABLE", "DISPENSER_OFFLINE", "DISPENSER_UNAVAILABLE",
     "HOST_UNAVAILABLE", "RECEIPT_PRINTER_OFFLINE",
     "RECEIPT_PRINTER_UNAVAILABLE"}

\* The last index before a bound whose event has one of the types, or 0.
LastBefore(events, bound, types) ==
    LET found == {i \in 1 .. bound - 1 : events[i].type \in types}
    IN  IF found = {} THEN 0 ELSE Max(found)

LastOf(events, types) == LastBefore(events, Len(events) + 1, types)

Outcomes == TerminalTypes \cup {"flow.failed"}

\* The loop body of pendingAuthorizationTransactions: a result without a request
\* is not counted.
CountPending(pending, e) ==
    IF e.transaction = NoTransaction THEN pending
    ELSE CASE e.type = "host.authorization_requested" ->
                [pending EXCEPT ![e.transaction] = @ + 1]
           [] /\ e.type = "host.authorization_result"
              /\ pending[e.transaction] > 0 ->
                [pending EXCEPT ![e.transaction] = @ - 1]
           [] OTHER -> pending

NamedIn(events) == {events[i].transaction : i \in DOMAIN events} \ {NoTransaction}

\* The host requests without a result, after each of the events.
PendingCounts(events) ==
    LET counts[n \in 0 .. Len(events)] ==
            IF n = 0 THEN [t \in NamedIn(events) |-> 0]
                     ELSE CountPending(counts[n - 1], events[n])
    IN  counts

\* The transactions with more host requests than results.
PendingAuthorizationTransactions(events) ==
    {t \in NamedIn(events) : PendingCounts(events)[Len(events)][t] > 0}

\* The outcome before a flow failure, unless another session began or failed
\* in between.
PreviousTransactionTerminal(events, before) ==
    LET i == LastBefore(events, before, Outcomes \cup
                 {"flow.loaded", "session.started", "runtime.started"})
    IN  IF i # 0 /\ events[i].type \in TerminalTypes THEN i ELSE 0

\* The event that decides how the last transaction ended, or 0: the last
\* outcome, or the outcome before a final flow failure.
DecidingIndex(events) ==
    LET i == LastOf(events, Outcomes)
    IN  IF i # 0 /\ events[i].type = "flow.failed"
        THEN PreviousTransactionTerminal(events, i)
        ELSE i

JournalOutcome(events) ==
    LET i == LastOf(events, Outcomes)
    IN  CASE i = 0 -> "idle"
          [] i # 0 /\ events[i].type = "transaction.completed" -> "completed"
          [] i # 0 /\ events[i].type = "transaction.cancelled" -> "cancelled"
          [] OTHER -> "failed"

Failed(events, i) ==
    /\ i # 0
    /\ events[i].type \in {"transaction.failed",
                           "transaction.reconciliation_required"}

\* The code of the failure that ended the session.
TerminalFailureCode(events) ==
    LET last == LastOf(events, Outcomes)
        i == DecidingIndex(events)
    IN  IF last # 0 /\ events[last].type = "flow.failed" /\ events[last].code # NoCode
        THEN events[last].code
        ELSE IF Failed(events, i) THEN events[i].code ELSE NoCode

\* The last transaction failed, and between its previous outcome and this one
\* the journal holds an approval for it.
FailedAfterApproval(events) ==
    LET terminal == DecidingIndex(events)
        t == events[terminal].transaction
        Ended(i) == events[i].type \in TerminalTypes /\ events[i].transaction = t
        earlier == {i \in 1 .. terminal - 1 : Ended(i)}
        start == IF earlier = {} THEN 1 ELSE Max(earlier) + 1
    IN  /\ Failed(events, terminal)
        /\ t # NoTransaction
        /\ \E i \in start .. terminal :
              /\ events[i].type = "host.authorization_result"
              /\ events[i].transaction = t
              /\ events[i].code = "HOST_APPROVED"

\* Faulty variant: retryable failures are looked for before approvals.
ClassifyRetryFirst(events) ==
    IF \/ LastOf(events, {"transaction.reconciliation_required"}) # 0
       \/ PendingAuthorizationTransactions(events) # {}
    THEN "manual_reconciliation"
    ELSE IF \/ JournalOutcome(events) \in {"completed", "cancelled"}
            \/ TerminalFailureCode(events) = "HOST_DECLINED"
    THEN "none"
    ELSE IF TerminalFailureCode(events) \in RecoveryCodes
    THEN "safe_retry"
    ELSE IF FailedAfterApproval(events)
    THEN "reverse_authorization"
    ELSE "operator_review"

ClassifyRecovery(events) ==
    IF \/ LastOf(events, {"transaction.reconciliation_required"}) # 0
       \/ PendingAuthorizationTransactions(events) # {}
    THEN "manual_reconciliation"
    ELSE IF \/ JournalOutcome(events) \in {"completed", "cancelled"}
            \/ TerminalFailureCode(events) = "HOST_DECLINED"
    THEN "none"
    ELSE IF FailedAfterApproval(events)
    THEN "reverse_authorization"
    ELSE IF TerminalFailureCode(events) \in RecoveryCodes
    THEN "safe_retry"
    ELSE "operator_review"
=============================================================================
