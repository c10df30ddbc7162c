---------------------------- MODULE JournalReplay ----------------------------
(***************************************************************************)
(* The strict replay of one session's journal: the errors it reports and   *)
(* the session state it reconstructs.  The journal is the whole file, its  *)
(* first event the unscoped runtime.started anchor (JournalInspection has  *)
(* files of several sessions).  Of the checks of an event's shape only the *)
(* transaction it must name is kept; clocks, sizes, frames and the budget  *)
(* of issues are left out.                                                 *)
(***************************************************************************)
EXTENDS Journal, SequencesExt

UnnamedTransaction == "<unknown>"

\* transactionStatus: the event types that start or end a transaction.
StatusOf ==
    [t \in {"transaction.started"} \cup TerminalTypes |->
        CASE t = "transaction.started"   -> "started"
          [] t = "transaction.completed" -> "completed"
          [] t = "transaction.cancelled" -> "cancelled"
          [] t = "transaction.failed"    -> "failed"
          [] OTHER                       -> "reconciliation_required"]

\* Faulty variant: a failure does not end a session.
EndedWithoutFailure == {"completed", "cancelled", "reconciliation_required"}

EndedStatuses == {"completed", "cancelled", "failed", "reconciliation_required"}

NamesIn(events) ==
    {events[i].transaction : i \in DOMAIN events} \cup {UnnamedTransaction}

\* The state and context of a session nothing has been read of.
InitialState(events) ==
    [status   |-> "recorded",
     selected |-> NoTransaction,
     active   |-> {},
     pending  |-> [t \in NamesIn(events) |-> 0],
     ended    |-> [t \in NamesIn(events) |-> 0],
     hosts    |-> [requests |-> 0, results |-> 0],
     reconcile |-> FALSE,
     ledger   |-> NoReport,
     errors   |-> {}]

\* The transaction an event is about.
Subject(state, e) ==
    CASE e.transaction # NoTransaction  -> e.transaction
      [] e.transaction = NoTransaction /\ state.selected # NoTransaction
                                        -> state.selected
      [] OTHER                          -> UnnamedTransaction

\* validateLifecycle, the host half: every result answers a pending request.
TrackHost(state, e) ==
    LET t == e.transaction
    IN  CASE e.type = "host.authorization_requested" /\ t # NoTransaction ->
               [state EXCEPT !.pending[t] = @ + 1]
          [] e.type = "host.authorization_result" /\ t # NoTransaction ->
               IF state.pending[t] = 0
               THEN [state EXCEPT !.errors = @ \cup {"HOST_RESULT_WITHOUT_REQUEST"}]
               ELSE [state EXCEPT !.pending[t] = @ - 1]
          [] OTHER -> state

\* validateLifecycle, the transaction half: at most one active occurrence.
TrackTransaction(state, e) ==
    LET t == Subject(state, e)
    IN  IF e.type \notin DOMAIN StatusOf THEN state
        ELSE IF e.type = "transaction.started"
        THEN [state EXCEPT !.active = @ \cup {t},
                           !.errors = IF t \in state.active
                                      THEN @ \cup {"OVERLAPPING_TRANSACTION"}
                                      ELSE @]
        ELSE [state EXCEPT !.active = @ \ {t}, !.ended[t] = @ + 1]

\* applyEvent: the status of the session.
StatusAfter(state, e) ==
    CASE e.type \in DOMAIN StatusOf ->
           IF e.type = "transaction.started" THEN "active" ELSE StatusOf[e.type]
      [] e.type \in {"session.started", "flow.loaded", "transaction.selected"} ->
           "active"
      [] e.type = "flow.failed" -> "failed"
      [] OTHER -> state.status

\* applyEvent: the transaction the session is about; the identification of the
\* customer and the terminal's status do not count.
SelectedAfter(state, e) ==
    IF \/ e.transaction = NoTransaction
       \/ e.type # "transaction.selected"
          /\ \/ state.selected # NoTransaction
             \/ e.transaction \in {"CustomerIdentification", "TerminalStatus"}
    THEN state.selected
    ELSE e.transaction

\* applyEvent: the newest reported balance of each account, and the newest
\* reported terminal cash; a report of all accounts replaces what was known.
LedgerAfter(state, e) ==
    LET known == state.ledger.known
        new   == e.report
    IN  [known    |-> known \cup new.known,
         balances |-> [a \in Accounts |-> IF a \in new.known
                                          THEN new.balances[a]
                                          ELSE state.ledger.balances[a]],
         cash     |-> IF new.cash # Unreported THEN new.cash
                                               ELSE state.ledger.cash]

ApplyEvent(state, e) ==
    [state EXCEPT
        !.status   = StatusAfter(state, e),
        !.selected = SelectedAfter(state, e),
        !.hosts    = [requests |-> @.requests +
                         (IF e.type = "host.authorization_requested" THEN 1 ELSE 0),
                      results  |-> @.results +
                         (IF e.type = "host.authorization_result" THEN 1 ELSE 0)],
        !.reconcile = @ \/ e.type = "transaction.reconciliation_required",
        !.ledger   = LedgerAfter(state, e)]

\* The loop body of replaySessionRecords.
ReplayStep(state, e) == ApplyEvent(TrackTransaction(TrackHost(state, e), e), e)

\* replaySessionRecords, over the events that carry the session's id: the state
\* after each of them.
ReplayStates(scoped) ==
    LET states[n \in 0 .. Len(scoped)] ==
            IF n = 0 THEN InitialState(scoped)
                     ELSE ReplayStep(states[n - 1], scoped[n])
    IN  states

ReplayScoped(scoped) == ReplayStates(scoped)[Len(scoped)]

\* Of a journal that holds one session, all but the anchor.
Replay(events) == ReplayScoped(Tail(events))

\* validateEventPayload: the events that must name a transaction.
NamingTypes ==
    (TerminalTypes \ {"transaction.cancelled"}) \cup
    {"transaction.selected", "transaction.started",
     "host.authorization_requested", "host.authorization_result"}

Malformed(e) == e.type \in NamingTypes /\ e.transaction = NoTransaction

\* The errors strict mode adds at the end of a session's events.
CompletenessErrors(state, scoped) ==
    {code \in {"SESSION_ANCHOR_MISSING", "SESSION_INCOMPLETE",
               "OPEN_TRANSACTION", "HOST_REQUEST_UNRESOLVED"} :
       CASE code = "SESSION_ANCHOR_MISSING" ->
              scoped = <<>> \/ Head(scoped).type # "flow.loaded"
         [] code = "SESSION_INCOMPLETE"     -> state.status \notin EndedStatuses
         [] code = "OPEN_TRANSACTION"       -> state.active # {}
         [] OTHER -> \E t \in DOMAIN state.pending : state.pending[t] > 0}

ReplayErrors(events) ==
    LET state == Replay(events)
    IN  state.errors \cup CompletenessErrors(state, Tail(events)) \cup
           {"INVALID_PAYLOAD_FIELD" : e \in {e \in Entries(events) : Malformed(e)}}

ReplayValid(events) == ReplayErrors(events) = {}
=============================================================================
