------------------------------- MODULE Journal -------------------------------
(***************************************************************************)
(* The runtime journal: the events a terminal session appends and that the *)
(* replay inspector and the recovery classifier read back.  An event keeps *)
(* its type and the payload fields some reader looks at; its sequence      *)
(* number is its index, since RuntimeJournal.append numbers events from 1  *)
(* in the order in which it stores them.  Diagnostic lines, prompts and    *)
(* recorded details are left out: no reader modelled here looks at them.   *)
(***************************************************************************)
EXTENDS Integers, Sequences

CONSTANT Accounts          \* the accounts of the simulated bank

\* The payload of an event that names no transaction.
NoTransaction == "none"

\* The payload of an event that carries no result code.
NoCode == "none"

\* What an event's payload reports of the ledger: the balances of the known
\* accounts (0 for the others), and terminal cash, in a set that is empty when
\* the payload does not report it.
Unreported == {}
Report(known, balances, cash) ==
    [known |-> known,
     balances |-> [a \in Accounts |-> IF a \in known THEN balances[a] ELSE 0],
     cash |-> cash]
NoReport == [known |-> {}, balances |-> [a \in Accounts |-> 0],
             cash |-> Unreported]

\* An event as RuntimeJournal.append stores it.
Event(type, transaction, code) ==
    [type |-> type, transaction |-> transaction, code |-> code,
     report |-> NoReport]

\* An event whose payload also reports balances and terminal cash.
ReportingEvent(type, transaction, report) ==
    [type |-> type, transaction |-> transaction, code |-> NoCode,
     report |-> report]

TerminalTypes == {"transaction.completed", "transaction.cancelled",
                  "transaction.failed", "transaction.reconciliation_required"}

EventTypes == TerminalTypes \cup
    {"runtime.started", "flow.loaded", "flow.failed", "session.started",
     "transaction.selected", "transaction.started", "device.status_changed",
     "host.authorization_requested", "host.authorization_result"}

\* The events of a journal, in no order.
Entries(journal) == {journal[i] : i \in DOMAIN journal}
=============================================================================
