--------------------------- MODULE AtmAuditProofs ---------------------------
(***************************************************************************)
(* Proofs about the terminal session and the readers of its journal, for   *)
(* every bank, cash unit, limit and kind of adapter: the session's types,  *)
(* that money is safe in it and what a step may never do; that the action  *)
(* recommended to the operator fits what host and devices did; and that    *)
(* each cash call implements the abstract cash request.                    *)
(*                                                                         *)
(* The safety properties are not inductive on their own: that a completed  *)
(* withdrawal moved cash depends on what the session was waiting for when  *)
(* it wrote the outcome.  Phase ties the await to the state of the         *)
(* requests and of the accounts; with it the conjunction is inductive.     *)
(***************************************************************************)
EXTENDS AtmAudit, WellFoundedInduction, TLAPS
-----------------------------------------------------------------------------
(***************************************************************************)
(* Journals.                                                               *)
(***************************************************************************)
LEMMA EventType ==
    ASSUME NEW type \in EventTypes, NEW name \in EventNames,
           NEW code \in EventCodes
    PROVE  Event(type, name, code) \in Events
<1>1. NoReport \in Reports
  BY DEF Reports, NoReport, Unreported
<1> QED BY <1>1, Zenon DEF Event, Events

LEMMA ReportType ==
    ASSUME NEW known \in SUBSET Accounts, NEW ledger \in [Accounts -> Int],
           NEW money \in SUBSET Int
    PROVE  Report(known, ledger, money) \in Reports
BY DEF Report, Reports

LEMMA ReportingEventType ==
    ASSUME NEW name \in EventNames, NEW report \in Reports
    PROVE  ReportingEvent("transaction.completed", name, report) \in Events
<1>1. NoCode \in EventCodes
  BY Zenon DEF EventCodes
<1>2. "transaction.completed" \in EventTypes
  BY DEF EventTypes, TerminalTypes
<1> QED BY <1>1, <1>2, Zenon DEF ReportingEvent, Events

\* What is written is read: the events of a longer journal are the old ones
\* and the new ones.
LEMMA EntriesOfConcat ==
    ASSUME NEW s \in Seq(Events), NEW t \in Seq(Events)
    PROVE  /\ s \o t \in Seq(Events)
           /\ Entries(s \o t) = Entries(s) \cup Entries(t)
<1>1. s \o t \in Seq(Events) /\ Len(s \o t) = Len(s) + Len(t)
  OBVIOUS
<1>2. \A i \in 1 .. Len(s) + Len(t) :
         (s \o t)[i] = IF i <= Len(s) THEN s[i] ELSE t[i - Len(s)]
  OBVIOUS
<1>3. Entries(s \o t) \subseteq Entries(s) \cup Entries(t)
  <2> SUFFICES ASSUME NEW i \in 1 .. Len(s) + Len(t)
               PROVE  (s \o t)[i] \in Entries(s) \cup Entries(t)
    BY <1>1 DEF Entries
  <2>1. CASE i <= Len(s)
    BY <2>1, <1>2 DEF Entries
  <2>2. CASE ~(i <= Len(s))
    <3>1. i - Len(s) \in DOMAIN t
      BY <2>2
    <3>2. (s \o t)[i] = t[i - Len(s)]
      BY <2>2, <1>2
    <3> QED BY <3>1, <3>2, Zenon DEF Entries
  <2> QED BY <2>1, <2>2
<1>4. Entries(s) \subseteq Entries(s \o t)
  <2> SUFFICES ASSUME NEW i \in DOMAIN s
               PROVE  s[i] \in Entries(s \o t)
    BY Zenon DEF Entries
  <2>1. i \in DOMAIN (s \o t) /\ (s \o t)[i] = s[i]
    BY <1>1, <1>2
  <2> QED BY <2>1, Zenon DEF Entries
<1>5. Entries(t) \subseteq Entries(s \o t)
  <2> SUFFICES ASSUME NEW i \in DOMAIN t
               PROVE  t[i] \in Entries(s \o t)
    BY Zenon DEF Entries
  <2>1. /\ i + Len(s) \in 1 .. Len(s) + Len(t)
        /\ ~(i + Len(s) <= Len(s))
        /\ (i + Len(s)) - Len(s) = i
    OBVIOUS
  <2>2. (s \o t)[i + Len(s)] = t[i]
    BY <2>1, <1>2
  <2>3. i + Len(s) \in DOMAIN (s \o t)
    BY <2>1, <1>1
  <2> QED BY <2>2, <2>3, Zenon DEF Entries
<1> QED BY <1>1, <1>3, <1>4, <1>5

LEMMA EntriesOfShort ==
    ASSUME NEW d \in Events, NEW e \in Events
    PROVE  /\ <<>> \in Seq(Events) /\ Entries(<<>>) = {}
           /\ <<e>> \in Seq(Events) /\ Entries(<<e>>) = {e}
           /\ <<d, e>> \in Seq(Events) /\ Entries(<<d, e>>) = {d, e}
BY DEF Entries

LEMMA EntriesOfAppend ==
    ASSUME NEW s \in Seq(Events), NEW e \in Events
    PROVE  /\ Append(s, e) \in Seq(Events)
           /\ Entries(Append(s, e)) = Entries(s) \cup {e}
<1>1. /\ Append(s, e) \in Seq(Events)
      /\ DOMAIN Append(s, e) = 1 .. Len(s) + 1
      /\ DOMAIN s = 1 .. Len(s)
      /\ \A i \in 1 .. Len(s) : Append(s, e)[i] = s[i]
      /\ Append(s, e)[Len(s) + 1] = e
  OBVIOUS
<1>2. Len(s) \in Nat
  OBVIOUS
<1>3. 1 .. Len(s) + 1 = 1 .. Len(s) \cup {Len(s) + 1}
  BY <1>2
<1>4. \A x : x \in Entries(s) \cup {e} <=> x \in Entries(Append(s, e))
  BY <1>1, <1>2, <1>3 DEF Entries
<1> QED BY <1>1, <1>4
-----------------------------------------------------------------------------
(***************************************************************************)
(* Type correctness.                                                       *)
(***************************************************************************)
LEMMA NameType ==
    ASSUME TypeOK
    PROVE  Name \in EventNames
BY DEF TypeOK, Name, ModuleName, EventNames, Transactions, Withdrawals,
       AdminTransactions

\* The constants among the events the session writes.
LEMMA CommonCodes ==
    /\ {NoCode, "HOST_APPROVED", "ADAPTER_OUTCOME_UNKNOWN", "ADAPTER_TIMEOUT",
        "RECEIPT_ERROR", "PRINTER_STATUS_ERROR"} \subseteq EventCodes
    /\ AllRefusals \subseteq EventCodes
    /\ \A k \in Calls : LostCodes[k] \subseteq EventCodes
    /\ \A k \in Calls : Refusals[k] \subseteq AllRefusals
    /\ \A k \in Calls : TimeoutCode(k) \in EventCodes
<1>1. {NoCode, "HOST_APPROVED", "ADAPTER_OUTCOME_UNKNOWN", "ADAPTER_TIMEOUT",
        "RECEIPT_ERROR", "PRINTER_STATUS_ERROR"} \subseteq EventCodes
  BY Zenon DEF EventCodes
<1>2. \A k \in Calls : LostCodes[k] \subseteq EventCodes
  BY Zenon DEF EventCodes
<1>3. \A k \in Calls : Refusals[k] \subseteq AllRefusals
  BY Zenon DEF AllRefusals
<1>4. \A k \in Calls : TimeoutCode(k) \in EventCodes
  BY <1>1, Zenon DEF TimeoutCode
<1>5. AllRefusals \subseteq EventCodes
  BY Zenon DEF EventCodes
<1> QED BY <1>1, <1>2, <1>3, <1>4, <1>5

LEMMA CommonNames ==
    /\ {NoTransaction, "TerminalAdmin", "CustomerIdentification"}
          \subseteq EventNames
    /\ Transactions \cup {NoTransaction, UnknownTransaction} \subseteq EventNames
BY DEF EventNames

LEMMA LogType ==
    ASSUME TypeOK, NEW events \in Seq(Events), Log(events)
    PROVE  /\ journal' \in Seq(Events)
           /\ Entries(journal') = Entries(journal) \cup Entries(events)
BY EntriesOfConcat DEF TypeOK, Log

LEMMA FailFlowType ==
    ASSUME TypeOK, NEW events \in Seq(Events), FailFlow(events)
    PROVE  /\ pc' = "failed"
           /\ journal' \in Seq(Events)
           /\ Entries(journal') = Entries(journal) \cup Entries(events)
                  \cup {Event("flow.failed", NoTransaction, NoCode)}
<1> DEFINE failure == Event("flow.failed", NoTransaction, NoCode)
<1>1. failure \in Events
  <2>1. "flow.failed" \in EventTypes
    BY DEF EventTypes
  <2> QED BY <2>1, EventType, CommonNames, CommonCodes
<1>2. /\ Append(events, failure) \in Seq(Events)
      /\ Entries(Append(events, failure)) = Entries(events) \cup {failure}
  BY <1>1, EntriesOfAppend
<1>3. Log(Append(events, failure)) /\ pc' = "failed"
  BY DEF FailFlow
<1> HIDE DEF failure
<1>4. /\ journal' \in Seq(Events)
      /\ Entries(journal') = Entries(journal) \cup Entries(Append(events, failure))
  BY <1>2, <1>3, LogType
<1> QED BY <1>2, <1>3, <1>4 DEF failure

LEMMA InitType == Init => TypeOK
<1> SUFFICES ASSUME Init PROVE TypeOK
  OBVIOUS
<1> DEFINE started == Event("runtime.started", NoTransaction, NoCode)
<1>1. started \in Events
  <2>1. "runtime.started" \in EventTypes
    BY DEF EventTypes
  <2> QED BY <2>1, EventType, CommonNames, CommonCodes
<1>2. journal \in Seq(Events)
  BY <1>1, EntriesOfShort DEF Init
<1>3. prompts \in Seq(PromptNames)
  BY DEF Init
<1>4. req \in [Calls -> {"idle", "open", "ok"} \cup AllRefusals]
  BY DEF Init
<1>5. amount \in Nat \ {0} /\ cash \in Int /\ DOMAIN notes = CashUnits /\ account \in Accounts
      /\ accounts \in [Accounts -> Int]
  BY SessionAssumption DEF Init, ValidProfile
<1> QED BY <1>2, <1>3, <1>4, <1>5 DEF Init, TypeOK, CustomerTypes

\* What the events of this module's actions are made of.
LEMMA EventFields ==
    ASSUME NEW type, NEW name, NEW code
    PROVE  /\ Event(type, name, code).type = type
           /\ Event(type, name, code).transaction = name
           /\ Event(type, name, code).code = code
BY DEF Event

LEMMA ReportingEventFields ==
    ASSUME NEW type, NEW name, NEW report
    PROVE  /\ ReportingEvent(type, name, report).type = type
           /\ ReportingEvent(type, name, report).transaction = name
BY DEF ReportingEvent

\* The module's typed events.
LEMMA PlainEvent ==
    ASSUME TypeOK,
           NEW type \in EventTypes,
           NEW name \in Transactions \cup {NoTransaction, UnknownTransaction,
                            "TerminalAdmin", "CustomerIdentification", Name},
           NEW code \in EventCodes
    PROVE  Event(type, name, code) \in Events
<1>1. name \in EventNames
  BY NameType, CommonNames
<1> QED BY <1>1, EventType

LEMMA CompletedEvent ==
    ASSUME TypeOK, NEW ledger \in [Accounts -> Int], NEW money \in SUBSET Int
    PROVE  /\ Completed(Name, ledger, money) \in Events
           /\ Completed(Name, ledger, money).type = "transaction.completed"
           /\ Completed(Name, ledger, money).transaction = Name
<1>1. Report({account}, ledger, money) \in Reports
  BY ReportType DEF TypeOK
<1> QED BY <1>1, NameType, ReportingEventType, ReportingEventFields DEF Completed

LEMMA AdminEvent ==
    ASSUME NEW known \in SUBSET Accounts, NEW ledger \in [Accounts -> Int],
           NEW money \in SUBSET Int
    PROVE  LET e == ReportingEvent("transaction.completed", "TerminalAdmin",
                                   Report(known, ledger, money))
           IN  /\ e \in Events
               /\ e.type = "transaction.completed"
               /\ e.transaction = "TerminalAdmin"
<1> QED BY CommonNames, ReportType, ReportingEventType, ReportingEventFields
-----------------------------------------------------------------------------
(***************************************************************************)
(* What each action writes, and that it keeps the types.                   *)
(***************************************************************************)
LEMMA LoadStep ==
    ASSUME TypeOK, NEW type \in CustomerTypes, Load(type)
    PROVE  /\ TypeOK'
           /\ Entries(journal') = Entries(journal) \cup
                  {Event("flow.loaded", NoTransaction, NoCode),
                   Event("session.started", NoTransaction, NoCode)}
<1> DEFINE d == Event("flow.loaded", NoTransaction, NoCode)
           e == Event("session.started", NoTransaction, NoCode)
<1>1. d \in Events /\ e \in Events
  <2>1. {"flow.loaded", "session.started"} \subseteq EventTypes
    BY DEF EventTypes
  <2> QED BY <2>1, EventType, CommonNames, CommonCodes
<1>2. Log(<<d, e>>)
  BY DEF Load
<1> HIDE DEF d, e
<1>3. journal' \in Seq(Events) /\ Entries(journal') = Entries(journal) \cup {d, e}
  <2>1. <<d, e>> \in Seq(Events) /\ Entries(<<d, e>>) = {d, e}
    BY <1>1, EntriesOfShort
  <2> QED BY <1>2, <2>1, LogType
<1>4. TypeOK'
  BY <1>3 DEF TypeOK, Load, Opened, cashVars, Calls
<1> QED BY <1>3, <1>4 DEF d, e

LEMMA LoadFailsStep ==
    ASSUME TypeOK, LoadFails
    PROVE  /\ TypeOK'
           /\ Entries(journal') = Entries(journal) \cup
                  {Event("flow.loaded", NoTransaction, NoCode),
                   Event("flow.failed", NoTransaction, NoCode)}
<1> DEFINE e == Event("flow.loaded", NoTransaction, NoCode)
<1>1. e \in Events
  <2>1. "flow.loaded" \in EventTypes
    BY DEF EventTypes
  <2> QED BY <2>1, EventType, CommonNames, CommonCodes
<1>2. FailFlow(<<e>>)
  BY DEF LoadFails
<1> HIDE DEF e
<1>3. /\ pc' = "failed" /\ journal' \in Seq(Events)
      /\ Entries(journal') = Entries(journal) \cup {e} \cup
             {Event("flow.failed", NoTransaction, NoCode)}
  <2>1. <<e>> \in Seq(Events) /\ Entries(<<e>>) = {e}
    BY <1>1, EntriesOfShort
  <2> QED BY <1>2, <2>1, FailFlowType
<1>4. TypeOK'
  BY <1>3 DEF TypeOK, LoadFails, flowVars, cashVars
<1> QED BY <1>3, <1>4 DEF e

LEMMA EnterPinStep ==
    ASSUME TypeOK, EnterPin
    PROVE  TypeOK' /\ journal' = journal
<1>1. PromptsOf["CardlessWithdrawal"] \in Seq(PromptNames)
  BY DEF PromptsOf, PromptNames
<1> QED BY <1>1 DEF TypeOK, EnterPin, StartLoop, AskTransaction, cashVars,
               PromptStates, Transactions, Withdrawals

LEMMA AnswerPrinterDownStep ==
    ASSUME TypeOK, NEW goOn \in BOOLEAN, AnswerPrinterDown(goOn)
    PROVE  /\ TypeOK'
           /\ \/ pc' # "done" /\ journal' = journal
              \/ pc' = "done" /\ Entries(journal') = Entries(journal) \cup
                    {Event("transaction.cancelled", NoTransaction, NoCode)}
<1> DEFINE e == Event("transaction.cancelled", NoTransaction, NoCode)
<1>1. PromptsOf["CardlessWithdrawal"] \in Seq(PromptNames)
  BY DEF PromptsOf, PromptNames
<1>2. CASE goOn
  BY <1>1, <1>2 DEF TypeOK, AnswerPrinterDown, AskTransaction, cashVars,
                    PromptStates, Transactions, Withdrawals
<1>3. CASE ~goOn
  <2>1. e \in Events
    <3>1. "transaction.cancelled" \in EventTypes
      BY DEF EventTypes, TerminalTypes
    <3> QED BY <3>1, EventType, CommonNames, CommonCodes
  <2>2. Log(<<e>>) /\ pc' = "done"
    BY <1>3 DEF AnswerPrinterDown
  <2> HIDE DEF e
  <2>3. <<e>> \in Seq(Events) /\ Entries(<<e>>) = {e}
    BY <2>1, EntriesOfShort
  <2>4. journal' \in Seq(Events) /\ Entries(journal') = Entries(journal) \cup {e}
    BY <2>2, <2>3, LogType
  <2>5. TypeOK'
    BY <2>2, <2>4, <1>3 DEF TypeOK, AnswerPrinterDown, cashVars
  <2> QED BY <2>2, <2>4, <2>5 DEF e
<1> QED BY <1>2, <1>3

LEMMA PromptsType ==
    \A t \in DOMAIN PromptsOf : PromptsOf[t] \in Seq(PromptNames)
<1>1. DOMAIN PromptsOf = Transactions
  BY DEF PromptsOf, Transactions, Withdrawals, AdminTransactions
<1>2. /\ PromptsOf["AdminBalanceTerminal"] = <<>>
      /\ PromptsOf["AdminPrintTotals"] = <<>>
      /\ PromptsOf["AdminCashAdjustment"] = <<"adjustment">>
      /\ PromptsOf["FastCash"] = <<"account", "confirm">>
      /\ PromptsOf["BalanceInquiry"] = <<"account", "balanceDisplay">>
      /\ PromptsOf["CashDeposit"] = <<"account", "amount", "confirm">>
      /\ PromptsOf["CashWithdrawal"] = <<"account", "amount", "confirm">>
      /\ PromptsOf["CardlessWithdrawal"] =
            <<"access", "account", "amount", "confirm">>
  BY DEF PromptsOf
<1>3. /\ <<>> \in Seq(PromptNames)
      /\ <<"adjustment">> \in Seq(PromptNames)
      /\ <<"account", "confirm">> \in Seq(PromptNames)
      /\ <<"account", "balanceDisplay">> \in Seq(PromptNames)
      /\ <<"account", "amount", "confirm">> \in Seq(PromptNames)
      /\ <<"access", "account", "amount", "confirm">> \in Seq(PromptNames)
  BY DEF PromptNames
<1> QED BY <1>1, <1>2, <1>3, Zenon DEF Transactions, Withdrawals, AdminTransactions

LEMMA SelectTransactionStep ==
    ASSUME TypeOK, NEW t \in Transactions \cup {UnknownTransaction},
           SelectTransaction(t)
    PROVE  /\ TypeOK'
           /\ \/ /\ Entries(journal') = Entries(journal) \cup
                        {Event("transaction.selected", t, NoCode)}
                 /\ pc' \in {"prompt", "done"}
              \/ /\ Entries(journal') = Entries(journal) \cup
                        {Event("transaction.selected", t, NoCode),
                         ReportingEvent("transaction.completed", "TerminalAdmin",
                                        Report(Accounts, accounts, {cash}))}
                 /\ pc' = "done"
                 /\ t \in AdminTransactions
<1> DEFINE d == Event("transaction.selected", t, NoCode)
           e == ReportingEvent("transaction.completed", "TerminalAdmin",
                               Report(Accounts, accounts, {cash}))
<1>1. d \in Events
  <2>1. "transaction.selected" \in EventTypes
    BY DEF EventTypes
  <2> QED BY <2>1, EventType, CommonNames, CommonCodes
<1>2. e \in Events
  BY AdminEvent DEF TypeOK
<1>3. /\ <<d>> \in Seq(Events) /\ Entries(<<d>>) = {d}
      /\ Append(<<d>>, e) \in Seq(Events)
      /\ Entries(Append(<<d>>, e)) = {d, e}
  <2> HIDE DEF d, e
  <2>1. <<d>> \in Seq(Events) /\ Entries(<<d>>) = {d}
    BY <1>1, EntriesOfShort
  <2>2. /\ Append(<<d>>, e) \in Seq(Events)
        /\ Entries(Append(<<d>>, e)) = Entries(<<d>>) \cup {e}
    BY <1>2, <2>1, EntriesOfAppend
  <2> QED BY <2>1, <2>2
<1>4. CASE t \in {"AdminBalanceTerminal", "AdminPrintTotals"} /\ ExecuteReport(<<d>>)
           /\ prompts' = <<>>
  <2>1. Log(Append(<<d>>, e)) /\ pc' = "done"
    BY <1>4 DEF ExecuteReport
  <2> HIDE DEF d, e
  <2>2. journal' \in Seq(Events) /\ Entries(journal') = Entries(journal) \cup {d, e}
    BY <1>3, <2>1, LogType
  <2>3. TypeOK'
    BY <1>4, <2>1, <2>2 DEF TypeOK, SelectTransaction, ExecuteReport, cashVars
  <2>4. t \in AdminTransactions
    BY <1>4 DEF AdminTransactions
  <2> QED BY <2>1, <2>2, <2>3, <2>4 DEF d, e
<1>5. CASE Log(<<d>>) /\ pc' \in {"prompt", "done"} /\ prompts' \in Seq(PromptNames)
           /\ UNCHANGED <<accounts, cashVars, req>>
  <2> HIDE DEF d, e
  <2>2. journal' \in Seq(Events) /\ Entries(journal') = Entries(journal) \cup {d}
    BY <1>3, <1>5, LogType
  <2>3. TypeOK'
    BY <1>5, <2>2 DEF TypeOK, SelectTransaction, cashVars, PromptStates
  <2> QED BY <1>5, <2>2, <2>3 DEF d
<1>6. <<>> \in Seq(PromptNames)
  OBVIOUS
<1> QED BY <1>4, <1>5, <1>6, PromptsType DEF SelectTransaction

LEMMA TailOfPrompts ==
    ASSUME NEW p \in Seq(PromptNames), p # <<>>
    PROVE  Tail(p) \in Seq(PromptNames)
OBVIOUS

\* The answers that only move the flow to its next prompt.
LEMMA AnswerStep ==
    ASSUME TypeOK,
           \/ \E a \in Accounts : AnswerAccount(a)
           \/ \E a \in Amounts : AnswerAmount(a)
           \/ AnswerAccess
    PROVE  TypeOK' /\ journal' = journal
<1>1. NextPrompt => pc' = "prompt" /\ (prompts # <<>> => prompts' \in Seq(PromptNames))
  BY TailOfPrompts DEF TypeOK, NextPrompt
<1>2. ASSUME NEW a \in Accounts, AnswerAccount(a) PROVE TypeOK' /\ journal' = journal
  BY <1>1, <1>2 DEF TypeOK, AnswerAccount, Asking, NextPrompt, cashVars, PromptStates
<1>3. ASSUME NEW a \in Amounts, AnswerAmount(a) PROVE TypeOK' /\ journal' = journal
  BY <1>1, <1>3, SessionAssumption
     DEF TypeOK, AnswerAmount, Asking, NextPrompt, cashVars, PromptStates
<1>4. ASSUME AnswerAccess PROVE TypeOK' /\ journal' = journal
  BY <1>1, <1>4 DEF TypeOK, AnswerAccess, Asking, NextPrompt, cashVars, PromptStates
<1> QED BY <1>2, <1>3, <1>4

LEMMA AnswerConfirmStep ==
    ASSUME TypeOK, AnswerConfirm
    PROVE  /\ TypeOK'
           /\ \/ /\ transaction \in Withdrawals
                 /\ pc' = "authorize" /\ req' = Opened("authorize")
                 /\ Entries(journal') = Entries(journal) \cup
                       {Event("host.authorization_requested", Name, NoCode)}
              \/ /\ transaction = "CashDeposit"
                 /\ pc' = "accept" /\ req' = Opened("accept")
                 /\ journal' = journal
<1> DEFINE e == Event("host.authorization_requested", Name, NoCode)
<1>1. e \in Events
  <2>1. "host.authorization_requested" \in EventTypes
    BY DEF EventTypes
  <2> QED BY <2>1, PlainEvent, CommonCodes
<1>2. <<>> \in Seq(PromptNames)
  OBVIOUS
<1>3. CASE transaction \in Withdrawals /\ BeginWithdrawal
  <2>1. Log(<<e>>) /\ pc' = "authorize" /\ req' = Opened("authorize")
    BY <1>3 DEF BeginWithdrawal
  <2> HIDE DEF e
  <2>2. <<e>> \in Seq(Events) /\ Entries(<<e>>) = {e}
    BY <1>1, EntriesOfShort
  <2>3. journal' \in Seq(Events) /\ Entries(journal') = Entries(journal) \cup {e}
    BY <2>1, <2>2, LogType
  <2>4. TypeOK'
    BY <1>2, <1>3, <2>1, <2>3
       DEF TypeOK, AnswerConfirm, BeginWithdrawal, Opened, cashVars, Calls
  <2> QED BY <1>3, <2>1, <2>3, <2>4 DEF e
<1>4. CASE transaction = "CashDeposit" /\ BeginDeposit
  BY <1>2, <1>4 DEF TypeOK, AnswerConfirm, BeginDeposit, Opened, cashVars, Calls
<1> QED BY <1>3, <1>4 DEF AnswerConfirm

LEMMA CancelStep ==
    ASSUME TypeOK, CancelTransaction
    PROVE  /\ TypeOK'
           /\ Entries(journal') = Entries(journal) \cup
                 {Event("transaction.cancelled", transaction, NoCode)}
<1> DEFINE e == Event("transaction.cancelled", transaction, NoCode)
<1>1. e \in Events
  <2>1. "transaction.cancelled" \in EventTypes
    BY DEF EventTypes, TerminalTypes
  <2>2. transaction \in EventNames
    BY CommonNames DEF TypeOK
  <2> QED BY <2>1, <2>2, EventType, CommonCodes
<1>2. Log(<<e>>)
  BY DEF CancelTransaction
<1> HIDE DEF e
<1>3. <<e>> \in Seq(Events) /\ Entries(<<e>>) = {e}
  BY <1>1, EntriesOfShort
<1>4. journal' \in Seq(Events) /\ Entries(journal') = Entries(journal) \cup {e}
  BY <1>2, <1>3, LogType
<1>5. TypeOK'
  BY <1>4 DEF TypeOK, CancelTransaction, flowVars, cashVars
<1> QED BY <1>4, <1>5 DEF e

\* An exception that is journaled by nothing but flow.failed.
LEMMA JustFails ==
    ASSUME TypeOK, FailFlow(<<>>)
    PROVE  /\ pc' = "failed" /\ journal' \in Seq(Events)
           /\ Entries(journal') = Entries(journal) \cup
                 {Event("flow.failed", NoTransaction, NoCode)}
<1>1. <<>> \in Seq(Events) /\ Entries(<<>>) = {}
  BY DEF Entries
<1> QED BY <1>1, FailFlowType

LEMMA RejectStep ==
    ASSUME TypeOK, RejectPrompt
    PROVE  /\ TypeOK' /\ pc' = "failed"
           /\ Entries(journal') = Entries(journal) \cup
                 {Event("flow.failed", NoTransaction, NoCode)}
<1>1. FailFlow(<<>>)
  BY DEF RejectPrompt
<1> QED BY <1>1, JustFails DEF TypeOK, RejectPrompt, flowVars, cashVars

LEMMA BalanceDisplayStep ==
    ASSUME TypeOK, NEW display \in BOOLEAN, AnswerBalanceDisplay(display)
    PROVE  LET started == Event("transaction.started", Name, NoCode)
               done == Completed(Name, accounts, Unreported)
           IN  /\ TypeOK'
               /\ accounts' = accounts
               /\ \/ /\ pc' = "failed" /\ req' = req
                     /\ Entries(journal') = Entries(journal) \cup
                           {started, Event("flow.failed", NoTransaction, NoCode)}
                  \/ /\ pc' = "done" /\ req' = req
                     /\ Entries(journal') = Entries(journal) \cup {started, done}
                  \/ /\ pc' = "print" /\ req' = Opened("print")
                     /\ Entries(journal') = Entries(journal) \cup {started}
<1> DEFINE d == Event("transaction.started", Name, NoCode)
           e == Completed(Name, accounts, Unreported)
<1>1. d \in Events
  <2>1. "transaction.started" \in EventTypes
    BY DEF EventTypes
  <2> QED BY <2>1, PlainEvent, CommonCodes
<1>2. e \in Events
  BY CompletedEvent DEF TypeOK, Unreported
<1>3. /\ accounts' = accounts /\ UNCHANGED cashVars
      /\ UNCHANGED <<customer, printer, transaction, account, amount>>
      /\ prompts' \in Seq(PromptNames)
      /\ \/ FailFlow(<<d>>) /\ req' = req
         \/ Log(<<d, e>>) /\ pc' = "done" /\ req' = req
         \/ Log(<<d>>) /\ pc' = "print" /\ req' = Opened("print")
  BY DEF AnswerBalanceDisplay, BeginBalanceInquiry
<1> HIDE DEF d, e
<1>4. /\ <<d>> \in Seq(Events) /\ Entries(<<d>>) = {d}
      /\ <<d, e>> \in Seq(Events) /\ Entries(<<d, e>>) = {d, e}
  BY <1>1, <1>2, EntriesOfShort
<1>5. /\ journal' \in Seq(Events)
      /\ \/ /\ pc' = "failed" /\ req' = req
            /\ Entries(journal') = Entries(journal) \cup
                  {d, Event("flow.failed", NoTransaction, NoCode)}
         \/ /\ pc' = "done" /\ req' = req
            /\ Entries(journal') = Entries(journal) \cup {d, e}
         \/ /\ pc' = "print" /\ req' = Opened("print")
            /\ Entries(journal') = Entries(journal) \cup {d}
  <2>1. CASE FailFlow(<<d>>) /\ req' = req
    BY <2>1, <1>4, FailFlowType
  <2>2. CASE Log(<<d, e>>) /\ pc' = "done" /\ req' = req
    BY <2>2, <1>4, LogType
  <2>3. CASE Log(<<d>>) /\ pc' = "print" /\ req' = Opened("print")
    BY <2>3, <1>4, LogType
  <2> QED BY <1>3, <2>1, <2>2, <2>3
<1>6. TypeOK'
  BY <1>3, <1>5 DEF TypeOK, Opened, cashVars, Calls
<1> QED BY <1>3, <1>5, <1>6 DEF d, e

LEMMA CashUnitType ==
    ASSUME TypeOK, NEW a \in Int,
           \/ AddTerminalCash(a)
           \/ RemoveTerminalCash(a)
    PROVE  cash' \in Int /\ DOMAIN notes' = CashUnits
BY DEF TypeOK, AddTerminalCash, RemoveTerminalCash

LEMMA AdjustmentStep ==
    ASSUME TypeOK, NEW direction \in {"Add", "Remove"}, NEW a \in Amounts,
           AnswerAdjustment(direction, a)
    PROVE  /\ TypeOK'
           /\ accounts' = accounts /\ req' = req
           /\ \/ /\ pc' = "failed"
                 /\ Entries(journal') = Entries(journal) \cup
                       {Event("flow.failed", NoTransaction, NoCode)}
              \/ /\ pc' = "done"
                 /\ Entries(journal') = Entries(journal) \cup
                       {ReportingEvent("transaction.completed", "TerminalAdmin",
                                       Report({}, accounts, {cash'}))}
<1> DEFINE e == ReportingEvent("transaction.completed", "TerminalAdmin",
                               Report({}, accounts, {cash'}))
<1>1. /\ accounts' = accounts /\ req' = req
      /\ UNCHANGED <<customer, printer, transaction, account, amount>>
      /\ prompts' \in Seq(PromptNames)
      /\ \/ /\ AddTerminalCash(a) \/ RemoveTerminalCash(a)
            /\ Log(<<e>>)
            /\ pc' = "done"
         \/ FailFlow(<<>>) /\ UNCHANGED cashVars
  BY DEF AnswerAdjustment, ExecuteAdjustment
<1>2. CASE (AddTerminalCash(a) \/ RemoveTerminalCash(a)) /\ Log(<<e>>) /\ pc' = "done"
  <2>1. cash' \in Int /\ DOMAIN notes' = CashUnits
    BY <1>2, SessionAssumption, CashUnitType
  <2>2. e \in Events
    BY <2>1, AdminEvent DEF TypeOK
  <2> HIDE DEF e
  <2>3. <<e>> \in Seq(Events) /\ Entries(<<e>>) = {e}
    BY <2>2, EntriesOfShort
  <2>4. journal' \in Seq(Events) /\ Entries(journal') = Entries(journal) \cup {e}
    BY <2>3, <1>2, LogType
  <2>5. TypeOK'
    BY <1>1, <1>2, <2>1, <2>4 DEF TypeOK
  <2> QED BY <1>1, <1>2, <2>4, <2>5 DEF e
<1>3. CASE FailFlow(<<>>) /\ UNCHANGED cashVars
  <2>1. /\ pc' = "failed" /\ journal' \in Seq(Events)
        /\ Entries(journal') = Entries(journal) \cup
              {Event("flow.failed", NoTransaction, NoCode)}
    BY <1>3, JustFails
  <2>2. TypeOK'
    BY <1>1, <1>3, <2>1 DEF TypeOK, cashVars
  <2> QED BY <1>1, <2>1, <2>2
<1> QED BY <1>1, <1>2, <1>3

LEMMA StatusStep ==
    ASSUME TypeOK, NEW status \in {"up", "down"}, NEW events \in Seq(Events),
           StatusSettled(status, events)
    PROVE  /\ TypeOK'
           /\ accounts' = accounts
           /\ \/ pc' \in PromptStates /\ req' = req
              \/ pc' = "readCard" /\ req' = Opened("readCard")
           /\ Entries(journal') = Entries(journal) \cup Entries(events)
<1>1. journal' \in Seq(Events) /\ Entries(journal') = Entries(journal) \cup Entries(events)
  <2>1. Log(events)
    BY DEF StatusSettled
  <2> QED BY <2>1, LogType
<1>2. "CardlessWithdrawal" \in Transactions /\ "CardlessWithdrawal" \in DOMAIN PromptsOf
  BY DEF Transactions, Withdrawals, PromptsOf
<1>3. PromptsOf["CardlessWithdrawal"] \in Seq(PromptNames)
  BY <1>2, PromptsType
<1>4. \/ pc' \in PromptStates /\ req' = req
      \/ pc' = "readCard" /\ req' = Opened("readCard")
  BY DEF StatusSettled, StartLoop, AskTransaction, PromptStates
<1>5. /\ transaction' \in Transactions \cup {NoTransaction, UnknownTransaction}
      /\ prompts' \in Seq(PromptNames)
  BY <1>2, <1>3 DEF TypeOK, StatusSettled, StartLoop, AskTransaction
<1>6. TypeOK' /\ accounts' = accounts
  BY <1>1, <1>4, <1>5 DEF TypeOK, StatusSettled, Opened, cashVars, Calls
<1> QED BY <1>1, <1>4, <1>6

\* A settled call's code, as the session sees it.
SettledCodes == EventCodes \cup {"ok"}

LEMMA CardStep ==
    ASSUME TypeOK, NEW ok \in BOOLEAN, NEW code \in SettledCodes,
           ~ok => code \in EventCodes,
           CardSettled(ok, code)
    PROVE  /\ TypeOK' /\ accounts' = accounts /\ req' = req
           /\ \/ pc' = "pin" /\ journal' = journal
              \/ /\ pc' = "failed"
                 /\ Entries(journal') = Entries(journal) \cup
                       {Event("transaction.failed", "CustomerIdentification", code),
                        Event("flow.failed", NoTransaction, NoCode)}
<1> DEFINE e == Event("transaction.failed", "CustomerIdentification", code)
<1>1. CASE ok
  BY <1>1 DEF TypeOK, CardSettled, flowVars, cashVars, PromptStates
<1>2. CASE ~ok
  <2>1. e \in Events
    <3>1. "transaction.failed" \in EventTypes
      BY DEF EventTypes, TerminalTypes
    <3> QED BY <1>2, <3>1, EventType, CommonNames
  <2>2. FailFlow(<<e>>)
    BY <1>2 DEF CardSettled
  <2> HIDE DEF e
  <2>3. <<e>> \in Seq(Events) /\ Entries(<<e>>) = {e}
    BY <2>1, EntriesOfShort
  <2>4. /\ pc' = "failed" /\ journal' \in Seq(Events)
        /\ Entries(journal') = Entries(journal) \cup {e} \cup
              {Event("flow.failed", NoTransaction, NoCode)}
    BY <2>2, <2>3, FailFlowType
  <2>5. TypeOK' /\ accounts' = accounts /\ req' = req
    BY <2>4 DEF TypeOK, CardSettled, flowVars, cashVars
  <2> QED BY <2>4, <2>5 DEF e
<1> QED BY <1>1, <1>2

LEMMA CashRefusedStep ==
    ASSUME TypeOK, NEW code \in EventCodes, CashRefused(code)
    PROVE  /\ TypeOK' /\ accounts' = accounts /\ req' = req /\ pc' = "done"
           /\ \/ /\ code = "ADAPTER_OUTCOME_UNKNOWN"
                 /\ Entries(journal') = Entries(journal) \cup
                       {Event("transaction.reconciliation_required", Name, code)}
              \/ /\ code # "ADAPTER_OUTCOME_UNKNOWN"
                 /\ Entries(journal') = Entries(journal) \cup
                       {Event("transaction.failed", Name, code)}
<1> DEFINE d == Event("transaction.reconciliation_required", Name, code)
           e == Event("transaction.failed", Name, code)
<1>1. d \in Events /\ e \in Events
  <2>1. {"transaction.failed", "transaction.reconciliation_required"}
           \subseteq EventTypes
    BY DEF EventTypes, TerminalTypes
  <2> QED BY <2>1, EventType, NameType
<1>2. IF code = "ADAPTER_OUTCOME_UNKNOWN" THEN Log(<<d>>) ELSE Log(<<e>>)
  BY DEF CashRefused
<1> HIDE DEF d, e
<1>3. /\ <<d>> \in Seq(Events) /\ Entries(<<d>>) = {d}
      /\ <<e>> \in Seq(Events) /\ Entries(<<e>>) = {e}
  BY <1>1, EntriesOfShort
<1>4. /\ journal' \in Seq(Events)
      /\ Entries(journal') = Entries(journal) \cup
            (IF code = "ADAPTER_OUTCOME_UNKNOWN" THEN {d} ELSE {e})
  BY <1>2, <1>3, LogType
<1>5. TypeOK' /\ accounts' = accounts /\ req' = req /\ pc' = "done"
  BY <1>4 DEF TypeOK, CashRefused, flowVars, cashVars
<1> QED BY <1>4, <1>5 DEF d, e

LEMMA AuthorizeStep ==
    ASSUME TypeOK, NEW ok \in BOOLEAN, NEW code \in SettledCodes,
           ~ok => code \in EventCodes,
           AuthorizeSettled(ok, code)
    PROVE  /\ TypeOK' /\ accounts' = accounts
           /\ \/ /\ ok /\ pc' = "dispense" /\ req' = Opened("dispense")
                 /\ Entries(journal') = Entries(journal) \cup
                       {Event("host.authorization_result", Name, "HOST_APPROVED")}
              \/ /\ ~ok /\ pc' = "done" /\ req' = req
                 /\ Entries(journal') = Entries(journal) \cup
                       {Event("host.authorization_result", Name, code),
                        Event("transaction.failed", Name, code)}
<1> DEFINE a == Event("host.authorization_result", Name, "HOST_APPROVED")
           d == Event("host.authorization_result", Name, code)
           e == Event("transaction.failed", Name, code)
<1>1. /\ a \in Events
      /\ ~ok => d \in Events /\ e \in Events
  <2>1. {"transaction.failed", "host.authorization_result"} \subseteq EventTypes
    BY DEF EventTypes, TerminalTypes
  <2> QED BY <2>1, EventType, NameType, CommonCodes
<1>2. CASE ok
  <2>1. Log(<<a>>) /\ pc' = "dispense" /\ req' = Opened("dispense")
    BY <1>2 DEF AuthorizeSettled
  <2> HIDE DEF a
  <2>2. <<a>> \in Seq(Events) /\ Entries(<<a>>) = {a}
    BY <1>1, EntriesOfShort
  <2>3. journal' \in Seq(Events) /\ Entries(journal') = Entries(journal) \cup {a}
    BY <2>1, <2>2, LogType
  <2>4. TypeOK' /\ accounts' = accounts
    BY <2>1, <2>3 DEF TypeOK, AuthorizeSettled, Opened, flowVars, cashVars, Calls
  <2> QED BY <1>2, <2>1, <2>3, <2>4 DEF a
<1>3. CASE ~ok
  <2>1. Log(<<d, e>>) /\ pc' = "done" /\ req' = req
    BY <1>3 DEF AuthorizeSettled
  <2> HIDE DEF d, e
  <2>2. <<d, e>> \in Seq(Events) /\ Entries(<<d, e>>) = {d, e}
    BY <1>1, <1>3, EntriesOfShort
  <2>3. journal' \in Seq(Events) /\ Entries(journal') = Entries(journal) \cup {d, e}
    BY <2>1, <2>2, LogType
  <2>4. TypeOK' /\ accounts' = accounts
    BY <2>1, <2>3 DEF TypeOK, AuthorizeSettled, flowVars, cashVars
  <2> QED BY <1>3, <2>1, <2>3, <2>4 DEF d, e
<1> QED BY <1>2, <1>3

\* The account a transaction works on after a debit or credit of its amount.
LEMMA BookingType ==
    ASSUME TypeOK, NEW d \in Int,
           accounts' = [accounts EXCEPT ![account] = @ + d]
           \/ accounts' = [accounts EXCEPT ![account] = @ - d]
    PROVE  accounts' \in [Accounts -> Int]
BY DEF TypeOK

LEMMA DispenseStep ==
    ASSUME TypeOK, NEW ok \in BOOLEAN, NEW code \in SettledCodes,
           ~ok => code \in EventCodes,
           DispenseSettled(ok, code)
    PROVE  /\ TypeOK'
           /\ \/ ~ok /\ CashRefused(code)
              \/ /\ ok
                 /\ accounts' = [accounts EXCEPT ![account] = @ - amount]
                 /\ \/ /\ pc' = "failed" /\ req' = req
                       /\ Entries(journal') = Entries(journal) \cup
                             {Event("flow.failed", NoTransaction, NoCode)}
                    \/ pc' = "print" /\ req' = Opened("print") /\ journal' = journal
<1>1. CASE ~ok /\ CashRefused(code)
  BY <1>1, CashRefusedStep
<1>2. CASE /\ ok
           /\ accounts' = [accounts EXCEPT ![account] = @ - amount]
           /\ UNCHANGED <<flowVars, cashVars>>
           /\ \/ FailFlow(<<>>) /\ UNCHANGED req
              \/ pc' = "print" /\ req' = Opened("print") /\ UNCHANGED journal
  <2>1. accounts' \in [Accounts -> Int]
    BY <1>2, BookingType DEF TypeOK
  <2>2. CASE FailFlow(<<>>) /\ UNCHANGED req
    BY <1>2, <2>1, <2>2, JustFails DEF TypeOK, flowVars, cashVars
  <2>3. CASE pc' = "print" /\ req' = Opened("print") /\ UNCHANGED journal
    BY <1>2, <2>1, <2>3 DEF TypeOK, Opened, flowVars, cashVars, Calls
  <2> QED BY <1>2, <2>2, <2>3
<1> QED BY <1>1, <1>2 DEF DispenseSettled

LEMMA AcceptStep ==
    ASSUME TypeOK, NEW ok \in BOOLEAN, NEW code \in SettledCodes,
           ~ok => code \in EventCodes,
           AcceptSettled(ok, code)
    PROVE  /\ TypeOK'
           /\ \/ ~ok /\ CashRefused(code)
              \/ /\ ok /\ pc' = "done" /\ req' = req
                 /\ accounts' = [accounts EXCEPT ![account] = @ + amount]
                 /\ Entries(journal') = Entries(journal) \cup
                       {Completed(Name, accounts', {cash})}
<1> DEFINE e == Completed(Name, accounts', {cash})
<1>1. CASE ~ok /\ CashRefused(code)
  BY <1>1, CashRefusedStep
<1>2. CASE /\ ok
           /\ accounts' = [accounts EXCEPT ![account] = @ + amount]
           /\ Log(<<e>>)
           /\ pc' = "done"
           /\ UNCHANGED <<flowVars, cashVars, req>>
  <2>1. accounts' \in [Accounts -> Int]
    BY <1>2, BookingType DEF TypeOK
  <2>2. e \in Events
    BY <2>1, CompletedEvent DEF TypeOK
  <2> HIDE DEF e
  <2>3. <<e>> \in Seq(Events) /\ Entries(<<e>>) = {e}
    BY <2>2, EntriesOfShort
  <2>4. journal' \in Seq(Events) /\ Entries(journal') = Entries(journal) \cup {e}
    BY <1>2, <2>3, LogType
  <2>5. TypeOK'
    BY <1>2, <2>1, <2>4 DEF TypeOK, flowVars, cashVars
  <2> QED BY <1>2, <2>4, <2>5 DEF e
<1> QED BY <1>1, <1>2 DEF AcceptSettled

LEMMA PrintStep ==
    ASSUME TypeOK, NEW ok \in BOOLEAN, NEW code \in SettledCodes,
           ~ok => code \in EventCodes,
           PrintSettled(ok, code)
    PROVE  /\ TypeOK' /\ pc' = "done" /\ req' = req /\ accounts' = accounts
           /\ \E money \in SUBSET Int :
                 /\ money = IF transaction \in Withdrawals THEN {cash} ELSE Unreported
                 /\ Entries(journal') = Entries(journal) \cup
                    (IF ok THEN {} ELSE {Event("device.status_changed", Name, code)})
                    \cup {Completed(Name, accounts, money)}
<1> DEFINE d == Event("device.status_changed", Name, code)
           money == IF transaction \in Withdrawals THEN {cash} ELSE Unreported
           e == Completed(Name, accounts, money)
           trouble == IF ok THEN <<>> ELSE <<d>>
<1>1. money \in SUBSET Int
  BY DEF TypeOK, Unreported
<1>2. e \in Events
  <2> HIDE DEF money
  <2> QED BY <1>1, CompletedEvent DEF TypeOK
<1>3. ~ok => d \in Events
  <2>1. "device.status_changed" \in EventTypes
    BY DEF EventTypes
  <2> QED BY <2>1, EventType, NameType
<1>4. /\ pc' = "done" /\ UNCHANGED <<flowVars, accounts, cashVars, req>>
      /\ Log(Append(trouble, e))
  BY DEF PrintSettled
<1>5. /\ trouble \in Seq(Events)
      /\ Entries(trouble) = IF ok THEN {} ELSE {d}
  <2> HIDE DEF d
  <2>1. <<>> \in Seq(Events) /\ Entries(<<>>) = {}
    BY DEF Entries
  <2>2. ~ok => <<d>> \in Seq(Events) /\ Entries(<<d>>) = {d}
    BY <1>3, EntriesOfShort
  <2> QED BY <2>1, <2>2
<1> HIDE DEF d, e, trouble
<1>6. /\ Append(trouble, e) \in Seq(Events)
      /\ Entries(Append(trouble, e)) = Entries(trouble) \cup {e}
  BY <1>2, <1>5, EntriesOfAppend
<1>7. /\ journal' \in Seq(Events)
      /\ Entries(journal') = Entries(journal) \cup Entries(trouble) \cup {e}
  BY <1>4, <1>6, LogType
<1>8. TypeOK' /\ req' = req /\ accounts' = accounts
  BY <1>4, <1>7 DEF TypeOK, flowVars, cashVars
<1> QED BY <1>1, <1>4, <1>5, <1>7, <1>8 DEF d, e

LEMMA OutcomeStep ==
    ASSUME TypeOK, NEW k \in Calls, NEW result \in {"ok"} \cup AllRefusals,
           Outcome(k, result), cash' \in Int, DOMAIN notes' = CashUnits
    PROVE  /\ TypeOK'
           /\ UNCHANGED <<pc, flowVars, journal, accounts>>
           /\ req[k] = "open" /\ req' = [req EXCEPT ![k] = result]
BY DEF TypeOK, Outcome, flowVars
-----------------------------------------------------------------------------
(***************************************************************************)
(* How calls settle and services act.                                      *)
(***************************************************************************)
\* A call that settles without an exception tells the truth about a cash
\* movement, or tells that it does not know.
LEMMA CallSettles ==
    ASSUME TypeOK, NEW k \in Calls, Call(k)
    PROVE  /\ pc = k
           /\ \/ Throws(k)
              \/ \E ok \in BOOLEAN, code \in SettledCodes :
                    /\ Settled(k, ok, code)
                    /\ ~ok => code \in EventCodes
                    /\ ok => req[k] = "ok"
                    /\ ~ok /\ k \in CashMoves =>
                          code = "ADAPTER_OUTCOME_UNKNOWN" \/ ~AtLarge(k)
                    /\ ~ok => \/ code = req[k] /\ code \notin {"idle", "open", "ok"}
                              \/ code \in LostCodes[k] \cup {TimeoutCode(k)}
<1> DEFINE Fits(ok, code) ==
       /\ ~ok => code \in EventCodes
       /\ ok => req[k] = "ok"
       /\ ~ok /\ k \in CashMoves => code = "ADAPTER_OUTCOME_UNKNOWN" \/ ~AtLarge(k)
       /\ ~ok => \/ code = req[k] /\ code \notin {"idle", "open", "ok"}
                 \/ code \in LostCodes[k] \cup {TimeoutCode(k)}
<1>1. ASSUME Returns(k)
      PROVE  /\ pc = k /\ Settled(k, req[k] = "ok", req[k])
             /\ req[k] \in SettledCodes /\ Fits(req[k] = "ok", req[k])
  <2>1. req[k] \in {"ok"} \cup AllRefusals
    BY <1>1 DEF TypeOK, Returns
  <2>2. req[k] \in SettledCodes /\ (req[k] # "ok" => req[k] \in EventCodes)
    BY <2>1, CommonCodes DEF SettledCodes
  <2>3. req[k] # "ok" => ~AtLarge(k)
    BY <1>1 DEF Returns, AtLarge
  <2> QED BY <1>1, <2>2, <2>3 DEF Returns
<1>2. ASSUME NEW code \in LostCodes[k], Lost(k, code)
      PROVE  pc = k /\ Settled(k, FALSE, code) /\ code \in SettledCodes /\ Fits(FALSE, code)
  <2>1. pc = k /\ Settled(k, FALSE, code) /\ code \in EventCodes
    BY <1>2, CommonCodes DEF Lost
  <2>2. k \in CashMoves => code = "ADAPTER_OUTCOME_UNKNOWN"
    BY <1>2 DEF CashMoves, LostCodes
  <2> QED BY <1>2, <2>1, <2>2 DEF SettledCodes
<1>3. ASSUME TimesOut(k)
      PROVE  /\ pc = k /\ Settled(k, FALSE, TimeoutCode(k))
             /\ TimeoutCode(k) \in SettledCodes /\ Fits(FALSE, TimeoutCode(k))
  <2>1. pc = k /\ Settled(k, FALSE, TimeoutCode(k)) /\ TimeoutCode(k) \in EventCodes
    BY <1>3, CommonCodes DEF TimesOut
  <2>2. k \in CashMoves => TimeoutCode(k) = "ADAPTER_OUTCOME_UNKNOWN"
    BY DEF TimeoutCode
  <2> QED BY <2>1, <2>2 DEF SettledCodes
<1>4. Throws(k) => pc = k
  BY DEF Throws
<1>5. (req[k] = "ok") \in BOOLEAN /\ FALSE \in BOOLEAN
  OBVIOUS
<1>6. \/ Throws(k)
      \/ \E ok \in BOOLEAN, code \in SettledCodes :
            pc = k /\ Settled(k, ok, code) /\ Fits(ok, code)
  <2> HIDE DEF Fits
  <2> QED BY <1>1, <1>2, <1>3, <1>5, Zenon DEF Call
<1> QED BY <1>4, <1>6

\* What the exception of an adapter does.
LEMMA ThrowsStep ==
    ASSUME TypeOK, NEW k \in Calls, Throws(k)
    PROVE  /\ pc = k
           /\ \/ k = "getStatus" /\ \E events \in Seq(Events) :
                    /\ StatusSettled("down", events)
                    /\ \A e \in Entries(events) : e.type = "device.status_changed"
              \/ k = "print" /\ PrintSettled(FALSE, "RECEIPT_ERROR")
              \/ /\ k \notin {"getStatus", "print"} /\ TypeOK' /\ pc' = "failed"
                 /\ accounts' = accounts /\ req' = req
                 /\ Entries(journal') = Entries(journal) \cup
                       {Event("flow.failed", NoTransaction, NoCode)}
<1> DEFINE d == Event("device.status_changed", NoTransaction, "PRINTER_STATUS_ERROR")
<1>1. pc = k
  BY DEF Throws
<1>2. CASE k = "getStatus" /\ StatusSettled("down", <<d>>)
  <2>1. d \in Events /\ d.type = "device.status_changed"
    <3>1. "device.status_changed" \in EventTypes
      BY DEF EventTypes
    <3> QED BY <3>1, EventType, EventFields, CommonNames, CommonCodes
  <2> HIDE DEF d
  <2>2. <<d>> \in Seq(Events) /\ Entries(<<d>>) = {d}
    BY <2>1, EntriesOfShort
  <2> QED BY <1>1, <1>2, <2>1, <2>2
<1>3. CASE k = "print" /\ PrintSettled(FALSE, "RECEIPT_ERROR")
  BY <1>1, <1>3
<1>4. CASE /\ k \notin {"getStatus", "print"} /\ FailFlow(<<>>)
           /\ UNCHANGED <<flowVars, accounts, cashVars, req>>
  <2>1. TypeOK'
    BY <1>4, JustFails DEF TypeOK, flowVars, cashVars
  <2> QED BY <1>1, <1>4, <2>1, JustFails
<1> QED BY <1>2, <1>3, <1>4 DEF Throws

\* A service, remote or simulated, decides on one open request, with an answer
\* of its own.
LEMMA ServiceAnswers ==
    ASSUME TypeOK, Simulates \/ \E k \in Calls : Service(k)
    PROVE  \E k \in Calls : \E result \in {"ok"} \cup Refusals[k] :
              Outcome(k, result) /\ cash' \in Int /\ DOMAIN notes' = CashUnits
<1>1. /\ {"HOST_UNAVAILABLE", "HOST_DECLINED", "INSUFFICIENT_FUNDS"}
             \subseteq Refusals["authorize"]
      /\ {"CARD_READER_UNAVAILABLE", "CARD_READER_OFFLINE"} \subseteq Refusals["readCard"]
      /\ "PRINTER_UNAVAILABLE" \in Refusals["print"]
      /\ "PRINTER_UNAVAILABLE" \in Refusals["getStatus"]
  BY DEF Refusals
<1>2. {"DISPENSER_UNAVAILABLE", "DISPENSER_OFFLINE", "INVALID_AMOUNT",
       "DISPENSE_LIMIT_EXCEEDED", "INSUFFICIENT_TERMINAL_CASH",
       "DENOMINATION_UNAVAILABLE"} \subseteq Refusals["dispense"]
  BY DEF Refusals
<1>3. {"ACCEPTOR_UNAVAILABLE", "ACCEPTOR_OFFLINE", "INVALID_AMOUNT",
       "DEPOSIT_LIMIT_EXCEEDED", "DENOMINATION_UNAVAILABLE",
       "CASH_CAPACITY_EXCEEDED"} \subseteq Refusals["accept"]
  BY DEF Refusals
<1>4. cash \in Int /\ DOMAIN notes = CashUnits /\ amount \in Int
  BY DEF TypeOK
<1>5. ASSUME NEW k \in Calls, Service(k)
      PROVE  \E result \in {"ok"} \cup Refusals[k] :
                Outcome(k, result) /\ cash' \in Int /\ DOMAIN notes' = CashUnits
  BY <1>4, <1>5 DEF Service, ServiceActs, ServiceRefuses, cashVars
<1>6. CASE HostAuthorizes
  BY <1>1, <1>4, <1>6 DEF HostAuthorizes, cashVars, Calls
<1>7. CASE DispenserDispenses
  <2>1. RemoveTerminalCash(amount) => cash' \in Int /\ DOMAIN notes' = CashUnits
    BY <1>4, CashUnitType
  <2> QED BY <1>2, <1>4, <1>7, <2>1 DEF DispenserDispenses, cashVars, Calls
<1>8. CASE AcceptorAccepts
  <2>1. AddTerminalCash(amount) => cash' \in Int /\ DOMAIN notes' = CashUnits
    BY <1>4, CashUnitType
  <2> QED BY <1>3, <1>4, <1>8, <2>1 DEF AcceptorAccepts, cashVars, Calls
<1>9. CASE ReaderReads
  BY <1>1, <1>4, <1>9 DEF ReaderReads, cashVars, Calls
<1>10. CASE PrinterAnswers
  BY <1>1, <1>4, <1>10 DEF PrinterAnswers, cashVars, Calls
<1> QED BY <1>5, <1>6, <1>7, <1>8, <1>9, <1>10 DEF Simulates

LEMMA ServiceDecides ==
    ASSUME TypeOK, Simulates \/ \E k \in Calls : Service(k)
    PROVE  \E k \in Calls, result \in {"ok"} \cup AllRefusals :
              Outcome(k, result) /\ cash' \in Int /\ DOMAIN notes' = CashUnits
<1>1. PICK k \in Calls : \E result \in {"ok"} \cup Refusals[k] :
         Outcome(k, result) /\ cash' \in Int /\ DOMAIN notes' = CashUnits
  BY ServiceAnswers
<1>2. Refusals[k] \subseteq AllRefusals
  BY CommonCodes
<1> QED BY <1>1, <1>2
-----------------------------------------------------------------------------
(***************************************************************************)
(* Every step keeps the types.                                             *)
(***************************************************************************)
LEMMA SettledTypes ==
    ASSUME TypeOK, NEW k \in Calls, NEW ok \in BOOLEAN, NEW code \in SettledCodes,
           ~ok => code \in EventCodes, Settled(k, ok, code)
    PROVE  TypeOK'
<1>1. CASE StatusSettled(IF ok THEN "up" ELSE "down", <<>>)
  <2>1. <<>> \in Seq(Events)
    OBVIOUS
  <2> QED BY <1>1, <2>1, StatusStep
<1>2. CASE CardSettled(ok, code)
  BY <1>2, CardStep
<1>3. CASE AuthorizeSettled(ok, code)
  BY <1>3, AuthorizeStep
<1>4. CASE DispenseSettled(ok, code)
  BY <1>4, DispenseStep
<1>5. CASE AcceptSettled(ok, code)
  BY <1>5, AcceptStep
<1>6. CASE PrintSettled(ok, code)
  BY <1>6, PrintStep
<1> QED BY <1>1, <1>2, <1>3, <1>4, <1>5, <1>6 DEF Settled

LEMMA CallTypes ==
    ASSUME TypeOK, NEW k \in Calls, Call(k)
    PROVE  TypeOK'
<1>1. CASE Throws(k)
  <2>1. ASSUME NEW events \in Seq(Events), StatusSettled("down", events)
        PROVE  TypeOK'
    BY <2>1, StatusStep
  <2>2. ASSUME PrintSettled(FALSE, "RECEIPT_ERROR")
        PROVE  TypeOK'
    BY <2>2, PrintStep, CommonCodes DEF SettledCodes
  <2> QED BY <1>1, <2>1, <2>2, ThrowsStep
<1>2. ASSUME NEW ok \in BOOLEAN, NEW code \in SettledCodes,
             Settled(k, ok, code), ~ok => code \in EventCodes
      PROVE  TypeOK'
  BY <1>2, SettledTypes
<1> QED BY <1>1, <1>2, CallSettles

LEMMA CustomerTypesKept ==
    ASSUME TypeOK, Customer
    PROVE  TypeOK'
BY EnterPinStep, AnswerPrinterDownStep, SelectTransactionStep, AnswerStep,
   AnswerConfirmStep, CancelStep, BalanceDisplayStep, AdjustmentStep,
   RejectStep, Zenon DEF Customer

LEMMA ServiceTypes ==
    ASSUME TypeOK, Simulates \/ \E k \in Calls : Service(k)
    PROVE  TypeOK'
BY ServiceDecides, OutcomeStep, Zenon

LEMMA TypeStep == TypeOK /\ [Next]_vars => TypeOK'
<1> SUFFICES ASSUME TypeOK, [Next]_vars PROVE TypeOK'
  OBVIOUS
<1>1. ASSUME NEW type \in CustomerTypes, Load(type) PROVE TypeOK'
  BY <1>1, LoadStep
<1>2. CASE LoadFails
  BY <1>2, LoadFailsStep
<1>3. CASE Customer
  BY <1>3, CustomerTypesKept
<1>4. ASSUME NEW k \in Calls, Call(k) PROVE TypeOK'
  BY <1>4, CallTypes
<1>5. CASE Simulates \/ \E k \in Calls : Service(k)
  BY <1>5, ServiceTypes
<1>6. CASE UNCHANGED vars
  BY <1>6 DEF TypeOK, vars, flowVars, cashVars
<1> QED BY <1>1, <1>2, <1>3, <1>4, <1>5, <1>6, Zenon DEF Next

\* Type correctness: whatever the customer, the devices and the host do, the
\* journal holds well-formed events only and the books stay numbers
\* (runFlow, the ATM modules, RuntimeJournal).
THEOREM SpecTypeOK == Spec => []TypeOK
BY InitType, TypeStep, PTL DEF Spec
-----------------------------------------------------------------------------
(***************************************************************************)
(* Money is safe in every session.                                         *)
(***************************************************************************)
\* The inductive invariant.
Safe ==
    /\ Phase
    /\ DispenseAuthorized
    /\ CompletedMeansMoved
    /\ FailedMeansNotMoved
    /\ CancelledMeansUntouched

\* The names under which cash transactions are journaled.
CashNames == {"CashWithdrawal", "CardlessCashWithdrawal", "FastCash", "CashDeposit"}

Before == {"load", "getStatus", "readCard"} \cup PromptStates

LEMMA CashTransactionNames ==
    /\ \A t \in Withdrawals : ModuleName(t) \in CashNames \ {"CashDeposit"}
    /\ ModuleName("CashDeposit") = "CashDeposit"
    /\ ModuleName("BalanceInquiry") = "BalanceInquiry"
    /\ "BalanceInquiry" \notin CashNames
    /\ "TerminalAdmin" \notin CashNames
BY DEF Withdrawals, AdminTransactions, ModuleName, CashNames

\* The three requests that concern money are requests.
LEMMA MoneyCalls ==
    /\ {"authorize", "dispense", "accept", "print", "getStatus", "readCard"} = Calls
    /\ TypeOK => \A k \in Calls :
          /\ Opened(k)[k] = "open"
          /\ \A j \in Calls \ {k} : Opened(k)[j] = req[j]
BY DEF Calls, TypeOK, Opened

LEMMA InitSafe == Init => Safe
<1> SUFFICES ASSUME Init PROVE Safe
  OBVIOUS
<1>1. Untouched /\ AccountsUntouched /\ pc = "load"
  BY DEF Init, Untouched, AccountsUntouched, Calls
<1>2. Entries(journal) = {Event("runtime.started", NoTransaction, NoCode)}
  BY DEF Init, Entries
<1>3. \A e \in Entries(journal) : e.type \notin TerminalTypes
  BY <1>2, EventFields DEF TerminalTypes
<1>4. \A type \in TerminalTypes : \A name : ~Journaled(type, name)
  BY <1>3, Zenon DEF Journaled
<1>5. Phase
  BY <1>1, <1>3 DEF Phase
<1>6. DispenseAuthorized
  BY <1>1 DEF DispenseAuthorized, Untouched
<1>7. CompletedMeansMoved /\ FailedMeansNotMoved /\ CancelledMeansUntouched
  BY <1>1, <1>4
     DEF CompletedMeansMoved, FailedMeansNotMoved, CancelledMeansUntouched, TerminalTypes
<1> QED BY <1>5, <1>6, <1>7 DEF Safe
-----------------------------------------------------------------------------
(***************************************************************************)
(* Steps that ask for no money.                                            *)
(***************************************************************************)
\* A step that leaves every request for money idle and every account as it was
\* may write any outcome but the completion of a cash transaction, if it ends
\* the session with it.
LEMMA UntouchedStep ==
    ASSUME Safe, ~Ended, NEW new,
           Entries(journal') = Entries(journal) \cup new,
           Untouched', AccountsUntouched',
           \A e \in new : e.type \in TerminalTypes =>
              /\ Ended'
              /\ e.type = "transaction.completed" => e.transaction \notin CashNames,
           \/ pc' \in Before \cup {"done", "failed"}
           \/ pc' = "print" /\ transaction' = "BalanceInquiry"
    PROVE  Safe'
<1>1. \A e \in Entries(journal) : e.type \notin TerminalTypes
  BY DEF Safe, Phase
<1>2. Phase'
  <2>1. ~Ended' => \A e \in Entries(journal') : e.type \notin TerminalTypes
    BY <1>1
  <2>2. pc' \notin {"authorize", "dispense", "accept"}
    BY DEF Before, PromptStates
  <2>3. pc' = "print" => transaction' = "BalanceInquiry"
    BY DEF Before, PromptStates
  <2> QED BY <2>1, <2>2, <2>3, Zenon DEF Phase
<1>3. DispenseAuthorized'
  BY DEF DispenseAuthorized, Untouched
<1>4. \A name \in CashNames : ~Journaled("transaction.completed", name)'
  BY <1>1, Zenon DEF Journaled, TerminalTypes
<1>5. CompletedMeansMoved'
  <2>1. \A t \in Withdrawals : ~Journaled("transaction.completed", ModuleName(t))'
    BY <1>4, CashTransactionNames
  <2>2. ~Journaled("transaction.completed", "CashDeposit")'
    BY <1>4 DEF CashNames
  <2> QED BY <2>1, <2>2 DEF CompletedMeansMoved
<1>6. FailedMeansNotMoved'
  BY DEF FailedMeansNotMoved, AtLarge, Untouched
<1>7. CancelledMeansUntouched'
  BY DEF CancelledMeansUntouched
<1> QED BY <1>2, <1>3, <1>5, <1>6, <1>7 DEF Safe

\* Such a step is one of a session that still waits for the customer, the
\* reader or the printer's status, and opens none of the requests for money.
LEMMA EarlyStep ==
    ASSUME Safe, pc \in Before, NEW new,
           Entries(journal') = Entries(journal) \cup new,
           accounts' = accounts,
           \A k \in {"authorize", "dispense", "accept"} : req'[k] = req[k],
           \A e \in new : e.type \in TerminalTypes =>
              /\ Ended'
              /\ e.type = "transaction.completed" => e.transaction \notin CashNames,
           \/ pc' \in Before \cup {"done", "failed"}
           \/ pc' = "print" /\ transaction' = "BalanceInquiry"
    PROVE  Safe'
<1>1. Untouched /\ AccountsUntouched
  BY DEF Safe, Phase, Before
<1>2. Untouched' /\ AccountsUntouched'
  BY <1>1 DEF Untouched, AccountsUntouched
<1>3. ~Ended
  BY DEF Ended, Before, PromptStates
<1> QED BY <1>2, <1>3, UntouchedStep

LEMMA EarlySilentStep ==
    ASSUME Safe, pc \in Before, journal' = journal, accounts' = accounts,
           req' = req, pc' \in Before
    PROVE  Safe'
<1> DEFINE new == {}
<1>1. Entries(journal') = Entries(journal) \cup new
  OBVIOUS
<1>2. \A k \in {"authorize", "dispense", "accept"} : req'[k] = req[k]
  OBVIOUS
<1>3. \A e \in new : e.type \in TerminalTypes =>
              /\ Ended'
              /\ e.type = "transaction.completed" => e.transaction \notin CashNames
  OBVIOUS
<1> HIDE DEF new
<1> QED BY <1>1, <1>2, <1>3, EarlyStep

LEMMA EarlyEventStep ==
    ASSUME Safe, pc \in Before, NEW d, NEW e,
           Entries(journal') = Entries(journal) \cup {d, e},
           accounts' = accounts, req' = req,
           d.type \notin TerminalTypes,
           e.type \in TerminalTypes =>
              /\ pc' \in {"done", "failed"}
              /\ e.type = "transaction.completed" => e.transaction \notin CashNames,
           pc' \in Before \cup {"done", "failed"}
    PROVE  Safe'
<1> DEFINE new == {d, e}
<1>1. Entries(journal') = Entries(journal) \cup new
  OBVIOUS
<1>2. \A k \in {"authorize", "dispense", "accept"} : req'[k] = req[k]
  OBVIOUS
<1>3. \A f \in new : f.type \in TerminalTypes =>
              /\ Ended'
              /\ f.type = "transaction.completed" => f.transaction \notin CashNames
  BY DEF Ended, TerminalTypes
<1> HIDE DEF new
<1> QED BY <1>1, <1>2, <1>3, EarlyStep

LEMMA EarlyOutcomeStep ==
    ASSUME Safe, pc \in Before, NEW e,
           Entries(journal') = Entries(journal) \cup {e},
           accounts' = accounts, req' = req,
           e.type \in TerminalTypes =>
              /\ pc' \in {"done", "failed"}
              /\ e.type = "transaction.completed" => e.transaction \notin CashNames,
           pc' \in Before \cup {"done", "failed"}
    PROVE  Safe'
<1> DEFINE new == {e}
<1>1. Entries(journal') = Entries(journal) \cup new
  OBVIOUS
<1>2. \A k \in {"authorize", "dispense", "accept"} : req'[k] = req[k]
  OBVIOUS
<1>3. \A f \in new : f.type \in TerminalTypes =>
              /\ Ended'
              /\ f.type = "transaction.completed" => f.transaction \notin CashNames
  BY DEF Ended
<1> HIDE DEF new
<1> QED BY <1>1, <1>2, <1>3, EarlyStep

LEMMA LoadSafe ==
    ASSUME TypeOK, Safe, NEW type \in CustomerTypes, Load(type)
    PROVE  Safe'
<1> DEFINE new == {Event("flow.loaded", NoTransaction, NoCode),
                   Event("session.started", NoTransaction, NoCode)}
<1>1. /\ Entries(journal') = Entries(journal) \cup new
      /\ pc = "load" /\ pc' = "getStatus"
      /\ accounts' = accounts /\ req' = Opened("getStatus")
  BY LoadStep DEF Load
<1>2. \A e \in new : e.type \notin TerminalTypes
  BY EventFields DEF TerminalTypes
<1>3. \A k \in {"authorize", "dispense", "accept"} : req'[k] = req[k]
  BY <1>1, MoneyCalls
<1> HIDE DEF new
<1> QED BY <1>1, <1>2, <1>3, EarlyStep DEF Before

LEMMA LoadFailsSafe ==
    ASSUME TypeOK, Safe, LoadFails
    PROVE  Safe'
<1> DEFINE new == {Event("flow.loaded", NoTransaction, NoCode),
                   Event("flow.failed", NoTransaction, NoCode)}
<1>1. /\ Entries(journal') = Entries(journal) \cup new
      /\ pc = "load" /\ pc' = "failed"
      /\ accounts' = accounts /\ req' = req
  BY LoadFailsStep DEF LoadFails, FailFlow
<1>2. \A e \in new : e.type \notin TerminalTypes
  BY EventFields DEF TerminalTypes
<1> HIDE DEF new
<1> QED BY <1>1, <1>2, EarlyStep DEF Before

LEMMA EnterPinSafe ==
    ASSUME TypeOK, Safe, EnterPin
    PROVE  Safe'
<1>1. /\ journal' = journal
      /\ pc \in Before /\ accounts' = accounts /\ req' = req
  BY EnterPinStep DEF EnterPin, Before, PromptStates
<1>2. pc' \in Before
  BY DEF EnterPin, StartLoop, AskTransaction, Before, PromptStates
<1> QED BY <1>1, <1>2, EarlySilentStep

LEMMA AnswerPrinterDownSafe ==
    ASSUME TypeOK, Safe, NEW goOn \in BOOLEAN, AnswerPrinterDown(goOn)
    PROVE  Safe'
<1> DEFINE e == Event("transaction.cancelled", NoTransaction, NoCode)
<1>1. pc \in Before /\ accounts' = accounts /\ req' = req
  BY DEF AnswerPrinterDown, Before, PromptStates
<1>2. pc' \in Before \cup {"done"}
  BY DEF AnswerPrinterDown, AskTransaction, Before, PromptStates
<1>3. e.type = "transaction.cancelled"
  BY EventFields
<1>4. \/ pc' # "done" /\ journal' = journal
      \/ pc' = "done" /\ Entries(journal') = Entries(journal) \cup {e}
  BY AnswerPrinterDownStep
<1> HIDE DEF e
<1>5. CASE pc' # "done" /\ journal' = journal
  BY <1>1, <1>2, <1>5, EarlySilentStep
<1>6. CASE pc' = "done" /\ Entries(journal') = Entries(journal) \cup {e}
  BY <1>1, <1>3, <1>6, EarlyOutcomeStep
<1> QED BY <1>4, <1>5, <1>6

LEMMA SelectTransactionSafe ==
    ASSUME TypeOK, Safe, NEW t \in Transactions \cup {UnknownTransaction},
           SelectTransaction(t)
    PROVE  Safe'
<1> DEFINE d == Event("transaction.selected", t, NoCode)
           e == ReportingEvent("transaction.completed", "TerminalAdmin",
                               Report(Accounts, accounts, {cash}))
<1>1. pc \in Before /\ accounts' = accounts /\ req' = req
  BY DEF SelectTransaction, ExecuteReport, Before, PromptStates
<1>2. \/ Entries(journal') = Entries(journal) \cup {d} /\ pc' \in {"prompt", "done"}
      \/ Entries(journal') = Entries(journal) \cup {d, e} /\ pc' = "done"
  BY SelectTransactionStep
<1>3. /\ d.type \notin TerminalTypes
      /\ e.transaction \notin CashNames
  BY EventFields, ReportingEventFields, CashTransactionNames DEF TerminalTypes
<1>4. pc' \in Before \cup {"done"}
  BY <1>2 DEF Before, PromptStates
<1> HIDE DEF d, e
<1>5. CASE Entries(journal') = Entries(journal) \cup {d}
  BY <1>1, <1>3, <1>4, <1>5, EarlyOutcomeStep
<1>6. CASE Entries(journal') = Entries(journal) \cup {d, e} /\ pc' = "done"
  BY <1>1, <1>3, <1>4, <1>6, EarlyEventStep
<1> QED BY <1>2, <1>5, <1>6

LEMMA AnswerSafe ==
    ASSUME TypeOK, Safe,
           \/ \E a \in Accounts : AnswerAccount(a)
           \/ \E a \in Amounts : AnswerAmount(a)
           \/ AnswerAccess
    PROVE  Safe'
<1>1. journal' = journal
  BY AnswerStep
<1>2. pc \in Before /\ accounts' = accounts /\ req' = req /\ pc' \in Before
  BY DEF AnswerAccount, AnswerAmount, AnswerAccess, Asking, NextPrompt, Before,
         PromptStates
<1> QED BY <1>1, <1>2, EarlySilentStep

LEMMA CancelSafe ==
    ASSUME TypeOK, Safe, CancelTransaction
    PROVE  Safe'
<1> DEFINE e == Event("transaction.cancelled", transaction, NoCode)
<1>1. /\ Entries(journal') = Entries(journal) \cup {e}
      /\ pc \in Before /\ accounts' = accounts /\ req' = req /\ pc' = "done"
  BY CancelStep DEF CancelTransaction, Asking, Before, PromptStates
<1>2. e.type # "transaction.completed"
  BY EventFields
<1> HIDE DEF e
<1> QED BY <1>1, <1>2, EarlyOutcomeStep

LEMMA RejectSafe ==
    ASSUME TypeOK, Safe, RejectPrompt
    PROVE  Safe'
<1> DEFINE e == Event("flow.failed", NoTransaction, NoCode)
<1>1. /\ Entries(journal') = Entries(journal) \cup {e}
      /\ pc \in Before /\ accounts' = accounts /\ req' = req /\ pc' = "failed"
  BY RejectStep DEF RejectPrompt, Before, PromptStates
<1>2. e.type \notin TerminalTypes
  BY EventFields DEF TerminalTypes
<1> HIDE DEF e
<1> QED BY <1>1, <1>2, EarlyOutcomeStep

LEMMA BalanceDisplaySafe ==
    ASSUME TypeOK, Safe, NEW display \in BOOLEAN, AnswerBalanceDisplay(display)
    PROVE  Safe'
<1> DEFINE started == Event("transaction.started", Name, NoCode)
           done == Completed(Name, accounts, Unreported)
           failed == Event("flow.failed", NoTransaction, NoCode)
<1>1. /\ pc \in Before
      /\ transaction = "BalanceInquiry" /\ transaction' = "BalanceInquiry"
  BY DEF AnswerBalanceDisplay, Asking, Before, PromptStates
<1>2. /\ started.type \notin TerminalTypes
      /\ failed.type \notin TerminalTypes
      /\ done.transaction \notin CashNames
  BY <1>1, EventFields, ReportingEventFields, CashTransactionNames
     DEF TerminalTypes, Completed, Name
<1>3. /\ accounts' = accounts
      /\ \/ /\ pc' = "failed" /\ req' = req
            /\ Entries(journal') = Entries(journal) \cup {started, failed}
         \/ /\ pc' = "done" /\ req' = req
            /\ Entries(journal') = Entries(journal) \cup {started, done}
         \/ /\ pc' = "print" /\ req' = Opened("print")
            /\ Entries(journal') = Entries(journal) \cup {started}
  BY BalanceDisplayStep
<1>4. \A k \in {"authorize", "dispense", "accept"} : req'[k] = req[k]
  BY <1>3, MoneyCalls
<1> HIDE DEF started, done, failed
<1>5. CASE /\ pc' = "failed"
           /\ Entries(journal') = Entries(journal) \cup {started, failed}
  BY <1>1, <1>2, <1>3, <1>4, <1>5, EarlyStep
<1>6. CASE /\ pc' = "done"
           /\ Entries(journal') = Entries(journal) \cup {started, done}
  <2>1. Ended'
    BY <1>6 DEF Ended
  <2> QED BY <1>1, <1>2, <1>3, <1>4, <1>6, <2>1, EarlyStep
<1>7. CASE /\ pc' = "print"
           /\ Entries(journal') = Entries(journal) \cup {started}
  BY <1>1, <1>2, <1>3, <1>4, <1>7, EarlyStep
<1> QED BY <1>3, <1>5, <1>6, <1>7

LEMMA AdjustmentSafe ==
    ASSUME TypeOK, Safe, NEW direction \in {"Add", "Remove"}, NEW a \in Amounts,
           AnswerAdjustment(direction, a)
    PROVE  Safe'
<1> DEFINE d == Event("flow.failed", NoTransaction, NoCode)
           e == ReportingEvent("transaction.completed", "TerminalAdmin",
                               Report({}, accounts, {cash'}))
<1>1. /\ pc \in Before /\ accounts' = accounts /\ req' = req
      /\ \/ pc' = "failed" /\ Entries(journal') = Entries(journal) \cup {d}
         \/ pc' = "done" /\ Entries(journal') = Entries(journal) \cup {e}
  BY AdjustmentStep DEF AnswerAdjustment, Asking, Before, PromptStates
<1>2. /\ d.type \notin TerminalTypes
      /\ e.transaction \notin CashNames
  BY EventFields, ReportingEventFields, CashTransactionNames DEF TerminalTypes
<1> HIDE DEF d, e
<1> QED BY <1>1, <1>2, EarlyOutcomeStep
-----------------------------------------------------------------------------
(***************************************************************************)
(* Steps of a session that has asked for money.                            *)
(***************************************************************************)
\* No outcome is in the journal while the session still runs, and none is
\* after a step that writes none.
LEMMA NoOutcomeStep ==
    ASSUME Safe, ~Ended, NEW new,
           Entries(journal') = Entries(journal) \cup new,
           \A e \in new : e.type \notin TerminalTypes
    PROVE  /\ \A e \in Entries(journal') : e.type \notin TerminalTypes
           /\ CompletedMeansMoved' /\ FailedMeansNotMoved'
           /\ \A name : ~Journaled("transaction.cancelled", name)'
<1>1. \A e \in Entries(journal) : e.type \notin TerminalTypes
  BY DEF Safe, Phase
<1>2. \A e \in Entries(journal') : e.type \notin TerminalTypes
  BY <1>1
<1>3. \A type \in TerminalTypes : \A name : ~Journaled(type, name)'
  BY <1>2, Zenon DEF Journaled
<1>4. \A name : /\ ~Journaled("transaction.completed", name)'
                /\ ~Journaled("transaction.failed", name)'
                /\ ~Journaled("transaction.cancelled", name)'
  BY <1>3, Zenon DEF TerminalTypes
<1>5. CompletedMeansMoved'
  BY <1>4 DEF CompletedMeansMoved
<1>6. FailedMeansNotMoved'
  BY <1>4 DEF FailedMeansNotMoved
<1> QED BY <1>2, <1>4, <1>5, <1>6

\* Such a step that does not end the session is safe if the session then waits
\* for what it has prepared.
LEMMA GoesOnStep ==
    ASSUME Safe, ~Ended, NEW new,
           Entries(journal') = Entries(journal) \cup new,
           \A e \in new : e.type \notin TerminalTypes,
           Phase', DispenseAuthorized',
           AccountsUntouched' \/ req'["dispense"] = "ok" \/ req'["accept"] = "ok"
    PROVE  Safe'
<1>1. /\ CompletedMeansMoved' /\ FailedMeansNotMoved'
      /\ \A name : ~Journaled("transaction.cancelled", name)'
  BY NoOutcomeStep
<1>2. CancelledMeansUntouched'
  BY <1>1 DEF CancelledMeansUntouched
<1> QED BY <1>1, <1>2 DEF Safe

\* A step that ends the session is safe if the outcome it writes is true.
LEMMA EndingStep ==
    ASSUME Safe, ~Ended, pc' \in {"done", "failed"}, NEW new,
           Entries(journal') = Entries(journal) \cup new,
           DispenseAuthorized',
           AccountsUntouched' \/ req'["dispense"] = "ok" \/ req'["accept"] = "ok",
           \A e \in new :
              /\ e.type # "transaction.cancelled"
              /\ e.type = "transaction.completed" /\ e.transaction \in CashNames =>
                    IF e.transaction = "CashDeposit"
                    THEN /\ req'["accept"] = "ok"
                         /\ accounts'[account'] = InitialBalance + amount'
                    ELSE /\ req'["authorize"] = "ok" /\ req'["dispense"] = "ok"
                         /\ accounts'[account'] = InitialBalance - amount'
              /\ e.type = "transaction.failed" =>
                    ~AtLarge("dispense")' /\ ~AtLarge("accept")'
    PROVE  Safe'
<1>1. \A e \in Entries(journal) : e.type \notin TerminalTypes
  BY DEF Safe, Phase
<1>2. Phase'
  BY DEF Phase, Ended, PromptStates
<1>3. \A type \in TerminalTypes : \A name :
         Journaled(type, name)' => \E e \in new : e.type = type /\ e.transaction = name
  BY <1>1, Zenon DEF Journaled
<1>4. CompletedMeansMoved'
  <2>1. ASSUME NEW name \in CashNames \ {"CashDeposit"},
               Journaled("transaction.completed", name)'
        PROVE  /\ req'["authorize"] = "ok" /\ req'["dispense"] = "ok"
               /\ accounts'[account'] = InitialBalance - amount'
    BY <1>3, <2>1 DEF TerminalTypes
  <2>2. ASSUME Journaled("transaction.completed", "CashDeposit")'
        PROVE  /\ req'["accept"] = "ok"
               /\ accounts'[account'] = InitialBalance + amount'
    BY <1>3, <2>2 DEF TerminalTypes, CashNames
  <2> QED BY <2>1, <2>2, CashTransactionNames DEF CompletedMeansMoved
<1>5. FailedMeansNotMoved'
  <2>1. ASSUME NEW name, Journaled("transaction.failed", name)'
        PROVE  ~AtLarge("dispense")' /\ ~AtLarge("accept")'
    BY <1>3, <2>1 DEF TerminalTypes
  <2> QED BY <2>1 DEF FailedMeansNotMoved
<1>6. CancelledMeansUntouched'
  <2>1. \A name : ~Journaled("transaction.cancelled", name)'
    BY <1>3 DEF TerminalTypes
  <2> QED BY <2>1 DEF CancelledMeansUntouched
<1> QED BY <1>2, <1>4, <1>5, <1>6 DEF Safe

LEMMA AnswerConfirmSafe ==
    ASSUME TypeOK, Safe, AnswerConfirm
    PROVE  Safe'
<1>1. Untouched /\ AccountsUntouched /\ ~Ended
  BY DEF AnswerConfirm, Asking, Safe, Phase, Ended, PromptStates
<1>2. accounts' = accounts /\ transaction' = transaction
  BY DEF AnswerConfirm, BeginWithdrawal, BeginDeposit
<1>3. AccountsUntouched'
  BY <1>1, <1>2 DEF AccountsUntouched
<1>4. CASE /\ transaction \in Withdrawals
           /\ pc' = "authorize" /\ req' = Opened("authorize")
           /\ Entries(journal') = Entries(journal) \cup
                 {Event("host.authorization_requested", Name, NoCode)}
  <2> DEFINE new == {Event("host.authorization_requested", Name, NoCode)}
  <2>1. Entries(journal') = Entries(journal) \cup new
    BY <1>4
  <2>2. \A e \in new : e.type \notin TerminalTypes
    BY EventFields DEF TerminalTypes
  <2> HIDE DEF new
  <2>3. req'["dispense"] = "idle" /\ req'["accept"] = "idle"
    BY <1>1, <1>4, MoneyCalls DEF Untouched
  <2>4. \A e \in Entries(journal') : e.type \notin TerminalTypes
    BY <1>1, <2>1, <2>2, NoOutcomeStep
  <2>5. Phase'
    BY <1>2, <1>3, <1>4, <2>3, <2>4 DEF Phase, PromptStates
  <2>6. DispenseAuthorized'
    BY <2>3 DEF DispenseAuthorized
  <2> QED BY <1>1, <1>3, <2>1, <2>2, <2>5, <2>6, GoesOnStep
<1>5. CASE /\ transaction = "CashDeposit"
           /\ pc' = "accept" /\ req' = Opened("accept")
           /\ journal' = journal
  <2> DEFINE new == {}
  <2>1. Entries(journal') = Entries(journal) \cup new
    BY <1>5
  <2>2. \A e \in new : e.type \notin TerminalTypes
    OBVIOUS
  <2> HIDE DEF new
  <2>3. req'["authorize"] = "idle" /\ req'["dispense"] = "idle"
    BY <1>1, <1>5, MoneyCalls DEF Untouched
  <2>4. \A e \in Entries(journal') : e.type \notin TerminalTypes
    BY <1>1, <2>1, <2>2, NoOutcomeStep
  <2>5. Phase'
    BY <1>2, <1>3, <1>5, <2>3, <2>4 DEF Phase, PromptStates
  <2>6. DispenseAuthorized'
    BY <2>3 DEF DispenseAuthorized
  <2> QED BY <1>1, <1>3, <2>1, <2>2, <2>5, <2>6, GoesOnStep
<1> QED BY <1>4, <1>5, AnswerConfirmStep

LEMMA StatusSafe ==
    ASSUME TypeOK, Safe, pc = "getStatus", NEW status \in {"up", "down"},
           NEW events \in Seq(Events), StatusSettled(status, events),
           \A e \in Entries(events) : e.type = "device.status_changed"
    PROVE  Safe'
<1> DEFINE new == Entries(events)
<1>1. /\ Entries(journal') = Entries(journal) \cup new
      /\ accounts' = accounts
      /\ pc' \in Before
      /\ req' = req \/ req' = Opened("readCard")
  BY StatusStep DEF Before
<1>2. \A e \in new : e.type \notin TerminalTypes
  BY DEF TerminalTypes
<1>3. \A k \in {"authorize", "dispense", "accept"} : req'[k] = req[k]
  BY <1>1, MoneyCalls
<1> HIDE DEF new
<1> QED BY <1>1, <1>2, <1>3, EarlyStep DEF Before

LEMMA CardSafe ==
    ASSUME TypeOK, Safe, pc = "readCard", NEW ok \in BOOLEAN,
           NEW code \in SettledCodes, ~ok => code \in EventCodes,
           CardSettled(ok, code)
    PROVE  Safe'
<1> DEFINE d == Event("flow.failed", NoTransaction, NoCode)
           e == Event("transaction.failed", "CustomerIdentification", code)
<1>1. /\ accounts' = accounts /\ req' = req
      /\ \/ pc' = "pin" /\ journal' = journal
         \/ pc' = "failed" /\ Entries(journal') = Entries(journal) \cup {e, d}
  BY CardStep
<1>2. d.type \notin TerminalTypes /\ e.type # "transaction.completed"
  BY EventFields DEF TerminalTypes
<1>3. pc \in Before /\ "pin" \in Before
  BY DEF Before, PromptStates
<1> HIDE DEF d, e
<1>4. CASE pc' = "pin" /\ journal' = journal
  BY <1>1, <1>3, <1>4, EarlySilentStep
<1>5. CASE pc' = "failed" /\ Entries(journal') = Entries(journal) \cup {d, e}
  BY <1>1, <1>2, <1>3, <1>5, EarlyEventStep
<1> QED BY <1>1, <1>4, <1>5

LEMMA ApprovalStays ==
    ASSUME DispenseAuthorized, transaction' = transaction, NEW new,
           Entries(journal') = Entries(journal) \cup new,
           req'["dispense"] = req["dispense"], req'["authorize"] = req["authorize"]
    PROVE  DispenseAuthorized'
<1>1. Name' = Name
  BY DEF Name
<1> DEFINE approval == Event("host.authorization_result", Name, "HOST_APPROVED")
<1>2. approval' = approval
  BY <1>1 DEF Event, NoReport
<1> QED BY <1>2, Zenon DEF DispenseAuthorized

LEMMA AuthorizeSafe ==
    ASSUME TypeOK, Safe, pc = "authorize", NEW ok \in BOOLEAN,
           NEW code \in SettledCodes, ~ok => code \in EventCodes,
           ok => req["authorize"] = "ok", AuthorizeSettled(ok, code)
    PROVE  Safe'
<1> DEFINE a == Event("host.authorization_result", Name, "HOST_APPROVED")
           d == Event("host.authorization_result", Name, code)
           e == Event("transaction.failed", Name, code)
<1>1. /\ accounts' = accounts /\ transaction' = transaction
      /\ \/ /\ ok /\ pc' = "dispense" /\ req' = Opened("dispense")
            /\ Entries(journal') = Entries(journal) \cup {a}
         \/ /\ ~ok /\ pc' = "done" /\ req' = req
            /\ Entries(journal') = Entries(journal) \cup {d, e}
  BY AuthorizeStep DEF AuthorizeSettled, flowVars
<1>2. /\ transaction \in Withdrawals /\ AccountsUntouched
      /\ req["dispense"] = "idle" /\ req["accept"] = "idle" /\ ~Ended
  BY DEF Safe, Phase, Ended
<1>3. AccountsUntouched'
  BY <1>1, <1>2 DEF AccountsUntouched
<1>4. /\ a.type \notin TerminalTypes
      /\ d.type = "host.authorization_result" /\ e.type = "transaction.failed"
  BY EventFields DEF TerminalTypes
<1>5. a' = a
  BY <1>1 DEF Event, NoReport, Name
<1>6. CASE /\ ok /\ pc' = "dispense" /\ req' = Opened("dispense")
           /\ Entries(journal') = Entries(journal) \cup {a}
  <2> DEFINE new == {a}
  <2>1. a' \in Entries(journal')
    BY <1>5, <1>6
  <2> USE <1>4
  <2>2. req'["authorize"] = "ok" /\ req'["accept"] = "idle"
    BY <1>2, <1>6, MoneyCalls
  <2>3. DispenseAuthorized'
    BY <2>1, <2>2 DEF DispenseAuthorized
  <2> HIDE DEF a
  <2>4. /\ Entries(journal') = Entries(journal) \cup new
        /\ \A f \in new : f.type \notin TerminalTypes
    BY <1>6
  <2> HIDE DEF new
  <2>5. \A f \in Entries(journal') : f.type \notin TerminalTypes
    BY <1>2, <2>4, NoOutcomeStep
  <2>6. Phase'
    BY <1>1, <1>2, <1>3, <1>6, <2>2, <2>5 DEF Phase, PromptStates
  <2> QED BY <1>2, <1>3, <2>3, <2>4, <2>6, GoesOnStep
<1>7. CASE /\ pc' = "done" /\ req' = req
           /\ Entries(journal') = Entries(journal) \cup {d, e}
  <2> DEFINE new == {d, e}
  <2> HIDE DEF a, d, e
  <2>1. /\ ~AtLarge("dispense")' /\ ~AtLarge("accept")'
        /\ DispenseAuthorized'
    BY <1>2, <1>7 DEF AtLarge, DispenseAuthorized
  <2>2. /\ Entries(journal') = Entries(journal) \cup new
        /\ \A f \in new : f.type \notin {"transaction.cancelled", "transaction.completed"}
    BY <1>4, <1>7
  <2> HIDE DEF new
  <2> QED BY <1>2, <1>3, <1>7, <2>1, <2>2, EndingStep
<1> QED BY <1>1, <1>6, <1>7

\* A cash movement that did not happen, or of which nothing is known.
LEMMA CashRefusedSafe ==
    ASSUME TypeOK, Safe, pc \in CashMoves, NEW code \in EventCodes,
           code = "ADAPTER_OUTCOME_UNKNOWN" \/ ~AtLarge(pc),
           CashRefused(code)
    PROVE  Safe'
<1> DEFINE d == Event("transaction.reconciliation_required", Name, code)
           e == Event("transaction.failed", Name, code)
           new == IF code = "ADAPTER_OUTCOME_UNKNOWN" THEN {d} ELSE {e}
<1>1. /\ accounts' = accounts /\ req' = req /\ pc' = "done"
      /\ transaction' = transaction
  BY CashRefusedStep DEF CashRefused, flowVars
<1>2. Entries(journal') = Entries(journal) \cup new
  BY CashRefusedStep
<1>3. AccountsUntouched /\ ~Ended /\ DispenseAuthorized
  BY DEF Safe, Phase, CashMoves, Ended
<1>4. AccountsUntouched'
  BY <1>1, <1>3 DEF AccountsUntouched
<1>5. code # "ADAPTER_OUTCOME_UNKNOWN" => ~AtLarge("dispense")' /\ ~AtLarge("accept")'
  BY <1>1 DEF Safe, Phase, CashMoves, AtLarge
<1>6. /\ d.type = "transaction.reconciliation_required"
      /\ e.type = "transaction.failed"
  BY EventFields
<1> HIDE DEF d, e
<1>7. \A f \in new :
         /\ f.type \notin {"transaction.cancelled", "transaction.completed"}
         /\ f.type = "transaction.failed" => ~AtLarge("dispense")' /\ ~AtLarge("accept")'
  BY <1>5, <1>6
<1> HIDE DEF new
<1>8. DispenseAuthorized'
  BY <1>1, <1>2, <1>3, ApprovalStays
<1> QED BY <1>1, <1>2, <1>3, <1>4, <1>7, <1>8, EndingStep

LEMMA DispenseSafe ==
    ASSUME TypeOK, Safe, pc = "dispense", NEW ok \in BOOLEAN,
           NEW code \in SettledCodes, ~ok => code \in EventCodes,
           ok => req["dispense"] = "ok",
           ~ok => code = "ADAPTER_OUTCOME_UNKNOWN" \/ ~AtLarge("dispense"),
           DispenseSettled(ok, code)
    PROVE  Safe'
<1>1. CASE ~ok /\ CashRefused(code)
  BY <1>1, CashRefusedSafe DEF CashMoves
<1>2. CASE /\ ok
           /\ accounts' = [accounts EXCEPT ![account] = @ - amount]
           /\ \/ /\ pc' = "failed" /\ req' = req
                 /\ Entries(journal') = Entries(journal) \cup
                       {Event("flow.failed", NoTransaction, NoCode)}
              \/ pc' = "print" /\ req' = Opened("print") /\ journal' = journal
  <2> DEFINE failure == Event("flow.failed", NoTransaction, NoCode)
  <2>1. /\ account' = account /\ amount' = amount /\ transaction' = transaction
    BY <1>2 DEF DispenseSettled, CashRefused, flowVars
  <2>2. /\ transaction \in Withdrawals /\ AccountsUntouched /\ ~Ended
        /\ req["authorize"] = "ok" /\ req["accept"] = "idle"
        /\ DispenseAuthorized
    BY DEF Safe, Phase, Ended
  <2>3. accounts' = [a \in Accounts |-> IF a = account THEN InitialBalance - amount
                                                       ELSE InitialBalance]
    BY <1>2, <2>2 DEF AccountsUntouched, TypeOK
  <2>4. /\ req'["authorize"] = "ok" /\ req'["dispense"] = "ok"
        /\ req'["accept"] = "idle"
    BY <1>2, <2>2, MoneyCalls
  <2>5. failure.type \notin TerminalTypes /\ failure.type \notin
             {"transaction.cancelled", "transaction.completed", "transaction.failed"}
    BY EventFields DEF TerminalTypes
  <2> HIDE DEF failure
  <2>6. CASE pc' = "failed" /\ Entries(journal') = Entries(journal) \cup {failure}
    <3> DEFINE new == {failure}
    <3>1. Entries(journal') = Entries(journal) \cup new
      BY <2>6
    <3>2. \A f \in new : f.type \notin
             {"transaction.cancelled", "transaction.completed", "transaction.failed"}
      BY <2>5
    <3> HIDE DEF new
    <3>3. DispenseAuthorized'
      BY <1>2, <2>1, <2>2, <2>4, <3>1, ApprovalStays
    <3> QED BY <2>2, <2>4, <2>6, <3>1, <3>2, <3>3, EndingStep
  <2>7. CASE pc' = "print" /\ req' = Opened("print") /\ journal' = journal
    <3> DEFINE new == {}
    <3>1. Entries(journal') = Entries(journal) \cup new
      BY <2>7
    <3>2. \A f \in new : f.type \notin TerminalTypes
      OBVIOUS
    <3> HIDE DEF new
    <3>3. DispenseAuthorized'
      BY <1>2, <2>1, <2>2, <2>4, <3>1, ApprovalStays
    <3>4. \A e \in Entries(journal') : e.type \notin TerminalTypes
      BY <2>2, <3>1, <3>2, NoOutcomeStep
    <3>5. Phase'
      BY <2>1, <2>2, <2>3, <2>4, <2>7, <3>4 DEF Phase, PromptStates
    <3> QED BY <2>2, <2>4, <3>1, <3>2, <3>3, <3>5, GoesOnStep
  <2> QED BY <1>2, <2>6, <2>7 DEF failure
<1> QED BY <1>1, <1>2, DispenseStep

LEMMA AcceptSafe ==
    ASSUME TypeOK, Safe, pc = "accept", NEW ok \in BOOLEAN,
           NEW code \in SettledCodes, ~ok => code \in EventCodes,
           ok => req["accept"] = "ok",
           ~ok => code = "ADAPTER_OUTCOME_UNKNOWN" \/ ~AtLarge("accept"),
           AcceptSettled(ok, code)
    PROVE  Safe'
<1>1. CASE ~ok /\ CashRefused(code)
  BY <1>1, CashRefusedSafe DEF CashMoves
<1>2. CASE /\ ok /\ pc' = "done" /\ req' = req
           /\ accounts' = [accounts EXCEPT ![account] = @ + amount]
           /\ Entries(journal') = Entries(journal) \cup
                 {Completed(Name, accounts', {cash})}
  <2> DEFINE e == Completed(Name, accounts', {cash})
             new == {e}
  <2>1. /\ account' = account /\ amount' = amount /\ transaction' = transaction
    BY <1>2 DEF AcceptSettled, CashRefused, flowVars
  <2>2. /\ transaction = "CashDeposit" /\ AccountsUntouched /\ ~Ended
        /\ DispenseAuthorized
    BY DEF Safe, Phase, Ended
  <2>3. accounts'[account'] = InitialBalance + amount'
    BY <1>2, <2>1, <2>2 DEF AccountsUntouched, TypeOK
  <2>4. /\ e.type = "transaction.completed"
        /\ e.transaction = "CashDeposit"
    BY <2>2, ReportingEventFields, CashTransactionNames DEF Completed, Name
  <2> HIDE DEF e
  <2>5. Entries(journal') = Entries(journal) \cup new
    BY <1>2 DEF e
  <2>6. \A f \in new : f.type = "transaction.completed" /\ f.transaction = "CashDeposit"
    BY <2>4
  <2> HIDE DEF new
  <2>7. DispenseAuthorized'
    BY <1>2, <2>1, <2>2, <2>5, ApprovalStays
  <2> QED BY <1>2, <2>2, <2>3, <2>5, <2>6, <2>7, EndingStep
<1> QED BY <1>1, <1>2, AcceptStep

LEMMA PrintSafe ==
    ASSUME TypeOK, Safe, pc = "print", NEW ok \in BOOLEAN,
           NEW code \in SettledCodes, ~ok => code \in EventCodes,
           PrintSettled(ok, code)
    PROVE  Safe'
<1> DEFINE d == Event("device.status_changed", Name, code)
           trouble == IF ok THEN {} ELSE {d}
<1>1. PICK money \in SUBSET Int :
         Entries(journal') = Entries(journal) \cup trouble
                                \cup {Completed(Name, accounts, money)}
  BY PrintStep
<1> DEFINE e == Completed(Name, accounts, money)
           new == trouble \cup {e}
<1>2. /\ pc' = "done" /\ req' = req /\ accounts' = accounts
      /\ account' = account /\ amount' = amount /\ transaction' = transaction
  BY PrintStep DEF PrintSettled, flowVars
<1>3. /\ e.type = "transaction.completed" /\ e.transaction = Name
      /\ d.type = "device.status_changed"
  BY EventFields, ReportingEventFields DEF Completed
<1>4. ~Ended /\ DispenseAuthorized
  BY DEF Safe, Ended
<1> HIDE DEF d, e
<1>5. /\ Entries(journal') = Entries(journal) \cup new
      /\ \A f \in new : \/ f.type = "device.status_changed"
                        \/ f.type = "transaction.completed" /\ f.transaction = Name
  BY <1>1, <1>3 DEF e
<1> HIDE DEF new
<1>6. DispenseAuthorized'
  BY <1>2, <1>4, <1>5, ApprovalStays
<1>7. CASE /\ transaction \in Withdrawals
           /\ req["authorize"] = "ok" /\ req["dispense"] = "ok"
           /\ accounts = [a \in Accounts |->
                             IF a = account THEN InitialBalance - amount
                                            ELSE InitialBalance]
  <2>1. Name \in CashNames \ {"CashDeposit"}
    BY <1>7, CashTransactionNames DEF Name
  <2>2. accounts'[account'] = InitialBalance - amount'
    BY <1>2, <1>7 DEF TypeOK
  <2> QED BY <1>2, <1>4, <1>5, <1>6, <1>7, <2>1, <2>2, EndingStep
<1>8. CASE transaction = "BalanceInquiry" /\ Untouched /\ AccountsUntouched
  <2>1. Name \notin CashNames
    BY <1>8, CashTransactionNames DEF Name
  <2>2. AccountsUntouched'
    BY <1>2, <1>8 DEF AccountsUntouched
  <2> QED BY <1>2, <1>4, <1>5, <1>6, <1>8, <2>1, <2>2, EndingStep
<1> QED BY <1>7, <1>8 DEF Safe, Phase

\* An exception of the reader, the host or a cash device ends the session; the
\* request may still take effect, and no outcome is journaled.
LEMMA AdapterThrowsSafe ==
    ASSUME TypeOK, Safe, pc \in {"readCard", "authorize", "dispense", "accept"},
           pc' = "failed", accounts' = accounts, req' = req,
           transaction' = transaction,
           Entries(journal') = Entries(journal) \cup
              {Event("flow.failed", NoTransaction, NoCode)}
    PROVE  Safe'
<1> DEFINE failure == Event("flow.failed", NoTransaction, NoCode)
           new == {failure}
<1>1. failure.type = "flow.failed"
  BY EventFields
<1> HIDE DEF failure
<1>2. /\ Entries(journal') = Entries(journal) \cup new
      /\ \A f \in new : f.type = "flow.failed"
  BY <1>1 DEF failure
<1> HIDE DEF new
<1>3. AccountsUntouched /\ ~Ended /\ DispenseAuthorized
  BY DEF Safe, Phase, Ended
<1>4. AccountsUntouched'
  BY <1>3 DEF AccountsUntouched
<1>5. DispenseAuthorized'
  BY <1>2, <1>3, ApprovalStays
<1> QED BY <1>2, <1>3, <1>4, <1>5, EndingStep

LEMMA CallSafe ==
    ASSUME TypeOK, Safe, NEW k \in Calls, Call(k)
    PROVE  Safe'
<1>1. CASE Throws(k)
  <2>1. ASSUME k = "getStatus", NEW events \in Seq(Events),
               StatusSettled("down", events),
               \A e \in Entries(events) : e.type = "device.status_changed"
        PROVE  Safe'
    BY <1>1, <2>1, StatusSafe, ThrowsStep
  <2>2. ASSUME k = "print", PrintSettled(FALSE, "RECEIPT_ERROR")
        PROVE  Safe'
    BY <1>1, <2>2, PrintSafe, ThrowsStep, CommonCodes DEF SettledCodes
  <2>3. ASSUME k \notin {"getStatus", "print"}
        PROVE  Safe'
    <3>1. /\ pc = k /\ pc' = "failed" /\ accounts' = accounts /\ req' = req
          /\ transaction' = transaction
          /\ Entries(journal') = Entries(journal) \cup
                {Event("flow.failed", NoTransaction, NoCode)}
      BY <1>1, <2>3, ThrowsStep DEF Throws, flowVars
    <3> QED BY <2>3, <3>1, AdapterThrowsSafe, MoneyCalls
  <2> QED BY <1>1, <2>1, <2>2, <2>3, ThrowsStep
<1>2. ASSUME NEW ok \in BOOLEAN, NEW code \in SettledCodes, pc = k,
             Settled(k, ok, code),
             ~ok => code \in EventCodes,
             ok => req[k] = "ok",
             ~ok /\ k \in CashMoves => code = "ADAPTER_OUTCOME_UNKNOWN" \/ ~AtLarge(k)
      PROVE  Safe'
  <2>1. CASE k = "getStatus" /\ StatusSettled(IF ok THEN "up" ELSE "down", <<>>)
    <3>1. <<>> \in Seq(Events) /\ Entries(<<>>) = {}
      BY DEF Entries
    <3> QED BY <1>2, <2>1, <3>1, StatusSafe
  <2>2. CASE k = "readCard" /\ CardSettled(ok, code)
    BY <1>2, <2>2, CardSafe
  <2>3. CASE k = "authorize" /\ AuthorizeSettled(ok, code)
    BY <1>2, <2>3, AuthorizeSafe
  <2>4. CASE k = "dispense" /\ DispenseSettled(ok, code)
    BY <1>2, <2>4, DispenseSafe DEF CashMoves
  <2>5. CASE k = "accept" /\ AcceptSettled(ok, code)
    BY <1>2, <2>5, AcceptSafe DEF CashMoves
  <2>6. CASE k = "print" /\ PrintSettled(ok, code)
    BY <1>2, <2>6, PrintSafe
  <2> QED BY <1>2, <2>1, <2>2, <2>3, <2>4, <2>5, <2>6 DEF Settled
<1> QED BY <1>1, <1>2, CallSettles

\* A service decides on an open request, perhaps long after the session has
\* ended; nothing the session has concluded depends on an open request.
LEMMA ServiceSafe ==
    ASSUME TypeOK, Safe, NEW k \in Calls, NEW result \in {"ok"} \cup AllRefusals,
           Outcome(k, result)
    PROVE  Safe'
<1>1. /\ UNCHANGED <<pc, transaction, account, amount, journal, accounts>>
      /\ req[k] = "open" /\ req' = [req EXCEPT ![k] = result]
  BY DEF Outcome, flowVars
<1>2. \A j \in Calls : req[j] # "open" => req'[j] = req[j]
  BY <1>1 DEF TypeOK
<1>3. {"authorize", "dispense", "accept"} \subseteq Calls
  BY DEF Calls
<1>4. /\ \A j \in Calls : req[j] = "idle" => req'[j] = "idle"
      /\ \A j \in Calls : req[j] = "ok" => req'[j] = "ok"
      /\ \A j \in Calls : req'[j] # "idle" => req[j] # "idle"
      /\ \A j \in Calls : ~AtLarge(j) => ~AtLarge(j)'
  <2>1. req[k] = "open"
    BY <1>1
  <2>2. \A j \in Calls \ {k} : req'[j] = req[j]
    BY <1>1 DEF TypeOK
  <2> QED BY <2>1, <2>2 DEF AtLarge
<1>5. Untouched => Untouched'
  BY <1>3, <1>4 DEF Untouched
<1>6. AccountsUntouched' <=> AccountsUntouched
  BY <1>1 DEF AccountsUntouched
<1>7. Phase'
  BY <1>1, <1>3, <1>4, <1>5, <1>6 DEF Safe, Phase, Ended
<1>8. DispenseAuthorized'
  BY <1>1, <1>3, <1>4 DEF Safe, DispenseAuthorized, Name, Event, NoReport
<1>9. CompletedMeansMoved'
  BY <1>1, <1>3, <1>4 DEF Safe, CompletedMeansMoved, Journaled
<1>10. FailedMeansNotMoved'
  BY <1>1, <1>3, <1>4 DEF Safe, FailedMeansNotMoved, Journaled
<1>11. CancelledMeansUntouched'
  BY <1>1, <1>3, <1>4, <1>5, <1>6 DEF Safe, CancelledMeansUntouched, Journaled
<1> QED BY <1>7, <1>8, <1>9, <1>10, <1>11 DEF Safe
-----------------------------------------------------------------------------
LEMMA CustomerSafe ==
    ASSUME TypeOK, Safe, Customer
    PROVE  Safe'
BY EnterPinSafe, AnswerPrinterDownSafe, SelectTransactionSafe, AnswerSafe,
   AnswerConfirmSafe, CancelSafe, BalanceDisplaySafe, AdjustmentSafe,
   RejectSafe, Zenon DEF Customer

LEMMA SafeStep == TypeOK /\ Safe /\ [Next]_vars => Safe'
<1> SUFFICES ASSUME TypeOK, Safe, [Next]_vars PROVE Safe'
  OBVIOUS
<1>1. ASSUME NEW type \in CustomerTypes, Load(type) PROVE Safe'
  BY <1>1, LoadSafe
<1>2. CASE LoadFails
  BY <1>2, LoadFailsSafe
<1>3. CASE Customer
  BY <1>3, CustomerSafe
<1>4. ASSUME NEW k \in Calls, Call(k) PROVE Safe'
  BY <1>4, CallSafe
<1>5. CASE Simulates \/ \E k \in Calls : Service(k)
  BY <1>5, ServiceDecides, ServiceSafe, Zenon
<1>6. CASE UNCHANGED vars
  BY <1>6 DEF vars, flowVars, cashVars, Safe, Phase, DispenseAuthorized,
              CompletedMeansMoved, FailedMeansNotMoved, CancelledMeansUntouched,
              Untouched, AccountsUntouched, Journaled, AtLarge, Ended, Name,
              Event, NoReport
<1> QED BY <1>1, <1>2, <1>3, <1>4, <1>5, <1>6, Zenon DEF Next

LEMMA SpecSafe == Spec => []Safe
BY InitSafe, SafeStep, SpecTypeOK, PTL DEF Spec

\* Where a session waits tells what has happened to money so far (the order of
\* the adapter calls in the Execute methods).
THEOREM SpecPhase == Spec => []Phase
<1>1. Safe => Phase
  BY DEF Safe
<1> QED BY <1>1, SpecSafe, PTL

\* The dispenser is only ever asked after the journaled approval of this
\* transaction (CashWithdrawalModule.Execute).
THEOREM SpecDispenseAuthorized == Spec => []DispenseAuthorized
<1>1. Safe => DispenseAuthorized
  BY DEF Safe
<1> QED BY <1>1, SpecSafe, PTL

\* A cash transaction journaled as completed moved cash and was booked once
\* (CashWithdrawalModule.Execute, CashDepositModule.Execute).
THEOREM SpecCompletedMeansMoved == Spec => []CompletedMeansMoved
<1>1. Safe => CompletedMeansMoved
  BY DEF Safe
<1> QED BY <1>1, SpecSafe, PTL

\* A cash transaction journaled as failed moved no cash and never will, however
\* late a device acts after the runtime's timer (callAdapter).
THEOREM SpecFailedMeansNotMoved == Spec => []FailedMeansNotMoved
<1>1. Safe => FailedMeansNotMoved
  BY DEF Safe
<1> QED BY <1>1, SpecSafe, PTL

\* A cancelled session has asked for no authorization and no cash, and an
\* account only changes together with a movement of cash.
THEOREM SpecCancelledMeansUntouched == Spec => []CancelledMeansUntouched
<1>1. Safe => CancelledMeansUntouched
  BY DEF Safe
<1> QED BY <1>1, SpecSafe, PTL

\* Whatever outcome the journal gives a cash transaction is true of the cash
\* and of the account (the outcomes journaled by the Execute methods).
THEOREM SpecOutcomeTruthful == Spec => []OutcomeTruthful
<1>1. Safe => OutcomeTruthful
  BY DEF Safe, OutcomeTruthful
<1> QED BY <1>1, SpecSafe, PTL
-----------------------------------------------------------------------------
\* A session that has ended does and writes nothing; only services still act.
LEMMA EndedIsSilent ==
    ASSUME TypeOK, Ended, [Next]_vars
    PROVE  /\ journal' = journal
           /\ UNCHANGED <<pc, flowVars, accounts>>
<1>1. pc \notin Before /\ pc \notin Calls
  BY DEF Ended, Before, PromptStates, Calls
<1>2. ~ \E type \in CustomerTypes : Load(type)
  BY <1>1, Zenon DEF Load, Before
<1>3. ~LoadFails
  BY <1>1, Zenon DEF LoadFails, Before
<1>4. ~Customer
  BY DEF Ended, Customer, EnterPin, AnswerPrinterDown, SelectTransaction,
         AnswerAccount, AnswerAmount, AnswerAccess, AnswerConfirm,
         CancelTransaction, AnswerBalanceDisplay, AnswerAdjustment,
         RejectPrompt, Asking
<1>5. \A k \in Calls : ~Call(k)
  BY <1>1, CallSettles
<1>6. CASE Simulates \/ \E k \in Calls : Service(k)
  BY <1>6, ServiceDecides DEF Outcome
<1>7. CASE UNCHANGED vars
  BY <1>7 DEF vars
<1> QED BY <1>2, <1>3, <1>4, <1>5, <1>6, <1>7, Zenon DEF Next

\* Once a transaction's outcome is in the journal nothing follows it: no second
\* outcome, and no flow failure after it (runFlow, callAdapter).
THEOREM SpecOneOutcome == Spec => OneOutcome
<1> DEFINE Step == (\E e \in Entries(journal) : e.type \in TerminalTypes) =>
                       UNCHANGED journal
<1>1. TypeOK /\ Safe /\ [Next]_vars => [Step]_journal
  <2> SUFFICES ASSUME TypeOK, Safe, [Next]_vars,
                      NEW e \in Entries(journal), e.type \in TerminalTypes
               PROVE  journal' = journal
    OBVIOUS
  <2>1. Ended
    BY DEF Safe, Phase
  <2> QED BY <2>1, EndedIsSilent
<1>2. Spec => [][Step]_journal
  BY <1>1, SpecTypeOK, SpecSafe, PTL DEF Spec
<1> QED BY <1>2 DEF OneOutcome
-----------------------------------------------------------------------------
(***************************************************************************)
(* Every request is sent once.                                             *)
(***************************************************************************)
\* Requests that are still to be made have not been made.
Asked ==
    /\ pc = "load" => req["getStatus"] = "idle"
    /\ pc \in {"load", "getStatus"} => req["readCard"] = "idle"
    /\ pc \in (Calls \cup Before) \ {"print"} => req["print"] = "idle"

\* A step asks nothing, or asks for what the session then waits for.
Asks ==
    \/ /\ req' = req
       /\ pc' \in {"done", "failed"} \/ (pc \in Before /\ pc' \in PromptStates)
    \/ pc = "load" /\ pc' = "getStatus" /\ req' = Opened("getStatus")
    \/ pc = "getStatus" /\ pc' = "readCard" /\ req' = Opened("readCard")
    \/ pc = "prompt" /\ pc' \in {"authorize", "accept"} /\ req' = Opened(pc')
    \/ pc = "authorize" /\ pc' = "dispense" /\ req' = Opened("dispense")
    \/ pc \in {"prompt", "dispense"} /\ pc' = "print" /\ req' = Opened("print")

LEMMA CustomerAsks == Customer => Asks
<1> USE DEF Asks, Before, PromptStates
<1>1. EnterPin => Asks
  BY DEF EnterPin, StartLoop, AskTransaction
<1>2. \A goOn \in BOOLEAN : AnswerPrinterDown(goOn) => Asks
  BY DEF AnswerPrinterDown, AskTransaction
<1>3. \A t \in Transactions \cup {UnknownTransaction} : SelectTransaction(t) => Asks
  BY DEF SelectTransaction, ExecuteReport
<1>4. \A a : AnswerAccount(a) \/ AnswerAmount(a) => Asks
  BY DEF AnswerAccount, AnswerAmount, Asking, NextPrompt
<1>5. AnswerAccess \/ CancelTransaction \/ RejectPrompt => Asks
  BY DEF AnswerAccess, CancelTransaction, RejectPrompt, FailFlow, Asking, NextPrompt
<1>6. AnswerConfirm => Asks
  BY DEF AnswerConfirm, BeginWithdrawal, BeginDeposit, Asking
<1>7. \A display \in BOOLEAN : AnswerBalanceDisplay(display) => Asks
  BY DEF AnswerBalanceDisplay, BeginBalanceInquiry, FailFlow, Asking
<1>8. \A direction, a : AnswerAdjustment(direction, a) => Asks
  BY DEF AnswerAdjustment, ExecuteAdjustment, FailFlow, Asking
<1> QED BY <1>1, <1>2, <1>3, <1>4, <1>5, <1>6, <1>7, <1>8, Zenon DEF Customer

LEMMA CallAsks ==
    ASSUME TypeOK, NEW k \in Calls, Call(k)
    PROVE  Asks
<1> USE DEF Asks, Before, PromptStates
<1>1. ASSUME pc = "getStatus", NEW status, NEW events, StatusSettled(status, events)
      PROVE  Asks
  BY <1>1 DEF StatusSettled, StartLoop, AskTransaction
<1>2. ASSUME pc = "readCard", NEW ok, NEW code, CardSettled(ok, code)
      PROVE  Asks
  BY <1>2 DEF CardSettled, FailFlow
<1>3. ASSUME pc = "authorize", NEW ok, NEW code, AuthorizeSettled(ok, code)
      PROVE  Asks
  BY <1>3 DEF AuthorizeSettled
<1>4. ASSUME pc = "dispense", NEW ok, NEW code, DispenseSettled(ok, code)
      PROVE  Asks
  BY <1>4 DEF DispenseSettled, CashRefused, FailFlow
<1>5. ASSUME NEW ok, NEW code, AcceptSettled(ok, code)
      PROVE  Asks
  BY <1>5 DEF AcceptSettled, CashRefused
<1>6. ASSUME NEW ok, NEW code, PrintSettled(ok, code)
      PROVE  Asks
  BY <1>6 DEF PrintSettled
<1>7. ASSUME pc = k, NEW ok, NEW code, Settled(k, ok, code)
      PROVE  Asks
  BY <1>1, <1>2, <1>3, <1>4, <1>5, <1>6, <1>7, Zenon DEF Settled
<1>8. ASSUME Throws(k)
      PROVE  Asks
  <2>1. ASSUME k \notin {"getStatus", "print"}, FailFlow(<<>>), req' = req
        PROVE  Asks
    BY <2>1 DEF FailFlow
  <2> QED BY <1>1, <1>6, <1>8, <2>1, Zenon DEF Throws
<1> QED BY <1>7, <1>8, CallSettles, Zenon

LEMMA NextAsks ==
    ASSUME TypeOK, [Next]_vars
    PROVE  \/ UNCHANGED <<pc, req>>
           \/ /\ pc' = pc
              /\ UNCHANGED <<flowVars, journal, accounts>>
              /\ \E k \in Calls : \E result \in {"ok"} \cup Refusals[k] :
                    req[k] = "open" /\ req' = [req EXCEPT ![k] = result]
           \/ Asks
<1>1. \A type \in CustomerTypes : Load(type) => Asks
  BY DEF Load, Asks
<1>2. LoadFails => Asks
  BY DEF LoadFails, FailFlow, Asks
<1>3. Simulates \/ (\E k \in Calls : Service(k)) =>
         /\ pc' = pc
         /\ UNCHANGED <<flowVars, journal, accounts>>
         /\ \E k \in Calls : \E result \in {"ok"} \cup Refusals[k] :
               req[k] = "open" /\ req' = [req EXCEPT ![k] = result]
  <2>1. \A k, result : Outcome(k, result) =>
           /\ pc' = pc /\ UNCHANGED <<flowVars, journal, accounts>>
           /\ req[k] = "open" /\ req' = [req EXCEPT ![k] = result]
    BY DEF Outcome
  <2> QED BY <2>1, ServiceAnswers, Zenon
<1>4. UNCHANGED vars => UNCHANGED <<pc, req>>
  BY DEF vars
<1> QED BY <1>1, <1>2, <1>3, <1>4, CustomerAsks, CallAsks, Zenon DEF Next

\* No refusal is called "idle", "open" or "ok".
LEMMA RefusalsDecide ==
    \A k \in Calls : Refusals[k] \cap {"idle", "open", "ok"} = {}
BY DEF Refusals, Calls

LEMMA AskedKept ==
    ASSUME TypeOK, Asked, [Next]_vars
    PROVE  Asked'
<1> USE DEF Calls, Before, PromptStates
<1>1. CASE UNCHANGED <<pc, req>>
  BY <1>1 DEF Asked
<1>2. ASSUME pc' = pc, NEW k \in Calls, NEW result, req[k] = "open", req' = [req EXCEPT ![k] = result]
      PROVE  Asked'
  <2>1. \A j \in Calls : req[j] = "idle" => req'[j] = "idle"
    BY <1>2 DEF TypeOK
  <2> QED BY <1>2, <2>1 DEF Asked
<1>3. CASE Asks
  <2>1. \A j, k \in Calls : j # k => Opened(k)[j] = req[j]
    BY DEF Opened, TypeOK
  <2>2. CASE req' = req
    BY <1>3, <2>2 DEF Asks, Asked
  <2>3. CASE \/ pc = "load" /\ pc' = "getStatus" /\ req' = Opened("getStatus")
             \/ pc = "getStatus" /\ pc' = "readCard" /\ req' = Opened("readCard")
    BY <2>1, <2>3 DEF Asked
  <2>4. CASE \/ pc = "prompt" /\ pc' \in {"authorize", "accept"} /\ req' = Opened(pc')
             \/ pc = "authorize" /\ pc' = "dispense" /\ req' = Opened("dispense")
             \/ pc' = "print"
    <3>1. pc' # "print" => req'["print"] = req["print"] /\ pc # "print" /\ pc \in Calls \cup Before
      BY <2>1, <2>4
    <3> QED BY <2>4, <3>1 DEF Asked
  <2> QED BY <1>3, <2>2, <2>3, <2>4 DEF Asks
<1> QED BY <1>1, <1>2, <1>3, NextAsks

LEMMA SpecAsked == Spec => []Asked
<1>1. Init => Asked
  BY DEF Init, Asked, Calls
<1> QED BY <1>1, AskedKept, SpecTypeOK, PTL DEF Spec

LEMMA AskedOnce ==
    ASSUME TypeOK, Safe, Asked, [Next]_vars
    PROVE  \A k \in Calls : req'[k] # req[k] =>
              \/ req[k] = "idle" /\ req'[k] = "open" /\ pc' = k
              \/ req[k] = "open" /\ req'[k] # "idle"
<1> SUFFICES ASSUME NEW k \in Calls, req'[k] # req[k]
             PROVE  \/ req[k] = "idle" /\ req'[k] = "open" /\ pc' = k
                    \/ req[k] = "open" /\ req'[k] # "idle"
  OBVIOUS
<1>1. ASSUME NEW j \in Calls, NEW result \in {"ok"} \cup Refusals[j],
             req[j] = "open", req' = [req EXCEPT ![j] = result]
      PROVE  req[k] = "open" /\ req'[k] # "idle"
  BY <1>1, RefusalsDecide DEF TypeOK
<1>2. CASE Asks
  <2>1. req # req'
    OBVIOUS
  <2>2. PICK j \in Calls : pc' = j /\ req' = Opened(j) /\ req[j] = "idle"
    <3>1. CASE pc = "load" \/ pc = "getStatus"
      BY <1>2, <2>1, <3>1 DEF Asks, Asked, Calls
    <3>2. CASE pc = "authorize" \/ pc = "prompt"
      BY <1>2, <2>1, <3>2 DEF Asks, Asked, Safe, Phase, Untouched, Calls, Before, PromptStates
    <3>3. CASE pc = "dispense"
      BY <1>2, <2>1, <3>3 DEF Asks, Asked, Calls
    <3> QED BY <1>2, <2>1, <3>1, <3>2, <3>3 DEF Asks
  <2> QED BY <2>2 DEF Opened, TypeOK
<1> QED BY <1>1, <1>2, NextAsks

\* What became of a request is one of the answers to that request.
OwnAnswers == \A k \in Calls : req[k] \in {"idle", "open", "ok"} \cup Refusals[k]

LEMMA OwnAnswersKept ==
    ASSUME TypeOK, OwnAnswers, [Next]_vars
    PROVE  OwnAnswers'
<1>1. ASSUME NEW k \in Calls, NEW result \in {"ok"} \cup Refusals[k],
             req' = [req EXCEPT ![k] = result]
      PROVE  OwnAnswers'
  BY <1>1 DEF OwnAnswers, TypeOK
<1>2. ASSUME NEW k \in Calls, req' = Opened(k)
      PROVE  OwnAnswers'
  BY <1>2 DEF OwnAnswers, TypeOK, Opened
<1>3. CASE UNCHANGED req
  BY <1>3 DEF OwnAnswers
<1>4. CASE Asks
  BY <1>2, <1>3, <1>4 DEF Asks, Calls
<1> QED BY <1>1, <1>3, <1>4, NextAsks

LEMMA SpecOwnAnswers == Spec => []OwnAnswers
<1>1. Init => OwnAnswers
  BY DEF Init, OwnAnswers
<1> QED BY <1>1, OwnAnswersKept, SpecTypeOK, PTL DEF Spec

\* Only the session opens a request, once, and goes on to wait for it; from
\* there its device or host decides it for good: no request is sent again and
\* no answer, timer or late effect changes what became of it (callAdapter and
\* the order of the calls in the Execute methods).
THEOREM SpecNoReissue == Spec => NoReissue
<1> DEFINE Step == \A k \in Calls : req'[k] # req[k] =>
                      \/ req[k] = "idle" /\ req'[k] = "open" /\ pc' = k
                      \/ req[k] = "open" /\ req'[k] # "idle"
<1>1. TypeOK /\ Safe /\ Asked /\ [Next]_vars => [Step]_req
  BY AskedOnce
<1>2. Spec => [][Step]_req
  BY <1>1, SpecTypeOK, SpecSafe, SpecAsked, PTL DEF Spec
<1> QED BY <1>2 DEF NoReissue
-----------------------------------------------------------------------------
(***************************************************************************)
(* Positions in a journal.                                                 *)
(***************************************************************************)
\* A set of numbers that is not empty has a least element.
LEMMA LeastNat ==
    ASSUME NEW T \in SUBSET Nat, T # {}
    PROVE  \E x \in T : \A y \in T : x <= y
<1> DEFINE Below == {ss \in Nat \X Nat : ss[1] < ss[2]}
<1>1. IsWellFoundedOn(Below, Nat)
  BY NatLessThanWellFounded DEF OpToRel
<1>2. PICK x \in T : \A y \in T : ~(<<y, x>> \in Below)
  <2> HIDE DEF Below
  <2> QED BY <1>1, WFMin
<1>3. \A y \in T : ~(y < x)
  BY <1>2
<1> QED BY <1>3

\* Max is what its name says, for the positions below a bound.
LEMMA MaxPosition ==
    ASSUME NEW m \in Int, NEW S \in SUBSET (1 .. m), S # {}
    PROVE  Max(S) \in S /\ \A i \in S : i <= Max(S)
<1> DEFINE T == {m - i : i \in S}
<1>1. /\ T \in SUBSET Nat
      /\ T # {}
  <2>1. \A i \in S : m - i \in Nat
    OBVIOUS
  <2> QED BY <2>1
<1>2. PICK t \in T : \A u \in T : t <= u
  <2> HIDE DEF T
  <2> QED BY <1>1, LeastNat
<1>3. \E x \in S : \A y \in S : x >= y
  <2>1. PICK x \in S : t = m - x
    OBVIOUS
  <2>2. ASSUME NEW y \in S PROVE x >= y
    <3>1. m - y \in T
      OBVIOUS
    <3>2. t <= m - y
      BY <1>2, <3>1
    <3> QED BY <2>1, <3>2
  <2> QED BY <2>2
<1>4. Max(S) \in S /\ \A y \in S : Max(S) >= y
  <2> HIDE DEF T
  <2> QED BY <1>3, Zenon DEF Max
<1> QED BY <1>4
-----------------------------------------------------------------------------
(***************************************************************************)
(* What the recovery classifier makes of a journal.                        *)
(***************************************************************************)
\* LastBefore finds the last event of the types, if there is one.
LEMMA LastBeforeFinds ==
    ASSUME NEW events, NEW bound \in Int, NEW types
    PROVE  /\ \/ LastBefore(events, bound, types) = 0
              \/ /\ LastBefore(events, bound, types) \in 1 .. bound - 1
                 /\ events[LastBefore(events, bound, types)].type \in types
           /\ \A i \in 1 .. bound - 1 : events[i].type \in types =>
                 i <= LastBefore(events, bound, types)
<1> DEFINE found == {i \in 1 .. bound - 1 : events[i].type \in types}
<1>1. found \in SUBSET (1 .. bound - 1)
  OBVIOUS
<1>2. LastBefore(events, bound, types) = IF found = {} THEN 0 ELSE Max(found)
  BY DEF LastBefore
<1>3. CASE found = {}
  BY <1>2, <1>3
<1>4. CASE found # {}
  <2>1. Max(found) \in found /\ \A i \in found : i <= Max(found)
    <3> HIDE DEF found
    <3> QED BY <1>1, <1>4, MaxPosition
  <2> QED BY <1>2, <1>4, <2>1
<1> QED BY <1>3, <1>4

LEMMA DecidingPosition ==
    ASSUME NEW events \in Seq(Events)
    PROVE  DecidingIndex(events) \in 0 .. Len(events)
<1> DEFINE last == LastOf(events, Outcomes)
           types == Outcomes \cup {"flow.loaded", "session.started", "runtime.started"}
           earlier == LastBefore(events, last, types)
<1>1. Len(events) \in Nat /\ (Len(events) + 1) - 1 = Len(events)
  OBVIOUS
<1>2. last = 0 \/ last \in 1 .. Len(events)
  BY <1>1, LastBeforeFinds DEF LastOf
<1>3. last \in Int
  BY <1>1, <1>2
<1>4. earlier = 0 \/ earlier \in 1 .. last - 1
  BY <1>3, LastBeforeFinds
<1>5. PreviousTransactionTerminal(events, last) \in {0, earlier}
  BY DEF PreviousTransactionTerminal
<1>6. DecidingIndex(events) \in {last, PreviousTransactionTerminal(events, last)}
  BY Zenon DEF DecidingIndex
<1> HIDE DEF last, earlier
<1> QED BY <1>1, <1>2, <1>4, <1>5, <1>6

\* A reversal is recommended for an approval that is in the journal.
LEMMA ReversalNeedsApproval ==
    ASSUME NEW events \in Seq(Events), FailedAfterApproval(events)
    PROVE  \E a \in Entries(events) :
              a.type = "host.authorization_result" /\ a.code = "HOST_APPROVED"
<1> DEFINE terminal == DecidingIndex(events)
           Ends(i) == /\ events[i].type \in TerminalTypes
                      /\ events[i].transaction = events[terminal].transaction
           earlier == {i \in 1 .. terminal - 1 : Ends(i)}
           start == IF earlier = {} THEN 1 ELSE Max(earlier) + 1
<1>1. terminal \in 0 .. Len(events)
  BY DecidingPosition
<1>2. PICK i \in start .. terminal :
         /\ events[i].type = "host.authorization_result"
         /\ events[i].code = "HOST_APPROVED"
  BY Zenon DEF FailedAfterApproval
<1>3. earlier \in SUBSET (1 .. terminal - 1)
  OBVIOUS
<1>4. start \in Nat \ {0}
  <2>1. CASE earlier = {}
    BY <2>1
  <2>2. CASE earlier # {}
    <3>1. Max(earlier) \in earlier
      <4> HIDE DEF earlier, terminal
      <4>1. terminal - 1 \in Int
        BY <1>1
      <4> QED BY <1>3, <2>2, <4>1, MaxPosition
    <3> QED BY <1>3, <2>2, <3>1
  <2> QED BY <2>1, <2>2
<1> HIDE DEF start, terminal
<1>5. i \in DOMAIN events
  BY <1>1, <1>4
<1> QED BY <1>2, <1>5, Zenon DEF Entries

\* Before an outcome is in the journal, the transaction is left to a person.
LEMMA UndecidedIsReviewed ==
    ASSUME NEW events \in Seq(Events),
           \A i \in 1 .. Len(events) : events[i].type \notin Outcomes
    PROVE  ClassifyRecovery(events) \in {"manual_reconciliation", "operator_review"}
<1>1. LastOf(events, Outcomes) = 0
  <2>1. Len(events) \in Nat /\ (Len(events) + 1) - 1 = Len(events)
    OBVIOUS
  <2> QED BY <2>1, LastBeforeFinds DEF LastOf
<1>2. DecidingIndex(events) = 0
  BY <1>1 DEF DecidingIndex
<1>3. ~Failed(events, DecidingIndex(events))
  BY <1>2 DEF Failed
<1>4. JournalOutcome(events) = "idle"
  BY <1>1 DEF JournalOutcome
<1>5. TerminalFailureCode(events) = NoCode
  BY <1>1, <1>3 DEF TerminalFailureCode
<1>6. ~FailedAfterApproval(events)
  BY <1>3 DEF FailedAfterApproval
<1> QED BY <1>4, <1>5, <1>6 DEF ClassifyRecovery, NoCode, RecoveryCodes

\* No event before the last one is an outcome.
OnlyLast(events) == \A i \in 1 .. Len(events) - 1 : events[i].type \notin Outcomes

\* A journal whose only outcome is its last event is judged by that event.
LEMMA DecidedByLast ==
    ASSUME NEW events \in Seq(Events), Len(events) # 0, OnlyLast(events),
           events[Len(events)].type \in Outcomes
    PROVE  /\ LastOf(events, Outcomes) = Len(events)
           /\ events[Len(events)].type # "flow.failed" =>
                 DecidingIndex(events) = Len(events)
           /\ events[Len(events)].type = "flow.failed" => DecidingIndex(events) = 0
<1>1. Len(events) \in Nat \ {0} /\ (Len(events) + 1) - 1 = Len(events)
  OBVIOUS
<1>2. LastOf(events, Outcomes) = Len(events)
  BY <1>1, LastBeforeFinds DEF LastOf
<1>3. PreviousTransactionTerminal(events, Len(events)) = 0
  <2> DEFINE i == LastBefore(events, Len(events), Outcomes \cup
                      {"flow.loaded", "session.started", "runtime.started"})
  <2>1. i = 0 \/ i \in 1 .. Len(events) - 1
    BY <1>1, LastBeforeFinds
  <2>2. i # 0 => events[i].type \notin TerminalTypes
    BY <2>1 DEF OnlyLast, Outcomes
  <2> QED BY <2>2 DEF PreviousTransactionTerminal
<1> QED BY <1>1, <1>2, <1>3 DEF DecidingIndex
-----------------------------------------------------------------------------
(***************************************************************************)
(* What the journal's outcome says of the requests.                        *)
(***************************************************************************)
\* A failure says which request it comes from: the host gave no approval and
\* nothing else was asked; the approved cash was refused; or the deposit was.
FailureFits(e) ==
    \/ /\ req["dispense"] = "idle" /\ req["accept"] = "idle"
       /\ AtLarge("authorize") => e.code \in {"HOST_PROTOCOL_ERROR", "ADAPTER_TIMEOUT"}
    \/ /\ ~AtLarge("dispense") /\ req["accept"] = "idle"
       /\ e.transaction # NoTransaction
       /\ e.code # "HOST_DECLINED"
       /\ Event("host.authorization_result", e.transaction, "HOST_APPROVED")
             \in Entries(journal)
    \/ req["authorize"] = "idle" /\ req["dispense"] = "idle" /\ ~AtLarge("accept")

\* The outcome of a session that has asked for money is borne out by what
\* became of its requests, and stays so: no open request can undo it.
Verdict(e) ==
    /\ e.type = "flow.failed" => e.code = NoCode
    /\ ~Untouched =>
          /\ e.type # "transaction.cancelled"
          /\ e.type = "transaction.completed" =>
                Booked /\ \A k \in CashMoves : req[k] # "open"
          /\ e.type = "transaction.failed" => FailureFits(e)

Approves(e) == e.type = "host.authorization_result" /\ e.code = "HOST_APPROVED"

\* The inductive invariant: a flow that goes on has not failed; an approval in
\* the journal was given; a session that asked for money has one outcome; and
\* every outcome is borne out.
Trail ==
    /\ ~Ended => \A e \in Entries(journal) : e.type # "flow.failed"
    /\ \A e \in Entries(journal) : Approves(e) => req["authorize"] = "ok"
    /\ ~Untouched => OnlyLast(journal)
    /\ \A e \in Entries(journal) : Verdict(e)

LEMMA PersistedPrefix ==
    ASSUME TypeOK, NEW file \in Persisted
    PROVE  /\ file \in Seq(Events) /\ Len(file) # 0
           /\ Len(file) <= Len(journal)
           /\ \A i \in 1 .. Len(file) : file[i] = journal[i]
           /\ Entries(file) \subseteq Entries(journal)
           /\ Len(file) = Len(journal) => file = journal
<1>1. journal \in Seq(Events)
  BY DEF TypeOK
<1>2. PICK n \in 1 .. Len(journal) : file = SubSeq(journal, 1, n)
  BY DEF Persisted
<1>3. /\ file \in Seq(Events) /\ Len(file) = n
      /\ \A i \in 1 .. n : file[i] = journal[i]
  BY <1>1, <1>2
<1>4. Entries(file) \subseteq Entries(journal)
  <2> SUFFICES ASSUME NEW i \in DOMAIN file PROVE file[i] \in Entries(journal)
    BY Zenon DEF Entries
  <2>1. i \in DOMAIN journal /\ file[i] = journal[i]
    BY <1>1, <1>2, <1>3
  <2> QED BY <2>1, Zenon DEF Entries
<1>5. n = Len(journal) => file = journal
  BY <1>1, <1>2
<1> QED BY <1>2, <1>3, <1>4, <1>5

\* The recovery of a journal that is judged by a true last event.
LEMMA DecidedRecovery ==
    ASSUME TypeOK, Trail, ~Untouched, Len(journal) # 0,
           journal[Len(journal)].type \in Outcomes
    PROVE  LET recovery == ClassifyRecovery(journal)
           IN  /\ (\E k \in CashMoves \cup {"authorize"} : AtLarge(k))
                   => \/ recovery \notin {"none", "safe_retry"}
                      \/ /\ recovery = "none"
                         /\ JournalOutcome(journal) = "completed"
                         /\ Booked
               /\ recovery = "reverse_authorization" =>
                     req["authorize"] = "ok" /\ ~AtLarge("dispense")
<1> DEFINE e == journal[Len(journal)]
           recovery == ClassifyRecovery(journal)
<1>1. journal \in Seq(Events) /\ Len(journal) \in Nat \ {0}
  BY DEF TypeOK
<1>2. e \in Entries(journal)
  <2>1. Len(journal) \in DOMAIN journal
    BY <1>1
  <2> QED BY <2>1, Zenon DEF Entries
<1>3. OnlyLast(journal) /\ Verdict(e)
  BY <1>2 DEF Trail
<1>4. LastOf(journal, Outcomes) = Len(journal)
  BY <1>1, <1>3, DecidedByLast
<1>5. e.type \in {"transaction.completed", "transaction.cancelled",
                  "transaction.failed", "transaction.reconciliation_required",
                  "flow.failed"}
  BY DEF Outcomes, TerminalTypes
<1>6. e.type # "transaction.cancelled"
  BY <1>3 DEF Verdict
<1>7. CASE e.type = "transaction.completed"
  <2>1. JournalOutcome(journal) = "completed"
    BY <1>1, <1>4, <1>7 DEF JournalOutcome
  <2>2. recovery \in {"manual_reconciliation", "none"}
    BY <2>1 DEF ClassifyRecovery
  <2>3. Booked
    BY <1>3, <1>7 DEF Verdict
  <2> QED BY <2>1, <2>2, <2>3
<1>8. CASE e.type = "transaction.reconciliation_required"
  <2>1. LastOf(journal, {"transaction.reconciliation_required"}) # 0
    <3>1. (Len(journal) + 1) - 1 = Len(journal) /\ Len(journal) + 1 \in Int
      BY <1>1
    <3>2. Len(journal) <= LastOf(journal, {"transaction.reconciliation_required"})
      BY <1>1, <1>8, <3>1, LastBeforeFinds DEF LastOf
    <3> QED BY <1>1, <3>2
  <2> QED BY <2>1 DEF ClassifyRecovery
<1>9. CASE e.type = "flow.failed"
  <2>1. DecidingIndex(journal) = 0
    BY <1>1, <1>3, <1>9, DecidedByLast DEF Outcomes
  <2>2. ~Failed(journal, DecidingIndex(journal)) /\ ~FailedAfterApproval(journal)
    BY <2>1 DEF Failed, FailedAfterApproval
  <2>3. TerminalFailureCode(journal) = NoCode
    BY <1>1, <1>3, <1>4, <1>9, <2>2 DEF TerminalFailureCode, Verdict
  <2>4. JournalOutcome(journal) = "failed"
    BY <1>1, <1>4, <1>9 DEF JournalOutcome
  <2>5. recovery \in {"manual_reconciliation", "operator_review"}
    BY <2>2, <2>3, <2>4 DEF ClassifyRecovery, NoCode, RecoveryCodes
  <2> QED BY <2>5
<1>10. CASE e.type = "transaction.failed"
  <2>1. DecidingIndex(journal) = Len(journal)
    BY <1>1, <1>3, <1>10, DecidedByLast DEF Outcomes
  <2>2. Failed(journal, Len(journal))
    BY <1>1, <1>10 DEF Failed
  <2>3. TerminalFailureCode(journal) = e.code
    BY <1>1, <1>4, <1>10, <2>1, <2>2 DEF TerminalFailureCode
  <2>4. JournalOutcome(journal) = "failed"
    BY <1>1, <1>4, <1>10 DEF JournalOutcome
  <2>5. recovery = "reverse_authorization" => FailedAfterApproval(journal)
    BY DEF ClassifyRecovery
  <2>6. FailedAfterApproval(journal) => req["authorize"] = "ok"
    BY <1>1, ReversalNeedsApproval DEF Trail, Approves
  <2>7. recovery \in {"none", "safe_retry"} =>
           \/ e.code = "HOST_DECLINED"
           \/ e.code \in RecoveryCodes /\ ~FailedAfterApproval(journal)
    BY <2>3, <2>4 DEF ClassifyRecovery
  <2>8. FailureFits(e)
    BY <1>3, <1>10 DEF Verdict
  <2>9. CASE /\ req["dispense"] = "idle" /\ req["accept"] = "idle"
             /\ AtLarge("authorize") =>
                   e.code \in {"HOST_PROTOCOL_ERROR", "ADAPTER_TIMEOUT"}
    BY <2>5, <2>6, <2>7, <2>9 DEF AtLarge, CashMoves, RecoveryCodes
  <2>10. CASE /\ ~AtLarge("dispense") /\ req["accept"] = "idle"
              /\ e.transaction # NoTransaction
              /\ e.code # "HOST_DECLINED"
              /\ Event("host.authorization_result", e.transaction, "HOST_APPROVED")
                    \in Entries(journal)
    <3> DEFINE approval == Event("host.authorization_result", e.transaction,
                                 "HOST_APPROVED")
    <3>1. PICK i \in 1 .. Len(journal) : journal[i] = approval
      BY <1>1, <2>10 DEF Entries
    <3>2. /\ journal[i].type = "host.authorization_result"
          /\ journal[i].transaction = e.transaction
          /\ journal[i].code = "HOST_APPROVED"
      BY <3>1, EventFields
    <3>3. \A j \in 1 .. Len(journal) - 1 : journal[j].type \notin TerminalTypes
      BY <1>3 DEF OnlyLast, Outcomes
    <3>4. FailedAfterApproval(journal)
      BY <1>1, <2>1, <2>2, <2>10, <3>2, <3>3 DEF FailedAfterApproval
    <3> QED BY <2>5, <2>6, <2>7, <2>10, <3>4
  <2>11. CASE req["authorize"] = "idle" /\ req["dispense"] = "idle" /\ ~AtLarge("accept")
    BY <2>5, <2>6, <2>7, <2>11 DEF AtLarge, CashMoves
  <2> QED BY <2>8, <2>9, <2>10, <2>11, Zenon DEF FailureFits
<1> QED BY <1>5, <1>6, <1>7, <1>8, <1>9, <1>10

LEMMA TrailMeansSound ==
    ASSUME TypeOK, Trail
    PROVE  RecoverySound
<1> SUFFICES ASSUME NEW file \in Persisted
             PROVE  LET recovery == ClassifyRecovery(file)
                    IN  /\ (\E k \in CashMoves \cup {"authorize"} : AtLarge(k))
                            => \/ recovery \notin {"none", "safe_retry"}
                               \/ /\ recovery = "none"
                                  /\ JournalOutcome(file) = "completed"
                                  /\ Booked
                        /\ recovery = "reverse_authorization" =>
                              req["authorize"] = "ok" /\ ~AtLarge("dispense")
  BY DEF RecoverySound
<1>1. /\ file \in Seq(Events) /\ Len(file) # 0 /\ Len(file) <= Len(journal)
      /\ \A i \in 1 .. Len(file) : file[i] = journal[i]
      /\ Entries(file) \subseteq Entries(journal)
      /\ Len(file) = Len(journal) => file = journal
  BY PersistedPrefix
<1>2. journal \in Seq(Events)
  BY DEF TypeOK
<1>3. CASE Untouched
  <2>1. \A k \in CashMoves \cup {"authorize"} : ~AtLarge(k)
    BY <1>3 DEF Untouched, AtLarge, CashMoves
  <2>2. ClassifyRecovery(file) = "reverse_authorization" => FailedAfterApproval(file)
    BY DEF ClassifyRecovery
  <2>3. ~FailedAfterApproval(file)
    BY <1>1, <1>3, ReversalNeedsApproval DEF Trail, Approves, Untouched
  <2> QED BY <2>1, <2>2, <2>3
<1>4. CASE ~Untouched /\ \A i \in 1 .. Len(file) : file[i].type \notin Outcomes
  BY <1>1, <1>4, UndecidedIsReviewed
<1>5. ASSUME ~Untouched, NEW i \in 1 .. Len(file), file[i].type \in Outcomes
      PROVE  file = journal /\ journal[Len(journal)].type \in Outcomes /\ Len(journal) # 0
  <2>1. OnlyLast(journal)
    BY <1>5 DEF Trail
  <2>2. ~(i \in 1 .. Len(journal) - 1)
    BY <1>1, <1>5, <2>1 DEF OnlyLast
  <2>3. i = Len(journal) /\ Len(file) = Len(journal)
    BY <1>1, <1>2, <2>2
  <2> QED BY <1>1, <1>5, <2>3
<1>6. CASE file = journal /\ ~Untouched /\ journal[Len(journal)].type \in Outcomes
           /\ Len(journal) # 0
  BY <1>6, DecidedRecovery
<1> QED BY <1>3, <1>4, <1>5, <1>6
-----------------------------------------------------------------------------
(***************************************************************************)
(* Every step leaves a true trail.                                         *)
(***************************************************************************)
\* What a step adds while the session still waits for the customer, the reader
\* or the printer's status: no word of the host's, and a flow failure only as
\* the end of the session.
Plain(new) ==
    /\ Entries(journal') = Entries(journal) \cup new
    /\ \A e \in new :
          /\ e.type # "host.authorization_result"
          /\ e.type = "flow.failed" => Ended' /\ e.code = NoCode

LEMMA PlainTwo ==
    ASSUME NEW d, NEW e, Entries(journal') = Entries(journal) \cup {d, e},
           d.type \notin {"host.authorization_result", "flow.failed"},
           e.type # "host.authorization_result",
           e.type = "flow.failed" => pc' = "failed" /\ e.code = NoCode
    PROVE  \E new : Plain(new)
<1>1. Plain({d, e})
  BY DEF Plain, Ended
<1> QED BY <1>1

LEMMA PlainOne ==
    ASSUME NEW e, Entries(journal') = Entries(journal) \cup {e},
           e.type # "host.authorization_result",
           e.type = "flow.failed" => pc' = "failed" /\ e.code = NoCode
    PROVE  \E new : Plain(new)
<1>1. Plain({e})
  BY DEF Plain, Ended
<1> QED BY <1>1

LEMMA PlainNone ==
    ASSUME journal' = journal
    PROVE  \E new : Plain(new)
<1>1. Plain({})
  BY DEF Plain
<1> QED BY <1>1

LEMMA FlowFailureIsPlain ==
    ASSUME pc' = "failed",
           Entries(journal') = Entries(journal) \cup
              {Event("flow.failed", NoTransaction, NoCode)}
    PROVE  \E new : Plain(new)
BY PlainOne, EventFields

LEMMA CustomerIsPlain ==
    ASSUME TypeOK, Customer
    PROVE  \E new : Plain(new)
<1>1. CASE EnterPin
  BY <1>1, EnterPinStep, PlainNone
<1>2. ASSUME NEW goOn \in BOOLEAN, AnswerPrinterDown(goOn)
      PROVE  \E new : Plain(new)
  BY <1>2, AnswerPrinterDownStep, PlainNone, PlainOne, EventFields
<1>3. ASSUME NEW t \in Transactions \cup {UnknownTransaction}, SelectTransaction(t)
      PROVE  \E new : Plain(new)
  BY <1>3, SelectTransactionStep, PlainOne, PlainTwo, EventFields, ReportingEventFields
<1>4. CASE \/ \E a \in Accounts : AnswerAccount(a)
           \/ \E a \in Amounts : AnswerAmount(a)
           \/ AnswerAccess
  BY <1>4, AnswerStep, PlainNone
<1>5. CASE AnswerConfirm
  BY <1>5, AnswerConfirmStep, PlainNone, PlainOne, EventFields
<1>6. CASE CancelTransaction
  BY <1>6, CancelStep, PlainOne, EventFields
<1>7. ASSUME NEW display \in BOOLEAN, AnswerBalanceDisplay(display)
      PROVE  \E new : Plain(new)
  <2> DEFINE started == Event("transaction.started", Name, NoCode)
             shown == Completed(Name, accounts, Unreported)
             failure == Event("flow.failed", NoTransaction, NoCode)
  <2>1. /\ started.type = "transaction.started"
        /\ shown.type = "transaction.completed"
        /\ failure.type = "flow.failed" /\ failure.code = NoCode
    BY EventFields, ReportingEventFields DEF Completed
  <2>2. \/ /\ pc' = "failed"
           /\ Entries(journal') = Entries(journal) \cup {started, failure}
        \/ Entries(journal') = Entries(journal) \cup {started, shown}
        \/ Entries(journal') = Entries(journal) \cup {started}
    BY <1>7, BalanceDisplayStep
  <2> HIDE DEF started, shown, failure
  <2> QED BY <2>1, <2>2, PlainOne, PlainTwo
<1>8. ASSUME NEW direction \in {"Add", "Remove"}, NEW a \in Amounts,
             AnswerAdjustment(direction, a)
      PROVE  \E new : Plain(new)
  BY <1>8, AdjustmentStep, PlainOne, EventFields, ReportingEventFields
<1>9. CASE RejectPrompt
  BY <1>9, RejectStep, FlowFailureIsPlain
<1> QED BY <1>1, <1>2, <1>3, <1>4, <1>5, <1>6, <1>7, <1>8, <1>9, Zenon DEF Customer

LEMMA EarlyCallIsPlain ==
    ASSUME TypeOK, NEW k \in {"getStatus", "readCard"}, Call(k)
    PROVE  \E new : Plain(new)
<1>1. ASSUME NEW status \in {"up", "down"}, NEW events \in Seq(Events),
             StatusSettled(status, events),
             \A e \in Entries(events) : e.type = "device.status_changed"
      PROVE  \E new : Plain(new)
  <2>1. Plain(Entries(events))
    BY <1>1, StatusStep DEF Plain
  <2> QED BY <2>1
<1>2. k \in Calls
  BY DEF Calls
<1>3. CASE Throws(k)
  BY <1>1, <1>2, <1>3, ThrowsStep, FlowFailureIsPlain
<1>4. ASSUME NEW ok \in BOOLEAN, NEW code \in SettledCodes,
             ~ok => code \in EventCodes, Settled(k, ok, code)
      PROVE  \E new : Plain(new)
  <2>1. CASE StatusSettled(IF ok THEN "up" ELSE "down", <<>>)
    <3>1. <<>> \in Seq(Events) /\ Entries(<<>>) = {}
      BY DEF Entries
    <3> QED BY <1>1, <2>1, <3>1
  <2>2. CASE CardSettled(ok, code)
    BY <1>4, <2>2, CardStep, PlainNone, PlainTwo, EventFields
  <2> QED BY <1>4, <2>1, <2>2 DEF Settled
<1> QED BY <1>2, <1>3, <1>4, CallSettles

\* A session that has asked for no money yet asks for it and goes on, or ends
\* without having asked.
LEMMA EarlyTrail ==
    ASSUME TypeOK, Safe, Trail, TypeOK', Safe', pc \in Before, Asks,
           NEW new, Plain(new)
    PROVE  Trail'
<1>1. ~Ended
  BY DEF Ended, Before, PromptStates
<1>2. \A e \in Entries(journal) : e.type \notin Outcomes
  BY <1>1 DEF Trail, Safe, Phase, Outcomes
<1>3. ~Ended' => \A e \in Entries(journal') : e.type \notin Outcomes
  BY <1>2 DEF Plain, Safe, Phase, Outcomes
<1>4. Ended' => Untouched'
  <2>1. Untouched
    BY DEF Safe, Phase, Before
  <2>2. Ended' => req' = req
    BY DEF Asks, Ended, Calls
  <2> QED BY <2>1, <2>2 DEF Untouched
<1>5. \A e \in Entries(journal') : Approves(e) => req'["authorize"] = "ok"
  <2>1. Untouched
    BY DEF Safe, Phase, Before
  <2>2. \A e \in Entries(journal') : ~Approves(e)
    BY <2>1 DEF Plain, Trail, Approves, Untouched
  <2> QED BY <2>2
<1>6. ~Untouched' => OnlyLast(journal')
  <2> SUFFICES ASSUME ~Untouched', NEW i \in 1 .. Len(journal') - 1
               PROVE  journal'[i].type \notin Outcomes
    BY DEF OnlyLast
  <2>1. \A e \in Entries(journal') : e.type \notin Outcomes
    BY <1>3, <1>4
  <2>2. i \in DOMAIN journal'
    <3>1. journal' \in Seq(Events)
      BY DEF TypeOK
    <3> QED BY <3>1
  <2> QED BY <2>1, <2>2, Zenon DEF Entries
<1>7. \A e \in Entries(journal') : Verdict(e)'
  <2> SUFFICES ASSUME NEW e \in Entries(journal')
               PROVE  Verdict(e)'
    OBVIOUS
  <2>1. CASE Ended'
    <3>1. e.type = "flow.failed" => e.code = NoCode
      BY <1>2 DEF Plain, Outcomes
    <3> QED BY <1>4, <2>1, <3>1 DEF Verdict
  <2>2. CASE ~Ended'
    BY <1>3, <2>2 DEF Verdict, Outcomes, TerminalTypes
  <2> QED BY <2>1, <2>2
<1> QED BY <1>3, <1>5, <1>6, <1>7 DEF Trail, Outcomes

\* An outcome written last is the only one.
LEMMA WrittenLast ==
    ASSUME NEW s \in Seq(Events), \A x \in Entries(s) : x.type \notin Outcomes,
           NEW e, NEW t,
           \/ t = s \o <<e>>
           \/ \E d : d.type \notin Outcomes /\ t = s \o <<d, e>>
    PROVE  OnlyLast(t)
<1>1. \A i \in 1 .. Len(s) : s[i].type \notin Outcomes
  BY DEF Entries
<1>2. CASE t = s \o <<e>>
  <2> DEFINE S == Events \cup {e}
  <2>1. s \in Seq(S) /\ <<e>> \in Seq(S)
    OBVIOUS
  <2> HIDE DEF S
  <2>2. Len(t) - 1 = Len(s) /\ \A i \in 1 .. Len(s) : t[i] = s[i]
    BY <1>2, <2>1
  <2> QED BY <1>1, <2>2 DEF OnlyLast
<1>3. ASSUME NEW d, d.type \notin Outcomes, t = s \o <<d, e>>
      PROVE  OnlyLast(t)
  <2> DEFINE S == Events \cup {d, e}
  <2>1. s \in Seq(S) /\ <<d, e>> \in Seq(S)
    OBVIOUS
  <2> HIDE DEF S
  <2>2. /\ Len(s) \in Nat /\ Len(t) - 1 = Len(s) + 1
        /\ \A i \in 1 .. Len(s) : t[i] = s[i]
        /\ t[Len(s) + 1] = d
    BY <1>3, <2>1
  <2>3. \A i \in 1 .. Len(t) - 1 : i \in 1 .. Len(s) \/ i = Len(s) + 1
    BY <2>2
  <2> QED BY <1>1, <1>3, <2>2, <2>3 DEF OnlyLast
<1> QED BY <1>2, <1>3

\* A session that ends with a true last word leaves a true trail.
LEMMA EndingTrail ==
    ASSUME Safe, Trail, ~Ended, Ended',
           req["authorize"] = "ok" => req'["authorize"] = "ok",
           NEW new, Entries(journal') = Entries(journal) \cup new,
           OnlyLast(journal'),
           \A x \in new : ~Approves(x) /\ Verdict(x)'
    PROVE  Trail'
<1>1. \A x \in Entries(journal) : x.type \notin Outcomes
  BY DEF Trail, Safe, Phase, Outcomes
<1>2. \A x \in Entries(journal') : Verdict(x)'
  BY <1>1 DEF Verdict, Outcomes, TerminalTypes
<1>3. \A x \in Entries(journal') : Approves(x) => req'["authorize"] = "ok"
  BY DEF Trail
<1> QED BY <1>2, <1>3 DEF Trail

\* A session that goes on after a call has written no outcome.
LEMMA GoingOnTrail ==
    ASSUME TypeOK', Safe, Trail, Safe', ~Ended, ~Ended',
           req["authorize"] = "ok" => req'["authorize"] = "ok",
           NEW new, Entries(journal') = Entries(journal) \cup new,
           \A x \in new : /\ x.type # "flow.failed"
                          /\ Approves(x) => req'["authorize"] = "ok"
    PROVE  Trail'
<1>1. \A x \in Entries(journal') : x.type \notin Outcomes
  BY DEF Trail, Safe, Phase, Outcomes
<1>2. OnlyLast(journal')
  <2> SUFFICES ASSUME NEW i \in 1 .. Len(journal') - 1
               PROVE  journal'[i].type \notin Outcomes
    BY DEF OnlyLast
  <2>1. i \in DOMAIN journal'
    <3>1. journal' \in Seq(Events)
      BY DEF TypeOK
    <3> QED BY <3>1
  <2> QED BY <1>1, <2>1, Zenon DEF Entries
<1>3. \A x \in Entries(journal') : Verdict(x)'
  BY <1>1 DEF Verdict, Outcomes, TerminalTypes
<1>4. \A x \in Entries(journal') : Approves(x) => req'["authorize"] = "ok"
  BY DEF Trail
<1> QED BY <1>1, <1>2, <1>3, <1>4 DEF Trail, Outcomes

\* A flow failure needs no bearing out.
LEMMA FlowFailureTrail ==
    ASSUME TypeOK, Safe, Trail, ~Ended, FailFlow(<<>>), req' = req
    PROVE  Trail'
<1> DEFINE e == Event("flow.failed", NoTransaction, NoCode)
           new == {e}
<1>1. e.type = "flow.failed" /\ e.code = NoCode
  BY EventFields
<1>2. journal' = journal \o <<e>> /\ Ended'
  BY DEF FailFlow, Log, Ended
<1>3. Entries(journal') = Entries(journal) \cup {e}
  BY JustFails
<1>4. OnlyLast(journal')
  <2>1. journal \in Seq(Events) /\ \A x \in Entries(journal) : x.type \notin Outcomes
    BY DEF TypeOK, Trail, Safe, Phase, Outcomes
  <2> HIDE DEF e
  <2> QED BY <1>2, <2>1, WrittenLast
<1>5. \A x \in new : ~Approves(x) /\ Verdict(x)'
  BY <1>1 DEF Approves, Verdict
<1>6. Entries(journal') = Entries(journal) \cup new
  BY <1>3
<1> HIDE DEF e, new
<1> QED BY <1>2, <1>4, <1>5, <1>6, EndingTrail

\* How a call that concerns money settles (CallSettles).
Answered(k, ok, code) ==
    /\ ~ok => code \in EventCodes
    /\ ok => req[k] = "ok"
    /\ ~ok => \/ code = req[k] /\ code \notin {"idle", "open", "ok"}
              \/ code \in LostCodes[k] \cup {TimeoutCode(k)}

LEMMA AuthorizeTrail ==
    ASSUME TypeOK, Safe, Trail, OwnAnswers, TypeOK', Safe', pc = "authorize",
           NEW ok \in BOOLEAN, NEW code \in SettledCodes,
           Answered("authorize", ok, code), AuthorizeSettled(ok, code)
    PROVE  Trail'
<1>0. PICK result, approval, failure :
         /\ result = Event("host.authorization_result", Name, code)
         /\ approval = Event("host.authorization_result", Name, "HOST_APPROVED")
         /\ failure = Event("transaction.failed", Name, code)
  OBVIOUS
<1>1. /\ result.type = "host.authorization_result" /\ result.code = code
      /\ approval.type = "host.authorization_result"
      /\ failure.type = "transaction.failed" /\ failure.code = code
  BY <1>0, EventFields
<1>2. ~Ended /\ req["dispense"] = "idle" /\ req["accept"] = "idle"
  BY DEF Ended, Safe, Phase
<1>3. CASE ok
  <2>1. /\ pc' = "dispense" /\ req' = Opened("dispense")
        /\ Entries(journal') = Entries(journal) \cup {approval}
    BY <1>0, <1>3, AuthorizeStep DEF Answered
  <2>2. req["authorize"] = "ok" /\ req'["authorize"] = "ok" /\ ~Ended'
    BY <1>3, <2>1, MoneyCalls DEF Answered, Ended
  <2> DEFINE new == {approval}
  <2>3. Entries(journal') = Entries(journal) \cup new
    BY <2>1
  <2>4. \A x \in new : x.type # "flow.failed"
    BY <1>1
  <2> HIDE DEF new
  <2> QED BY <1>2, <2>2, <2>3, <2>4, GoingOnTrail
<1>4. CASE ~ok
  <2>1. /\ Ended' /\ req' = req
        /\ Entries(journal') = Entries(journal) \cup {result, failure}
    BY <1>0, <1>4, AuthorizeStep DEF Answered, Ended
  <2>2. journal' = journal \o <<result, failure>>
    BY <1>0, <1>4 DEF AuthorizeSettled, Log
  <2> DEFINE new == {result, failure}
  <2>3. Entries(journal') = Entries(journal) \cup new
    BY <2>1
  <2>4. OnlyLast(journal')
    <3>1. journal \in Seq(Events) /\ \A x \in Entries(journal) : x.type \notin Outcomes
      BY <1>2 DEF TypeOK, Trail, Safe, Phase, Outcomes
    <3>2. result.type \notin Outcomes
      BY <1>1 DEF Outcomes, TerminalTypes
    <3> QED BY <2>2, <3>1, <3>2, WrittenLast
  <2>5. /\ code # "HOST_APPROVED"
        /\ AtLarge("authorize") => code \in {"HOST_PROTOCOL_ERROR", "ADAPTER_TIMEOUT"}
    <3>1. CASE code = req["authorize"] /\ code \notin {"idle", "open", "ok"}
      <4>1. code \in Refusals["authorize"]
        BY <3>1 DEF OwnAnswers, Calls
      <4> QED BY <3>1, <4>1 DEF Refusals, AtLarge
    <3>2. CASE code \in LostCodes["authorize"] \cup {TimeoutCode("authorize")}
      BY <3>2 DEF LostCodes, TimeoutCode, CashMoves
    <3> QED BY <1>4, <3>1, <3>2 DEF Answered
  <2>6. ~Approves(result) /\ ~Approves(failure) /\ Verdict(result)'
    BY <1>1, <2>5 DEF Approves, Verdict
  <2>7. Verdict(failure)'
    <3>1. FailureFits(failure)'
      BY <1>1, <1>2, <2>1, <2>5 DEF FailureFits, AtLarge
    <3> QED BY <1>1, <3>1 DEF Verdict
  <2>8. \A x \in new : ~Approves(x) /\ Verdict(x)'
    BY <2>6, <2>7
  <2> HIDE DEF new
  <2> QED BY <1>2, <2>1, <2>3, <2>4, <2>8, EndingTrail
<1> QED BY <1>3, <1>4

\* A refused cash movement: what is journaled fits what became of it.
LEMMA RefusedTrail ==
    ASSUME TypeOK, Safe, Trail, OwnAnswers, NEW k \in CashMoves, pc = k,
           NEW code \in EventCodes, Answered(k, FALSE, code), CashRefused(code)
    PROVE  Trail'
<1> DEFINE type == IF code = "ADAPTER_OUTCOME_UNKNOWN"
                   THEN "transaction.reconciliation_required"
                   ELSE "transaction.failed"
<1>0. PICK e : e = Event(type, Name, code)
  OBVIOUS
<1> DEFINE new == {e}
<1>1. e.type = type /\ e.code = code /\ e.transaction = Name
  BY <1>0, EventFields
<1>2. /\ journal' = journal \o <<e>> /\ Ended'
      /\ UNCHANGED <<flowVars, accounts, req>>
  BY <1>0 DEF CashRefused, Log, Ended
<1>3. Entries(journal') = Entries(journal) \cup new
  BY <1>0, CashRefusedStep, Zenon
<1>4. ~Ended
  BY DEF Ended, CashMoves
<1>5. OnlyLast(journal')
  <2>1. journal \in Seq(Events) /\ \A x \in Entries(journal) : x.type \notin Outcomes
    BY <1>4 DEF TypeOK, Trail, Safe, Phase, Outcomes
  <2> QED BY <1>2, <2>1, WrittenLast
<1>6. ASSUME code # "ADAPTER_OUTCOME_UNKNOWN"
      PROVE  FailureFits(e)'
  <2>1. code = req[k] /\ code \notin {"idle", "open", "ok"} /\ code \in Refusals[k]
    <3>1. LostCodes[k] \cup {TimeoutCode(k)} = {"ADAPTER_OUTCOME_UNKNOWN"}
      BY DEF LostCodes, TimeoutCode, CashMoves
    <3>2. k \in Calls
      BY DEF CashMoves, Calls
    <3> QED BY <1>6, <3>1, <3>2 DEF Answered, OwnAnswers
  <2>2. CASE k = "dispense"
    <3>1. transaction \in Withdrawals /\ req["accept"] = "idle"
      BY <2>2 DEF Safe, Phase
    <3>2. Name # NoTransaction
      BY <3>1, CashTransactionNames DEF Name, CashNames, NoTransaction
    <3>3. Event("host.authorization_result", Name, "HOST_APPROVED") \in Entries(journal)
      BY <2>1, <2>2 DEF Safe, DispenseAuthorized
    <3>4. Event("host.authorization_result", e.transaction, "HOST_APPROVED")
             \in Entries(journal')
      BY <1>1, <1>3, <3>3
    <3>5. code # "HOST_DECLINED"
      BY <2>1, <2>2 DEF Refusals
    <3>6. ~AtLarge("dispense")' /\ req'["accept"] = "idle"
      BY <1>2, <2>1, <2>2, <3>1 DEF AtLarge
    <3>7. /\ ~AtLarge("dispense")' /\ req'["accept"] = "idle"
          /\ e.transaction # NoTransaction /\ e.code # "HOST_DECLINED"
      BY <1>1, <3>2, <3>5, <3>6
    <3> QED BY <3>4, <3>7 DEF FailureFits
  <2>3. CASE k = "accept"
    <3>1. req["authorize"] = "idle" /\ req["dispense"] = "idle"
      BY <2>3 DEF Safe, Phase
    <3> QED BY <1>2, <2>1, <2>3, <3>1 DEF FailureFits, AtLarge
  <2> QED BY <2>2, <2>3 DEF CashMoves
<1>7. ~Approves(e) /\ Verdict(e)'
  <2>1. type \in {"transaction.reconciliation_required", "transaction.failed"}
    OBVIOUS
  <2>2. type = "transaction.failed" => code # "ADAPTER_OUTCOME_UNKNOWN"
    OBVIOUS
  <2> HIDE DEF type
  <2> QED BY <1>1, <1>6, <2>1, <2>2 DEF Approves, Verdict
<1>8. \A x \in new : ~Approves(x) /\ Verdict(x)'
  BY <1>7
<1> HIDE DEF new
<1> QED BY <1>2, <1>3, <1>4, <1>5, <1>8, EndingTrail

LEMMA DispenseTrail ==
    ASSUME TypeOK, Safe, Trail, OwnAnswers, TypeOK', Safe', pc = "dispense",
           NEW ok \in BOOLEAN, NEW code \in SettledCodes,
           Answered("dispense", ok, code), DispenseSettled(ok, code)
    PROVE  Trail'
<1>1. ~Ended
  BY DEF Ended
<1>2. CASE ~ok /\ CashRefused(code)
  BY <1>2, RefusedTrail DEF Answered, CashMoves
<1>3. CASE FailFlow(<<>>) /\ req' = req
  BY <1>1, <1>3, FlowFailureTrail
<1>4. CASE pc' = "print" /\ req' = Opened("print") /\ journal' = journal
  <2>1. ~Ended' /\ req'["authorize"] = req["authorize"]
    BY <1>4, MoneyCalls DEF Ended
  <2> DEFINE new == {}
  <2>2. /\ Entries(journal') = Entries(journal) \cup new
        /\ \A x \in new : /\ x.type # "flow.failed"
                          /\ Approves(x) => req'["authorize"] = "ok"
    BY <1>4
  <2> HIDE DEF new
  <2> QED BY <1>1, <2>1, <2>2, GoingOnTrail
<1> QED BY <1>2, <1>3, <1>4, Zenon DEF DispenseSettled

\* The account of a completed transaction after its booking.
LEMMA BookedOnce ==
    ASSUME TypeOK
    PROVE  /\ AccountsUntouched => accounts[account] = InitialBalance
           /\ accounts' = [accounts EXCEPT ![account] = @ + amount] =>
                 accounts'[account] = accounts[account] + amount
           /\ amount \in Int /\ InitialBalance \in Int
BY SessionAssumption DEF TypeOK, AccountsUntouched

LEMMA AcceptTrail ==
    ASSUME TypeOK, Safe, Trail, OwnAnswers, pc = "accept",
           NEW ok \in BOOLEAN, NEW code \in SettledCodes,
           Answered("accept", ok, code), AcceptSettled(ok, code)
    PROVE  Trail'
<1>1. ~Ended
  BY DEF Ended
<1>2. CASE ~ok /\ CashRefused(code)
  BY <1>2, RefusedTrail DEF Answered, CashMoves
<1>3. CASE /\ ok
           /\ accounts' = [accounts EXCEPT ![account] = @ + amount]
           /\ Log(<<Completed(Name, accounts', {cash})>>)
           /\ pc' = "done"
           /\ UNCHANGED <<flowVars, cashVars, req>>
  <2>1. PICK e : e = Completed(Name, accounts', {cash})
    OBVIOUS
  <2>2. e.type = "transaction.completed"
    BY <2>1, ReportingEventFields DEF Completed
  <2>3. journal' = journal \o <<e>> /\ Ended' /\ req' = req
    BY <1>3, <2>1 DEF Log, Ended
  <2> DEFINE new == {e}
  <2>4. Entries(journal') = Entries(journal) \cup new
    BY <1>3, <2>1, AcceptStep DEF Answered
  <2>5. OnlyLast(journal')
    <3>1. journal \in Seq(Events) /\ \A x \in Entries(journal) : x.type \notin Outcomes
      BY <1>1 DEF TypeOK, Trail, Safe, Phase, Outcomes
    <3> QED BY <2>3, <3>1, WrittenLast
  <2>6. Booked' /\ \A k \in CashMoves : req'[k] # "open"
    <3>1. req["accept"] = "ok" /\ req["dispense"] = "idle" /\ AccountsUntouched
      BY <1>3 DEF Answered, Safe, Phase
    <3>2. /\ accounts'[account] - InitialBalance = amount
          /\ account' = account /\ amount' = amount
      BY <1>3, <3>1, BookedOnce DEF flowVars
    <3>3. Moved' = amount
      BY <2>3, <3>1, <3>2, BookedOnce DEF Moved
    <3> QED BY <2>3, <3>1, <3>2, <3>3 DEF Booked, CashMoves
  <2>7. \A x \in new : ~Approves(x) /\ Verdict(x)'
    BY <2>2, <2>6 DEF Approves, Verdict
  <2> HIDE DEF new
  <2> QED BY <1>1, <2>3, <2>4, <2>5, <2>7, EndingTrail
<1> QED BY <1>2, <1>3, Zenon DEF AcceptSettled

\* A receipt, or the lack of one, ends a transaction that is already booked.
LEMMA PrintTrail ==
    ASSUME TypeOK, Safe, Trail, pc = "print",
           NEW ok \in BOOLEAN, NEW code \in SettledCodes, ~ok => code \in EventCodes,
           PrintSettled(ok, code)
    PROVE  Trail'
<1>1. ~Ended
  BY DEF Ended
<1>2. /\ pc' = "done" /\ UNCHANGED <<flowVars, accounts, req>>
      /\ \E money \in SUBSET Int :
            Entries(journal') = Entries(journal) \cup
               (IF ok THEN {} ELSE {Event("device.status_changed", Name, code)})
               \cup {Completed(Name, accounts, money)}
  BY PrintStep DEF PrintSettled
<1>3. OnlyLast(journal')
  <2>1. PICK d, e, money :
           /\ d = Event("device.status_changed", Name, code)
           /\ money = IF transaction \in Withdrawals THEN {cash} ELSE Unreported
           /\ e = Completed(Name, accounts, money)
    OBVIOUS
  <2>2. journal' = journal \o Append(IF ok THEN <<>> ELSE <<d>>, e)
    BY <2>1 DEF PrintSettled, Log
  <2>3. journal' = journal \o <<e>> \/ journal' = journal \o <<d, e>>
    BY <2>2
  <2>4. journal \in Seq(Events) /\ \A x \in Entries(journal) : x.type \notin Outcomes
    BY <1>1 DEF TypeOK, Trail, Safe, Phase, Outcomes
  <2>5. d.type \notin Outcomes
    BY <2>1, EventFields DEF Outcomes, TerminalTypes
  <2> QED BY <2>3, <2>4, <2>5, WrittenLast
<1>4. PICK new : /\ Entries(journal') = Entries(journal) \cup new
                 /\ \A x \in new : x.type \in {"device.status_changed",
                                               "transaction.completed"}
  <2>1. PICK money \in SUBSET Int :
            Entries(journal') = Entries(journal) \cup
               (IF ok THEN {} ELSE {Event("device.status_changed", Name, code)})
               \cup {Completed(Name, accounts, money)}
    BY <1>2
  <2>2. /\ Event("device.status_changed", Name, code).type = "device.status_changed"
        /\ Completed(Name, accounts, money).type = "transaction.completed"
    BY EventFields, ReportingEventFields DEF Completed
  <2> DEFINE written == (IF ok THEN {} ELSE {Event("device.status_changed", Name, code)})
                           \cup {Completed(Name, accounts, money)}
  <2>3. /\ Entries(journal') = Entries(journal) \cup written
        /\ \A x \in written : x.type \in {"device.status_changed",
                                          "transaction.completed"}
    BY <2>1, <2>2, Zenon
  <2> HIDE DEF written
  <2> QED BY <2>3
<1>5. ~Untouched' => Booked' /\ \A k \in CashMoves : req'[k] # "open"
  <2>1. Untouched' <=> Untouched
    BY <1>2 DEF Untouched
  <2>2. CASE /\ req["dispense"] = "ok" /\ req["accept"] = "idle"
             /\ accounts = [a \in Accounts |->
                               IF a = account THEN InitialBalance - amount
                                              ELSE InitialBalance]
    <3>1. accounts[account] - InitialBalance = 0 - amount
      BY <2>2, SessionAssumption DEF TypeOK
    <3>2. Moved = 0 - amount
      BY <2>2 DEF Moved
    <3> QED BY <1>2, <2>2, <3>1, <3>2 DEF Booked, Moved, CashMoves, flowVars
  <2> QED BY <2>1, <2>2 DEF Safe, Phase
<1>6. \A x \in new : ~Approves(x) /\ Verdict(x)'
  BY <1>4, <1>5 DEF Approves, Verdict
<1> QED BY <1>1, <1>2, <1>3, <1>4, <1>6, EndingTrail DEF Ended

LEMMA CallTrail ==
    ASSUME TypeOK, Safe, Trail, OwnAnswers, TypeOK', Safe', NEW k \in Calls, Call(k)
    PROVE  Trail'
<1>1. CASE k \in {"getStatus", "readCard"}
  <2>1. pc \in Before /\ Asks
    BY <1>1, CallSettles, CallAsks DEF Before
  <2> QED BY <1>1, <2>1, EarlyCallIsPlain, EarlyTrail
<1>2. CASE k \in {"authorize", "dispense", "accept", "print"} /\ Throws(k)
  <2>1. CASE k = "print" /\ PrintSettled(FALSE, "RECEIPT_ERROR")
    BY <1>2, <2>1, PrintTrail, CommonCodes DEF Throws, SettledCodes
  <2>2. CASE k # "print" /\ FailFlow(<<>>) /\ req' = req
    BY <1>2, <2>2, FlowFailureTrail DEF Throws, Ended
  <2> QED BY <1>2, <2>1, <2>2 DEF Throws
<1>3. ASSUME k \in {"authorize", "dispense", "accept", "print"}, pc = k,
             NEW ok \in BOOLEAN, NEW code \in SettledCodes,
             Settled(k, ok, code), Answered(k, ok, code)
      PROVE  Trail'
  <2>1. CASE k = "authorize" /\ AuthorizeSettled(ok, code)
    BY <1>3, <2>1, AuthorizeTrail
  <2>2. CASE k = "dispense" /\ DispenseSettled(ok, code)
    BY <1>3, <2>2, DispenseTrail
  <2>3. CASE k = "accept" /\ AcceptSettled(ok, code)
    BY <1>3, <2>3, AcceptTrail
  <2>4. CASE k = "print" /\ PrintSettled(ok, code)
    BY <1>3, <2>4, PrintTrail DEF Answered
  <2> QED BY <1>3, <2>1, <2>2, <2>3, <2>4, Zenon DEF Settled
<1>4. \/ Throws(k)
      \/ \E ok \in BOOLEAN, code \in SettledCodes :
            Settled(k, ok, code) /\ Answered(k, ok, code)
  BY CallSettles, Zenon DEF Answered
<1> QED BY <1>1, <1>2, <1>3, <1>4, CallSettles DEF Calls

\* A service decides on an open request: what the journal says does not depend
\* on it.
LEMMA ServiceTrail ==
    ASSUME TypeOK, Trail, NEW k \in Calls, NEW result \in {"ok"} \cup Refusals[k],
           req[k] = "open", req' = [req EXCEPT ![k] = result], pc' = pc,
           UNCHANGED <<flowVars, journal, accounts>>
    PROVE  Trail'
<1>1. /\ \A j \in Calls : req[j] # "open" => req'[j] = req[j]
      /\ \A j \in Calls : ~AtLarge(j) => ~AtLarge(j)'
      /\ \A j \in Calls : req'[j] = "idle" <=> req[j] = "idle"
  BY RefusalsDecide DEF TypeOK, AtLarge
<1>2. {"authorize", "dispense", "accept"} \subseteq Calls /\ CashMoves \subseteq Calls
  BY DEF Calls, CashMoves
<1>3. Untouched' <=> Untouched
  BY <1>1, <1>2 DEF Untouched
<1>4. ASSUME Booked, \A j \in CashMoves : req[j] # "open"
      PROVE  Booked' /\ \A j \in CashMoves : req'[j] # "open"
  BY <1>1, <1>2, <1>4 DEF Booked, Moved, CashMoves, flowVars
<1>5. \A e : FailureFits(e) => FailureFits(e)'
  BY <1>1, <1>2 DEF FailureFits, Event, NoReport
<1>6. \A e : Verdict(e) => Verdict(e)'
  BY <1>3, <1>4, <1>5 DEF Verdict
<1> QED BY <1>1, <1>2, <1>3, <1>6 DEF Trail, Ended

LEMMA CustomerIsEarly == Customer => pc \in Before
BY Zenon DEF Before, PromptStates, Customer, EnterPin, AnswerPrinterDown,
   SelectTransaction, AnswerAccount, AnswerAmount, AnswerAccess, AnswerConfirm,
   CancelTransaction, AnswerBalanceDisplay, AnswerAdjustment, RejectPrompt, Asking

LEMMA TrailStep ==
    ASSUME TypeOK, Safe, OwnAnswers, Trail, [Next]_vars
    PROVE  Trail'
<1>1. TypeOK' /\ Safe'
  BY TypeStep, SafeStep
<1>2. ASSUME NEW type \in CustomerTypes, Load(type)
      PROVE  Trail'
  <2>1. \E new : Plain(new)
    BY <1>2, LoadStep, PlainTwo, EventFields
  <2>2. pc \in Before /\ Asks
    BY <1>2 DEF Load, Asks, Before
  <2> QED BY <1>1, <2>1, <2>2, EarlyTrail
<1>3. CASE LoadFails
  <2>1. \E new : Plain(new)
    <3>1. pc' = "failed"
      BY <1>3 DEF LoadFails, FailFlow
    <3> QED BY <1>3, <3>1, LoadFailsStep, PlainTwo, EventFields
  <2>2. pc \in Before /\ Asks
    BY <1>3 DEF LoadFails, FailFlow, Asks, Before
  <2> QED BY <1>1, <2>1, <2>2, EarlyTrail
<1>4. CASE Customer
  BY <1>1, <1>4, CustomerIsPlain, CustomerAsks, CustomerIsEarly, EarlyTrail
<1>5. ASSUME NEW k \in Calls, Call(k)
      PROVE  Trail'
  BY <1>1, <1>5, CallTrail
<1>6. CASE Simulates \/ \E k \in Calls : Service(k)
  <2>1. PICK k \in Calls : \E result \in {"ok"} \cup Refusals[k] : Outcome(k, result)
    BY <1>6, ServiceAnswers, Zenon
  <2> QED BY <2>1, ServiceTrail DEF Outcome
<1>7. CASE UNCHANGED vars
  BY <1>7 DEF vars, flowVars, cashVars, Trail, Verdict, FailureFits, Booked, Moved,
              Untouched, AtLarge, Ended, Event, NoReport
<1> QED BY <1>2, <1>3, <1>4, <1>5, <1>6, <1>7, Zenon DEF Next

LEMMA SpecTrail == Spec => []Trail
<1>1. Init => Trail
  <2> SUFFICES ASSUME Init PROVE Trail
    OBVIOUS
  <2>1. PICK e : e = Event("runtime.started", NoTransaction, NoCode)
    OBVIOUS
  <2>2. e.type = "runtime.started"
    BY <2>1, EventFields
  <2>3. Entries(journal) = {e} /\ Untouched
    BY <2>1 DEF Init, Entries, Untouched, Calls
  <2> QED BY <2>2, <2>3 DEF Trail, Approves, Verdict
<1> QED BY <1>1, TrailStep, SpecTypeOK, SpecSafe, SpecOwnAnswers, PTL DEF Spec

\* Whenever the terminal stops, the recovery action that the classifier reads
\* from the journal fits what host and devices did and may still do: money that
\* is held or moved is never answered with nothing or a retry unless it is
\* booked, and a reversal is for an approval whose cash did not move and cannot
\* (classifyRecovery, on the journals of the Execute methods).
THEOREM SpecRecoverySound == Spec => []RecoverySound
BY TrailMeansSound, SpecTypeOK, SpecTrail, PTL
-----------------------------------------------------------------------------
(***************************************************************************)
(* Each cash call implements the abstract cash request.                    *)
(***************************************************************************)
\* A step of the abstract request, in the terms of the session: nothing, Ask,
\* Acts, TellOutcome or TellUnknown.
CashStep(k) ==
    \/ UNCHANGED <<RequestOf(k), ToldOf(k)>>
    \/ /\ RequestOf(k) = "idle" /\ RequestOf(k)' = "open"
       /\ UNCHANGED ToldOf(k)
    \/ /\ RequestOf(k) = "open" /\ RequestOf(k)' \in {"moved", "refused"}
       /\ UNCHANGED ToldOf(k)
    \/ /\ ToldOf(k) = "none" /\ UNCHANGED RequestOf(k)
       /\ \/ RequestOf(k) \in {"moved", "refused"} /\ ToldOf(k)' = RequestOf(k)
          \/ RequestOf(k) # "idle" /\ ToldOf(k)' = "unknown"

\* While nothing has been asked of the device, and when it is asked, the module
\* has been told nothing.
LEMMA NotAsked ==
    ASSUME NEW k \in CashMoves, req[k] = "idle",
           req'[k] = "idle" \/ (req'[k] = "open" /\ pc' = k)
    PROVE  CashStep(k)
BY DEF CashStep, RequestOf, ToldOf

\* A service decides on an open request; what the module was told stays.
LEMMA ServiceCashStep ==
    ASSUME TypeOK, NEW k \in CashMoves,
           NEW j \in Calls, NEW result \in {"ok"} \cup Refusals[j],
           req[j] = "open", req' = [req EXCEPT ![j] = result], pc' = pc,
           UNCHANGED <<flowVars, journal, accounts>>
    PROVE  CashStep(k)
<1>1. k \in Calls
  BY DEF CashMoves, Calls
<1>2. UNCHANGED <<pc, account, accounts, journal, transaction>>
  BY DEF flowVars
<1>3. req'[k] = req[k] \/ (req[k] = "open" /\ req'[k] \notin {"idle", "open"})
  BY <1>1, RefusalsDecide DEF TypeOK
<1>4. (req'[k] = "idle" \/ pc' = k) <=> (req[k] = "idle" \/ pc = k)
  BY <1>2, <1>3
<1>5. UNCHANGED ToldOf(k)
  BY <1>2, <1>4, Zenon DEF ToldOf, Journaled, Name
<1>6. CASE req'[k] = req[k]
  BY <1>5, <1>6 DEF CashStep, RequestOf
<1>7. CASE req[k] = "open" /\ req'[k] \notin {"idle", "open"}
  <2>1. RequestOf(k) = "open" /\ RequestOf(k)' \in {"moved", "refused"}
    BY <1>7 DEF RequestOf
  <2> QED BY <1>5, <2>1 DEF CashStep
<1> QED BY <1>3, <1>6, <1>7

\* A booking changes the balance of the account, for no amount is zero.
LEMMA BookingShows ==
    ASSUME TypeOK, AccountsUntouched, account' = account,
           \/ accounts' = [accounts EXCEPT ![account] = @ - amount]
           \/ accounts' = [accounts EXCEPT ![account] = @ + amount]
    PROVE  accounts'[account'] # InitialBalance
<1>1. accounts[account] = InitialBalance /\ amount \in Nat \ {0} /\ InitialBalance \in Int
  BY SessionAssumption DEF TypeOK, AccountsUntouched
<1> QED BY <1>1 DEF TypeOK

\* The module learns of its own request only: the outcome when it is told so,
\* and nothing when the request may still take effect.
LEMMA RefusedCashStep ==
    ASSUME TypeOK, Safe, NEW k \in CashMoves, pc = k,
           NEW code \in EventCodes, Answered(k, FALSE, code), CashRefused(code)
    PROVE  CashStep(k)
<1>1. UNCHANGED <<flowVars, accounts, req>> /\ pc' = "done"
  BY DEF CashRefused
<1>2. accounts[account] = InitialBalance
  BY BookedOnce DEF Safe, Phase, CashMoves
<1>3. \A e \in Entries(journal) : e.type \notin TerminalTypes
  BY DEF Safe, Phase, Ended, CashMoves
<1>4. ToldOf(k) = "none" /\ RequestOf(k)' = RequestOf(k)
  BY <1>1 DEF ToldOf, RequestOf
<1>5. CASE req[k] = "idle"
  BY <1>1, <1>5, NotAsked
<1>6. CASE req[k] # "idle" /\ code = "ADAPTER_OUTCOME_UNKNOWN"
  <2>1. PICK e : e = Event("transaction.reconciliation_required", Name, code)
    OBVIOUS
  <2>2. Entries(journal') = Entries(journal) \cup {e}
    BY <1>6, <2>1, CashRefusedStep
  <2>3. ~Journaled("transaction.failed", Name)'
    BY <1>3, <2>1, <2>2, EventFields DEF Journaled, TerminalTypes
  <2>4. ToldOf(k)' = "unknown"
    BY <1>1, <1>2, <1>6, <2>3 DEF ToldOf, flowVars, CashMoves
  <2>5. RequestOf(k) # "idle"
    BY <1>6 DEF RequestOf
  <2> QED BY <1>4, <2>4, <2>5 DEF CashStep
<1>7. CASE req[k] # "idle" /\ code # "ADAPTER_OUTCOME_UNKNOWN"
  <2>1. PICK e : e = Event("transaction.failed", Name, code)
    OBVIOUS
  <2>2. Entries(journal') = Entries(journal) \cup {e}
    BY <1>7, <2>1, CashRefusedStep
  <2>3. Name' = Name
    BY <1>1 DEF Name, flowVars
  <2>4. Journaled("transaction.failed", Name)'
    <3>1. e \in Entries(journal') /\ e.type = "transaction.failed" /\ e.transaction = Name'
      BY <2>1, <2>2, <2>3, EventFields
    <3> QED BY <3>1, Zenon DEF Journaled
  <2>5. ToldOf(k)' = "refused"
    BY <1>1, <1>2, <1>7, <2>4 DEF ToldOf, flowVars, CashMoves
  <2>6. req[k] \notin {"idle", "open", "ok"}
    BY <1>7 DEF Answered, LostCodes, TimeoutCode, CashMoves
  <2>7. RequestOf(k) = "refused"
    BY <2>6 DEF RequestOf
  <2> QED BY <1>4, <2>5, <2>7 DEF CashStep
<1> QED BY <1>5, <1>6, <1>7

\* An exception of the adapter leaves the outcome open.
LEMMA ThrownCashStep ==
    ASSUME TypeOK, Safe, NEW k \in CashMoves, pc = k, FailFlow(<<>>),
           UNCHANGED <<flowVars, accounts, req>>
    PROVE  CashStep(k)
<1>1. accounts[account] = InitialBalance
  BY BookedOnce DEF Safe, Phase, CashMoves
<1>2. \A e \in Entries(journal) : e.type \notin TerminalTypes
  BY DEF Safe, Phase, Ended, CashMoves
<1>3. pc' = "failed" /\ Entries(journal') = Entries(journal) \cup
         {Event("flow.failed", NoTransaction, NoCode)}
  BY JustFails
<1>4. ~Journaled("transaction.failed", Name)'
  BY <1>2, <1>3, EventFields DEF Journaled, TerminalTypes
<1>5. CASE req[k] = "idle"
  BY <1>5, NotAsked
<1>6. CASE req[k] # "idle"
  <2>1. ToldOf(k)' = "unknown"
    BY <1>1, <1>3, <1>4, <1>6 DEF ToldOf, flowVars, CashMoves
  <2>2. ToldOf(k) = "none" /\ UNCHANGED RequestOf(k) /\ RequestOf(k) # "idle"
    BY <1>6 DEF ToldOf, RequestOf
  <2> QED BY <2>1, <2>2 DEF CashStep
<1> QED BY <1>5, <1>6

\* The module books what the device has moved.
LEMMA BookedCashStep ==
    ASSUME TypeOK, Safe, NEW k \in CashMoves, pc = k, req[k] = "ok",
           req'[k] = "ok", pc' # k, account' = account,
           \/ accounts' = [accounts EXCEPT ![account] = @ - amount]
           \/ accounts' = [accounts EXCEPT ![account] = @ + amount]
    PROVE  CashStep(k)
<1>1. AccountsUntouched
  BY DEF Safe, Phase, CashMoves
<1>2. accounts'[account'] # InitialBalance
  BY <1>1, BookingShows
<1>3. ToldOf(k) = "none" /\ ToldOf(k)' = "moved"
  BY <1>2 DEF ToldOf
<1>4. RequestOf(k) = "moved" /\ RequestOf(k)' = "moved"
  BY DEF RequestOf
<1> QED BY <1>3, <1>4 DEF CashStep

LEMMA AskingCashStep ==
    ASSUME TypeOK, NEW k \in CashMoves, req[k] = "idle", Asks
    PROVE  CashStep(k)
<1>1. k \in Calls
  BY DEF CashMoves, Calls
<1>2. \A j \in Calls : req' = Opened(j) /\ pc' = j =>
         req'[k] = "idle" \/ (req'[k] = "open" /\ pc' = k)
  BY <1>1, MoneyCalls
<1>3. req' = req \/ \E j \in Calls : req' = Opened(j) /\ pc' = j
  BY DEF Asks, Calls
<1> QED BY <1>2, <1>3, NotAsked

LEMMA PrintCashStep ==
    ASSUME TypeOK, Safe, NEW k \in CashMoves, pc = "print", req[k] # "idle",
           pc' = "done", req' = req, accounts' = accounts, account' = account
    PROVE  CashStep(k)
<1>1. accounts[account] = InitialBalance - amount
  BY DEF Safe, Phase, Untouched, CashMoves, TypeOK
<1>2. accounts[account] # InitialBalance
  BY <1>1, SessionAssumption DEF TypeOK
<1>3. ToldOf(k) = "moved" /\ ToldOf(k)' = "moved"
  BY <1>2 DEF ToldOf, CashMoves
<1> QED BY <1>3 DEF CashStep, RequestOf

LEMMA CallCashStep ==
    ASSUME TypeOK, Safe, NEW k \in CashMoves, NEW j \in Calls, Call(j)
    PROVE  CashStep(k)
<1>1. Asks /\ pc = j
  BY CallAsks, CallSettles
<1>2. CASE req[k] = "idle"
  BY <1>1, <1>2, AskingCashStep
<1>3. CASE req[k] # "idle"
  <2>1. j = k \/ j = "print"
    BY <1>1, <1>3 DEF Safe, Phase, Untouched, Calls, CashMoves
  <2>2. CASE j = "print"
    <3>1. \E ok \in BOOLEAN, code \in SettledCodes :
             PrintSettled(ok, code) /\ (~ok => code \in EventCodes)
      <4>1. "RECEIPT_ERROR" \in EventCodes /\ "RECEIPT_ERROR" \in SettledCodes
        BY CommonCodes DEF SettledCodes
      <4> QED BY <2>2, <4>1, CallSettles, Zenon DEF Settled, Throws
    <3>2. pc' = "done" /\ req' = req /\ accounts' = accounts /\ account' = account
      BY <3>1, PrintStep DEF PrintSettled, flowVars
    <3> QED BY <1>1, <1>3, <2>2, <3>2, PrintCashStep
  <2>3. CASE j = k /\ Throws(k)
    <3>1. FailFlow(<<>>) /\ UNCHANGED <<flowVars, accounts, req>>
      BY <2>3 DEF Throws, CashMoves
    <3> QED BY <1>1, <2>3, <3>1, ThrownCashStep
  <2>4. ASSUME j = k, NEW ok \in BOOLEAN, NEW code \in SettledCodes,
               Settled(k, ok, code), Answered(k, ok, code)
        PROVE  CashStep(k)
    <3>1. CASE ~ok /\ CashRefused(code)
      BY <1>1, <2>4, <3>1, RefusedCashStep DEF Answered
    <3>2. CASE ok
      <4>1. /\ account' = account
            /\ \/ accounts' = [accounts EXCEPT ![account] = @ - amount]
               \/ accounts' = [accounts EXCEPT ![account] = @ + amount]
            /\ req' = req \/ req' = Opened("print")
            /\ pc' \in {"failed", "print", "done"}
        BY <2>4, <3>2 DEF Settled, CashMoves, DispenseSettled, AcceptSettled,
                          FailFlow, flowVars
      <4>2. req'[k] = req[k] /\ pc' # k
        BY <4>1, MoneyCalls DEF CashMoves
      <4>3. req[k] = "ok"
        BY <2>4, <3>2 DEF Answered
      <4> QED BY <1>1, <2>4, <4>1, <4>2, <4>3, BookedCashStep
    <3> QED BY <2>4, <3>1, <3>2
            DEF Settled, CashMoves, DispenseSettled, AcceptSettled
  <2>5. j = k => \/ Throws(k)
                 \/ \E ok \in BOOLEAN, code \in SettledCodes :
                       Settled(k, ok, code) /\ Answered(k, ok, code)
    BY CallSettles, Zenon DEF Answered
  <2> QED BY <2>1, <2>2, <2>3, <2>4, <2>5
<1> QED BY <1>2, <1>3

LEMMA NextCashStep ==
    ASSUME TypeOK, Safe, NEW k \in CashMoves, [Next]_vars
    PROVE  CashStep(k)
<1>1. ASSUME pc \in Before, Asks
      PROVE  CashStep(k)
  <2>1. req[k] = "idle"
    BY <1>1 DEF Safe, Phase, Before, Untouched, CashMoves
  <2> QED BY <1>1, <2>1, AskingCashStep
<1>2. ASSUME NEW type \in CustomerTypes, Load(type)
      PROVE  CashStep(k)
  BY <1>1, <1>2 DEF Load, Asks, Before
<1>3. CASE LoadFails
  BY <1>1, <1>3 DEF LoadFails, FailFlow, Asks, Before
<1>4. CASE Customer
  BY <1>1, <1>4, CustomerAsks, CustomerIsEarly
<1>5. ASSUME NEW j \in Calls, Call(j)
      PROVE  CashStep(k)
  BY <1>5, CallCashStep
<1>6. CASE Simulates \/ \E j \in Calls : Service(j)
  <2>1. PICK j \in Calls : \E result \in {"ok"} \cup Refusals[j] : Outcome(j, result)
    BY <1>6, ServiceAnswers, Zenon
  <2> QED BY <2>1, ServiceCashStep DEF Outcome
<1>7. CASE UNCHANGED vars
  BY <1>7 DEF vars, flowVars, CashStep, RequestOf, ToldOf, Journaled, Name
<1> QED BY <1>2, <1>3, <1>4, <1>5, <1>6, <1>7, Zenon DEF Next

\* A step in the session's terms is a step of the abstract request.
LEMMA DispenserStep == CashStep("dispense") => [Dispenser!Next]_(Dispenser!vars)
BY DEF CashStep, Dispenser!Next, Dispenser!vars, Dispenser!Ask, Dispenser!Acts,
       Dispenser!Tell, Dispenser!TellOutcome, Dispenser!TellUnknown

LEMMA AcceptorStep == CashStep("accept") => [Acceptor!Next]_(Acceptor!vars)
BY DEF CashStep, Acceptor!Next, Acceptor!vars, Acceptor!Ask, Acceptor!Acts,
       Acceptor!Tell, Acceptor!TellOutcome, Acceptor!TellUnknown

\* However device, timer and adapter interleave, a withdrawal treats its
\* dispense and a deposit its acceptance as the abstract cash request allows:
\* each is asked at most once, and books a movement or journals a failure only
\* when that is the truth and stays the truth (callAdapter,
\* CashWithdrawalModule, CashDepositModule).
THEOREM SessionImplementsCashDevice ==
    Spec => /\ Dispenser!Init /\ [][Dispenser!Next]_(Dispenser!vars)
            /\ Acceptor!Init /\ [][Acceptor!Next]_(Acceptor!vars)
<1>1. Init => Dispenser!Init /\ Acceptor!Init
  BY DEF Init, Dispenser!Init, Acceptor!Init, RequestOf, ToldOf, Calls
<1>2. TypeOK /\ Safe /\ [Next]_vars =>
         [Dispenser!Next]_(Dispenser!vars) /\ [Acceptor!Next]_(Acceptor!vars)
  BY NextCashStep, DispenserStep, AcceptorStep DEF CashMoves
<1> QED BY <1>1, <1>2, SpecTypeOK, SpecSafe, PTL DEF Spec

\* What a module acts upon, a booked movement or a journaled failure, is true
\* of its device from then on (callAdapter, CashWithdrawalModule,
\* CashDepositModule).
THEOREM SessionToldTheTruth == Spec => [](Dispenser!ToldTheTruth /\ Acceptor!ToldTheTruth)
<1> DEFINE True(k) == ToldOf(k) \in {"moved", "refused"} => ToldOf(k) = RequestOf(k)
<1>1. Init => \A k \in CashMoves : True(k)
  BY DEF Init, ToldOf, Calls, CashMoves
<1>2. ASSUME NEW k \in CashMoves, True(k), CashStep(k) PROVE True(k)'
  BY <1>2 DEF CashStep
<1>3. TypeOK /\ Safe /\ (\A k \in CashMoves : True(k)) /\ [Next]_vars =>
         (\A k \in CashMoves : True(k))'
  BY <1>2, NextCashStep
<1>4. (\A k \in CashMoves : True(k)) => Dispenser!ToldTheTruth /\ Acceptor!ToldTheTruth
  BY DEF CashMoves, Dispenser!ToldTheTruth, Acceptor!ToldTheTruth
<1> HIDE DEF True
<1> QED BY <1>1, <1>3, <1>4, SpecTypeOK, SpecSafe, PTL DEF Spec
-----------------------------------------------------------------------------
(***************************************************************************)
(* What the terminal shell's summary makes of a journal.                   *)
(***************************************************************************)
\* FirstOf finds the first event of the type, if there is one.
LEMMA FirstOfFinds ==
    ASSUME NEW events \in Seq(Events), NEW type
    PROVE  /\ FirstOf(events, type) # 0 =>
                 /\ FirstOf(events, type) \in DOMAIN events
                 /\ events[FirstOf(events, type)].type = type
           /\ FirstOf(events, type) = 0 => \A e \in Entries(events) : e.type # type
<1> DEFINE I == {i \in 1 .. Len(events) : events[i].type = type}
<1>1. FirstOf(events, type) = IF I # {} THEN Min(I) ELSE 0
  BY DEF FirstOf, SelectInSeq
<1>2. DOMAIN events = 1 .. Len(events) /\ Len(events) \in Nat
  OBVIOUS
<1>3. I # {} => Min(I) \in I
  <2> SUFFICES ASSUME I # {} PROVE Min(I) \in I
    OBVIOUS
  <2>1. I \in SUBSET Nat
    BY <1>2
  <2>2. PICK x \in I : \A y \in I : x <= y
    <3> HIDE DEF I
    <3> QED BY <2>1, LeastNat
  <2> HIDE DEF I
  <2> QED BY <2>2, Zenon DEF Min
<1>4. I = {} => \A e \in Entries(events) : e.type # type
  BY <1>2 DEF Entries
<1>5. \A i \in I : i \in DOMAIN events /\ events[i].type = type /\ i # 0
  BY <1>2
<1> HIDE DEF I
<1> QED BY <1>1, <1>3, <1>4, <1>5
-----------------------------------------------------------------------------
(***************************************************************************)
(* Every step leaves entries that stay true.                               *)
(***************************************************************************)
\* The screens at which the transaction may still be chosen.
Choosing == Before \ {"prompt"}

\* What an entry that the summary reads says of the session is still so.
Shown(e) ==
    /\ e.type = "transaction.selected" =>
          e.transaction = transaction /\ transaction # NoTransaction
    /\ e.type = "transaction.cancelled" =>
          e.transaction \in {NoTransaction, transaction}
    /\ e.type = "transaction.completed" =>
          /\ e.transaction = Name
          /\ \A a \in e.report.known : e.report.balances[a] = accounts[a]
          /\ e.report.cash \in {Unreported, {cash}}
    /\ e.type = "transaction.reconciliation_required" =>
          e.code = "ADAPTER_OUTCOME_UNKNOWN"

Wrote(type) == \E e \in Entries(journal) : e.type = type

\* The inductive invariant: every entry is true of the session, and the session
\* has written what it has done.
Screen ==
    /\ \A e \in Entries(journal) : Shown(e)
    /\ req["authorize"] # "idle" => Wrote("host.authorization_requested")
    /\ req["accept"] # "idle" => Wrote("transaction.selected")
    /\ pc \in Choosing => ~Wrote("transaction.selected")
    /\ pc = "prompt" =>
          transaction = "CardlessWithdrawal" \/ Wrote("transaction.selected")

\* Entries the summary does not read, and those that tell of the session now.
LEMMA OthersShown ==
    ASSUME NEW e, e.type \notin {"transaction.selected", "transaction.cancelled",
                                 "transaction.completed",
                                 "transaction.reconciliation_required"}
    PROVE  Shown(e)'
BY DEF Shown

LEMMA ReportShown ==
    ASSUME NEW e, NEW known \in SUBSET Accounts, NEW ledger, NEW money,
           e = ReportingEvent("transaction.completed", Name',
                              Report(known, ledger, money)),
           ledger = accounts', money \in {Unreported, {cash'}}
    PROVE  Shown(e)'
<1>1. e.type = "transaction.completed" /\ e.transaction = Name'
  BY ReportingEventFields
<1>2. e.report = Report(known, ledger, money)
  BY DEF ReportingEvent
<1>3. /\ e.report.known = known /\ e.report.cash = money
      /\ \A a \in known : e.report.balances[a] = ledger[a]
  BY <1>2 DEF Report
<1> QED BY <1>1, <1>3 DEF Shown

\* A step of the session itself, while it lasts.
LEMMA LiveScreen ==
    ASSUME TypeOK, Safe, Screen, Asks, ~Ended, NEW new,
           Entries(journal') = Entries(journal) \cup new,
           \A e \in new : Shown(e)',
           transaction' = transaction \/ pc \in Choosing,
           pc' \in Choosing =>
              pc \in Choosing /\ \A e \in new : e.type # "transaction.selected",
           pc' = "authorize" => \E e \in new : e.type = "host.authorization_requested",
           pc' = "accept" => Wrote("transaction.selected"),
           pc' = "prompt" =>
              \/ transaction' = "CardlessWithdrawal"
              \/ pc = "prompt" /\ transaction' = transaction
              \/ \E e \in new : e.type = "transaction.selected"
    PROVE  Screen'
<1>1. \A e \in Entries(journal') : Shown(e)'
  <2> SUFFICES ASSUME NEW e \in Entries(journal) PROVE Shown(e)'
    OBVIOUS
  <2>1. e.type \notin TerminalTypes
    BY DEF Safe, Phase
  <2>2. e.type = "transaction.selected" => transaction' = transaction
    BY DEF Screen, Wrote
  <2>3. Shown(e)
    BY DEF Screen
  <2> QED BY <2>1, <2>2, <2>3 DEF Shown, TerminalTypes
<1>2. \A type : Wrote(type)' <=> Wrote(type) \/ \E e \in new : e.type = type
  BY DEF Wrote
<1>3. req'["authorize"] # "idle" => Wrote("host.authorization_requested")'
  <2>1. req'["authorize"] = req["authorize"] \/ pc' = "authorize"
    BY MoneyCalls DEF Asks, Calls
  <2> QED BY <1>2, <2>1 DEF Screen
<1>4. req'["accept"] # "idle" => Wrote("transaction.selected")'
  <2>1. req'["accept"] = req["accept"] \/ pc' = "accept"
    BY MoneyCalls DEF Asks, Calls
  <2> QED BY <1>2, <2>1 DEF Screen
<1>5. pc' \in Choosing => ~Wrote("transaction.selected")'
  BY <1>2 DEF Screen
<1>6. pc' = "prompt" =>
         transaction' = "CardlessWithdrawal" \/ Wrote("transaction.selected")'
  BY <1>2 DEF Screen
<1> QED BY <1>1, <1>3, <1>4, <1>5, <1>6 DEF Screen

\* A service decides on an open request; an outcome that tells of cash has none
\* of the movements open.
LEMMA ServiceScreen ==
    ASSUME TypeOK, Trail, Screen, Simulates \/ \E k \in Calls : Service(k)
    PROVE  Screen'
<1>1. PICK k \in Calls, result \in {"ok"} \cup AllRefusals : Outcome(k, result)
  BY ServiceDecides
<1>2. /\ UNCHANGED <<pc, transaction, journal, accounts>>
      /\ req[k] = "open" /\ req' = [req EXCEPT ![k] = result]
  BY <1>1 DEF Outcome, flowVars
<1>3. \A j \in {"authorize", "accept"} : req'[j] # "idle" => req[j] # "idle"
  BY <1>2 DEF TypeOK
<1>4. ASSUME Wrote("transaction.completed")
      PROVE  cash' = cash
  <2>1. Untouched \/ \A j \in CashMoves : req[j] # "open"
    BY <1>4 DEF Trail, Verdict, Wrote
  <2>2. req["dispense"] # "open" /\ req["accept"] # "open"
    BY <2>1 DEF Untouched, CashMoves
  <2> QED BY <2>2, Zenon
          DEF Simulates, Service, ServiceActs, ServiceRefuses, HostAuthorizes,
              DispenserDispenses, AcceptorAccepts, ReaderReads, PrinterAnswers,
              Outcome, cashVars
<1>5. \A e \in Entries(journal') : Shown(e)'
  <2> SUFFICES ASSUME NEW e \in Entries(journal) PROVE Shown(e)'
    BY <1>2
  <2>1. Shown(e) /\ Name' = Name
    BY <1>2 DEF Screen, Name
  <2>2. e.type = "transaction.completed" => cash' = cash
    BY <1>4 DEF Wrote
  <2> QED BY <1>2, <2>1, <2>2 DEF Shown
<1>6. \A type : Wrote(type)' <=> Wrote(type)
  BY <1>2 DEF Wrote
<1> QED BY <1>2, <1>3, <1>5, <1>6 DEF Screen

\* The last step of a session.
LEMMA EndingScreen ==
    ASSUME TypeOK, Safe, Screen, Asks, ~Ended, Ended', NEW d, NEW e,
           \/ Entries(journal') = Entries(journal) \cup {d, e}
           \/ Entries(journal') = Entries(journal) \cup {e},
           Shown(d)', Shown(e)',
           transaction' = transaction \/ pc \in Choosing
    PROVE  Screen'
<1>1. PICK new \in {{d, e}, {e}} : Entries(journal') = Entries(journal) \cup new
  OBVIOUS
<1>2. pc' \notin Choosing \cup {"authorize", "accept", "prompt"}
  BY DEF Ended, Choosing, Before, PromptStates
<1>3. \A x \in new : Shown(x)'
  BY <1>1
<1> QED BY <1>1, <1>2, <1>3, LiveScreen

\* A step that writes nothing.
LEMMA SilentScreen ==
    ASSUME TypeOK, Safe, Screen, Asks, ~Ended, journal' = journal,
           transaction' = transaction \/ pc \in Choosing,
           pc' \in Choosing => pc \in Choosing,
           pc' # "authorize",
           pc' = "accept" => Wrote("transaction.selected"),
           pc' = "prompt" =>
              \/ transaction' = "CardlessWithdrawal"
              \/ pc = "prompt" /\ transaction' = transaction
    PROVE  Screen'
<1> DEFINE new == {}
<1>1. Entries(journal') = Entries(journal) \cup new
  OBVIOUS
<1>2. /\ \A e \in new : Shown(e)'
      /\ \A e \in new : e.type # "transaction.selected"
  OBVIOUS
<1> HIDE DEF new
<1> QED BY <1>1, <1>2, LiveScreen

\* A step that writes an entry the summary does not read, and goes on.
LEMMA GoingOnScreen ==
    ASSUME TypeOK, Safe, Screen, Asks, ~Ended, NEW new,
           Entries(journal') = Entries(journal) \cup new,
           \A e \in new : e.type \in {"flow.loaded", "session.started",
                "transaction.started", "device.status_changed",
                "host.authorization_requested", "host.authorization_result"},
           transaction' = transaction \/ pc \in Choosing,
           pc' \in Choosing => pc \in Choosing,
           pc' = "authorize" => \E e \in new : e.type = "host.authorization_requested",
           pc' # "accept",
           pc' = "prompt" => transaction' = "CardlessWithdrawal"
    PROVE  Screen'
<1>1. \A e \in new : Shown(e)' /\ e.type # "transaction.selected"
  BY OthersShown
<1> QED BY <1>1, LiveScreen

LEMMA CustomerScreen ==
    ASSUME TypeOK, Safe, Screen, Customer
    PROVE  Screen'
<1>0. Asks /\ pc \in Before /\ ~Ended
  BY CustomerAsks, CustomerIsEarly DEF Ended, Before, PromptStates
<1>fail. PICK fail : fail = Event("flow.failed", NoTransaction, NoCode)
  OBVIOUS
<1>failure. Shown(fail)'
  BY <1>fail, EventFields, OthersShown
<1>1. CASE EnterPin
  <2>1. /\ journal' = journal /\ pc \in Choosing /\ pc' \notin {"authorize", "accept"}
        /\ pc' = "prompt" => transaction' = "CardlessWithdrawal"
    BY <1>1 DEF EnterPin, StartLoop, AskTransaction, Choosing, Before, PromptStates
  <2> QED BY <1>0, <2>1, SilentScreen
<1>2. ASSUME NEW goOn \in BOOLEAN, AnswerPrinterDown(goOn)
      PROVE  Screen'
  <2>1. /\ pc \in Choosing /\ pc' \notin {"authorize", "accept"}
        /\ pc' = "prompt" => transaction' = "CardlessWithdrawal"
    BY <1>2 DEF AnswerPrinterDown, AskTransaction, Choosing, Before, PromptStates
  <2>2. CASE journal' = journal
    BY <1>0, <2>1, <2>2, SilentScreen
  <2>3. CASE pc' = "done" /\ Entries(journal') = Entries(journal) \cup
                    {Event("transaction.cancelled", NoTransaction, NoCode)}
    <3>1. PICK e : e = Event("transaction.cancelled", NoTransaction, NoCode)
      OBVIOUS
    <3>2. Shown(e)'
      BY <3>1, EventFields DEF Shown
    <3>3. Ended' /\ Entries(journal') = Entries(journal) \cup {e}
      BY <2>3, <3>1 DEF Ended
    <3> QED BY <1>0, <2>1, <3>2, <3>3, EndingScreen
  <2> QED BY <1>2, <2>2, <2>3, AnswerPrinterDownStep
<1>3. ASSUME NEW t \in Transactions \cup {UnknownTransaction}, SelectTransaction(t)
      PROVE  Screen'
  <2>1. pc \in Choosing /\ transaction' = t /\ UNCHANGED <<accounts, account>>
    BY <1>3 DEF SelectTransaction, ExecuteReport, Choosing, Before, PromptStates
  <2>2. PICK d : d = Event("transaction.selected", t, NoCode)
    OBVIOUS
  <2>3. d.type = "transaction.selected" /\ d.transaction = t
    BY <2>2, EventFields
  <2>4. t # NoTransaction
    BY DEF Transactions, Withdrawals, AdminTransactions, UnknownTransaction, NoTransaction
  <2>5. Shown(d)'
    BY <2>1, <2>3, <2>4 DEF Shown
  <2>6. CASE /\ Entries(journal') = Entries(journal) \cup {d}
             /\ pc' \in {"prompt", "done"}
    <3> DEFINE new == {d}
    <3>1. /\ Entries(journal') = Entries(journal) \cup new
          /\ \A e \in new : Shown(e)'
          /\ \E e \in new : e.type = "transaction.selected"
      BY <2>3, <2>5, <2>6
    <3>2. pc' \notin Choosing \cup {"authorize", "accept"}
      BY <2>6 DEF Choosing, Before, PromptStates
    <3> HIDE DEF new
    <3> QED BY <1>0, <2>1, <3>1, <3>2, LiveScreen
  <2>7. CASE /\ Entries(journal') = Entries(journal) \cup
                   {d, ReportingEvent("transaction.completed", "TerminalAdmin",
                                      Report(Accounts, accounts, {cash}))}
             /\ pc' = "done" /\ t \in AdminTransactions
    <3>1. PICK e, ledger, money :
             /\ e = ReportingEvent("transaction.completed", "TerminalAdmin",
                                   Report(Accounts, ledger, money))
             /\ ledger = accounts /\ money = {cash}
      OBVIOUS
    <3>2. Name' = "TerminalAdmin"
      BY <2>1, <2>7 DEF Name, ModuleName, AdminTransactions
    <3>3. cash' = cash
      BY <1>3, <2>7 DEF SelectTransaction, ExecuteReport, cashVars
    <3>4. Shown(e)'
      BY <2>1, <3>1, <3>2, <3>3, ReportShown
    <3>5. Ended' /\ Entries(journal') = Entries(journal) \cup {d, e}
      BY <2>7, <3>1 DEF Ended
    <3> QED BY <1>0, <2>1, <2>5, <3>4, <3>5, EndingScreen
  <2> QED BY <1>3, <2>2, <2>6, <2>7, SelectTransactionStep
<1>4. CASE \/ \E a \in Accounts : AnswerAccount(a)
           \/ \E a \in Amounts : AnswerAmount(a)
           \/ AnswerAccess
  <2>1. journal' = journal /\ pc = "prompt" /\ pc' = "prompt" /\ transaction' = transaction
    BY <1>4 DEF AnswerAccount, AnswerAmount, AnswerAccess, Asking, NextPrompt
  <2>2. pc' \notin Choosing
    BY <2>1 DEF Choosing
  <2> QED BY <1>0, <2>1, <2>2, SilentScreen
<1>5. CASE AnswerConfirm
  <2>1. pc = "prompt" /\ transaction' = transaction
    BY <1>5 DEF AnswerConfirm, Asking
  <2>2. CASE /\ pc' = "authorize"
             /\ Entries(journal') = Entries(journal) \cup
                   {Event("host.authorization_requested", Name, NoCode)}
    <3>1. PICK e : e = Event("host.authorization_requested", Name, NoCode)
      OBVIOUS
    <3> DEFINE new == {e}
    <3>2. /\ Entries(journal') = Entries(journal) \cup new
          /\ \A x \in new : x.type = "host.authorization_requested"
          /\ \E x \in new : x.type = "host.authorization_requested"
      BY <2>2, <3>1, EventFields
    <3>3. pc' \notin Choosing
      BY <2>2 DEF Choosing, Before, PromptStates
    <3> HIDE DEF new
    <3> QED BY <1>0, <2>1, <2>2, <3>2, <3>3, GoingOnScreen
  <2>3. CASE transaction = "CashDeposit" /\ pc' = "accept" /\ journal' = journal
    <3>1. Wrote("transaction.selected")
      BY <2>1, <2>3 DEF Screen
    <3>2. pc' \notin Choosing
      BY <2>3 DEF Choosing, Before, PromptStates
    <3> QED BY <1>0, <2>1, <2>3, <3>1, <3>2, SilentScreen
  <2> QED BY <1>5, <2>2, <2>3, AnswerConfirmStep
<1>6. CASE CancelTransaction
  <2>1. PICK e : e = Event("transaction.cancelled", transaction, NoCode)
    OBVIOUS
  <2>2. transaction' = transaction /\ Ended'
    BY <1>6 DEF CancelTransaction, flowVars, Ended
  <2>3. Shown(e)'
    BY <2>1, <2>2, EventFields DEF Shown
  <2>4. Entries(journal') = Entries(journal) \cup {e}
    BY <1>6, <2>1, CancelStep
  <2> QED BY <1>0, <2>2, <2>3, <2>4, EndingScreen
<1>7. ASSUME NEW display \in BOOLEAN, AnswerBalanceDisplay(display)
      PROVE  Screen'
  <2>1. PICK d, e, ledger, money :
           /\ d = Event("transaction.started", Name, NoCode)
           /\ e = Completed(Name, ledger, money)
           /\ ledger = accounts /\ money = Unreported
    OBVIOUS
  <2>2. UNCHANGED <<transaction, account, accounts>> /\ Name' = Name
    BY <1>7 DEF AnswerBalanceDisplay, BeginBalanceInquiry, Name
  <2>3. d.type = "transaction.started" /\ Shown(d)'
    BY <2>1, EventFields, OthersShown
  <2>4. Shown(e)'
    <3>1. {account} \in SUBSET Accounts
      BY DEF TypeOK
    <3>2. e = ReportingEvent("transaction.completed", Name',
                             Report({account}, ledger, money))
      BY <2>1, <2>2 DEF Completed
    <3> QED BY <2>1, <2>2, <3>1, <3>2, ReportShown
  <2>5. \/ /\ pc' = "failed"
           /\ Entries(journal') = Entries(journal) \cup {d, fail}
        \/ pc' = "done" /\ Entries(journal') = Entries(journal) \cup {d, e}
        \/ pc' = "print" /\ Entries(journal') = Entries(journal) \cup {d}
    BY <1>7, <1>fail, <2>1, BalanceDisplayStep
  <2>6. CASE Ended'
    BY <1>0, <1>failure, <2>2, <2>3, <2>4, <2>5, <2>6, EndingScreen DEF Ended
  <2>7. CASE pc' = "print" /\ Entries(journal') = Entries(journal) \cup {d}
    <3> DEFINE new == {d}
    <3>1. /\ Entries(journal') = Entries(journal) \cup new
          /\ \A x \in new : x.type = "transaction.started"
      BY <2>3, <2>7
    <3>2. pc' \notin Choosing
      BY <2>7 DEF Choosing, Before, PromptStates
    <3> HIDE DEF new
    <3> QED BY <1>0, <2>2, <2>7, <3>1, <3>2, GoingOnScreen
  <2> QED BY <2>5, <2>6, <2>7 DEF Ended
<1>8. ASSUME NEW direction \in {"Add", "Remove"}, NEW a \in Amounts,
             AnswerAdjustment(direction, a)
      PROVE  Screen'
  <2>1. PICK e, ledger, money :
           /\ e = ReportingEvent("transaction.completed", "TerminalAdmin",
                                 Report({}, ledger, money))
           /\ ledger = accounts /\ money = {cash'}
    OBVIOUS
  <2>2. /\ transaction = "AdminCashAdjustment" /\ transaction' = transaction
        /\ accounts' = accounts
    BY <1>8 DEF AnswerAdjustment, ExecuteAdjustment
  <2>3. Name' = "TerminalAdmin"
    BY <2>2 DEF Name, ModuleName, AdminTransactions
  <2>4. Shown(e)'
    BY <2>1, <2>2, <2>3, ReportShown
  <2>5. \/ pc' = "failed" /\ Entries(journal') = Entries(journal) \cup {fail}
        \/ pc' = "done" /\ Entries(journal') = Entries(journal) \cup {e}
    BY <1>8, <1>fail, <2>1, AdjustmentStep
  <2> QED BY <1>0, <1>failure, <2>2, <2>4, <2>5, EndingScreen DEF Ended
<1>9. CASE RejectPrompt
  <2>1. pc' = "failed" /\ Entries(journal') = Entries(journal) \cup {fail}
    BY <1>9, <1>fail, RejectStep
  <2>2. transaction' = transaction
    BY <1>9 DEF RejectPrompt, flowVars
  <2> QED BY <1>0, <1>failure, <2>1, <2>2, EndingScreen DEF Ended
<1> QED BY <1>1, <1>2, <1>3, <1>4, <1>5, <1>6, <1>7, <1>8, <1>9, Zenon DEF Customer

\* The printer's status, the card, and the exception of an adapter.
LEMMA StatusScreen ==
    ASSUME TypeOK, Safe, Screen, Asks, pc = "getStatus",
           NEW status \in {"up", "down"}, NEW events \in Seq(Events),
           StatusSettled(status, events),
           \A e \in Entries(events) : e.type = "device.status_changed"
    PROVE  Screen'
<1>1. Entries(journal') = Entries(journal) \cup Entries(events)
  BY StatusStep
<1>2. /\ pc \in Choosing /\ ~Ended /\ pc' \notin {"authorize", "accept"}
      /\ pc' = "prompt" => transaction' = "CardlessWithdrawal"
  BY DEF StatusSettled, StartLoop, AskTransaction, Choosing, Before, PromptStates, Ended
<1> DEFINE new == Entries(events)
<1> HIDE DEF new
<1>3. /\ Entries(journal') = Entries(journal) \cup new
      /\ \A e \in new : e.type = "device.status_changed"
  BY <1>1 DEF new
<1> QED BY <1>2, <1>3, GoingOnScreen

LEMMA ThrownScreen ==
    ASSUME TypeOK, Safe, Screen, Asks, ~Ended, FailFlow(<<>>), transaction' = transaction
    PROVE  Screen'
<1>1. PICK e : e = Event("flow.failed", NoTransaction, NoCode)
  OBVIOUS
<1>2. Shown(e)'
  BY <1>1, EventFields, OthersShown
<1>3. Ended' /\ Entries(journal') = Entries(journal) \cup {e}
  BY <1>1, JustFails DEF Ended
<1> QED BY <1>2, <1>3, EndingScreen

\* A refusal is journaled as a failure; only an unknown outcome is reconciled.
LEMMA RefusedScreen ==
    ASSUME TypeOK, Safe, Screen, Asks, ~Ended, NEW code \in EventCodes,
           CashRefused(code)
    PROVE  Screen'
<1>1. PICK e : e = Event(IF code = "ADAPTER_OUTCOME_UNKNOWN"
                         THEN "transaction.reconciliation_required"
                         ELSE "transaction.failed", Name, code)
  OBVIOUS
<1>2. Shown(e)'
  BY <1>1, EventFields DEF Shown
<1>3. Entries(journal') = Entries(journal) \cup {e}
  BY <1>1, CashRefusedStep, Zenon
<1>4. Ended' /\ transaction' = transaction
  BY DEF CashRefused, flowVars, Ended
<1> QED BY <1>2, <1>3, <1>4, EndingScreen

LEMMA AuthorizeScreen ==
    ASSUME TypeOK, Safe, Screen, Asks, pc = "authorize",
           NEW ok \in BOOLEAN, NEW code \in SettledCodes, ~ok => code \in EventCodes,
           AuthorizeSettled(ok, code)
    PROVE  Screen'
<1>1. ~Ended /\ transaction' = transaction
  BY DEF AuthorizeSettled, flowVars, Ended
<1>2. PICK a, d, e :
         /\ a = Event("host.authorization_result", Name, "HOST_APPROVED")
         /\ d = Event("host.authorization_result", Name, code)
         /\ e = Event("transaction.failed", Name, code)
  OBVIOUS
<1>3. /\ a.type = "host.authorization_result"
      /\ Shown(d)' /\ Shown(e)'
  BY <1>2, EventFields, OthersShown
<1>4. \/ pc' = "dispense" /\ Entries(journal') = Entries(journal) \cup {a}
      \/ pc' = "done" /\ Entries(journal') = Entries(journal) \cup {d, e}
  BY <1>2, AuthorizeStep
<1>5. CASE pc' = "dispense" /\ Entries(journal') = Entries(journal) \cup {a}
  <2> DEFINE new == {a}
  <2>1. /\ Entries(journal') = Entries(journal) \cup new
        /\ \A x \in new : x.type = "host.authorization_result"
    BY <1>3, <1>5
  <2>2. pc' \notin Choosing
    BY <1>5 DEF Choosing, Before, PromptStates
  <2> HIDE DEF new
  <2> QED BY <1>1, <1>5, <2>1, <2>2, GoingOnScreen
<1>6. CASE pc' = "done" /\ Entries(journal') = Entries(journal) \cup {d, e}
  BY <1>1, <1>3, <1>6, EndingScreen DEF Ended
<1> QED BY <1>4, <1>5, <1>6

LEMMA DispenseScreen ==
    ASSUME TypeOK, Safe, Screen, Asks, pc = "dispense",
           NEW ok \in BOOLEAN, NEW code \in SettledCodes, ~ok => code \in EventCodes,
           DispenseSettled(ok, code)
    PROVE  Screen'
<1>1. ~Ended
  BY DEF Ended
<1>2. CASE ~ok /\ CashRefused(code)
  BY <1>1, <1>2, RefusedScreen
<1>3. CASE FailFlow(<<>>) /\ transaction' = transaction
  BY <1>1, <1>3, ThrownScreen
<1>4. CASE pc' = "print" /\ journal' = journal /\ transaction' = transaction
  <2>1. pc' \notin Choosing
    BY <1>4 DEF Choosing, Before, PromptStates
  <2> QED BY <1>1, <1>4, <2>1, SilentScreen
<1> QED BY <1>2, <1>3, <1>4, Zenon DEF DispenseSettled, flowVars

LEMMA AcceptScreen ==
    ASSUME TypeOK, Safe, Screen, Asks, pc = "accept",
           NEW ok \in BOOLEAN, NEW code \in SettledCodes, ~ok => code \in EventCodes,
           AcceptSettled(ok, code)
    PROVE  Screen'
<1>1. ~Ended
  BY DEF Ended
<1>2. CASE ~ok /\ CashRefused(code)
  BY <1>1, <1>2, RefusedScreen
<1>3. CASE /\ ok
           /\ accounts' = [accounts EXCEPT ![account] = @ + amount]
           /\ Log(<<Completed(Name, accounts', {cash})>>)
           /\ pc' = "done"
           /\ UNCHANGED <<flowVars, cashVars, req>>
  <2>1. PICK e, ledger, money :
           /\ e = Completed(Name, ledger, money)
           /\ ledger = accounts' /\ money = {cash}
    OBVIOUS
  <2>2. UNCHANGED <<transaction, account, cash>> /\ Name' = Name
    BY <1>3 DEF flowVars, cashVars, Name
  <2>3. Shown(e)'
    <3>1. {account} \in SUBSET Accounts
      BY DEF TypeOK
    <3>2. e = ReportingEvent("transaction.completed", Name',
                             Report({account}, ledger, money))
      BY <2>1, <2>2 DEF Completed
    <3> QED BY <2>1, <2>2, <3>1, <3>2, ReportShown
  <2>4. Entries(journal') = Entries(journal) \cup {e}
    BY <1>3, <2>1, AcceptStep
  <2> QED BY <1>1, <1>3, <2>2, <2>3, <2>4, EndingScreen DEF Ended
<1> QED BY <1>2, <1>3, Zenon DEF AcceptSettled

LEMMA PrintScreen ==
    ASSUME TypeOK, Safe, Screen, Asks, pc = "print",
           NEW ok \in BOOLEAN, NEW code \in SettledCodes, ~ok => code \in EventCodes,
           PrintSettled(ok, code)
    PROVE  Screen'
<1>1. ~Ended /\ Ended' /\ UNCHANGED <<transaction, account, accounts, cash>>
  BY DEF PrintSettled, flowVars, cashVars, Ended
<1>2. PICK money \in SUBSET Int :
         /\ money = IF transaction \in Withdrawals THEN {cash} ELSE Unreported
         /\ Entries(journal') = Entries(journal) \cup
               (IF ok THEN {} ELSE {Event("device.status_changed", Name, code)})
               \cup {Completed(Name, accounts, money)}
  BY PrintStep
<1>3. PICK d, e, ledger :
         /\ d = Event("device.status_changed", Name, code)
         /\ e = Completed(Name, ledger, money)
         /\ ledger = accounts
  OBVIOUS
<1>4. Shown(d)'
  BY <1>3, EventFields, OthersShown
<1>5. Shown(e)'
  <2>1. {account} \in SUBSET Accounts /\ Name' = Name
    BY <1>1 DEF TypeOK, Name
  <2>2. e = ReportingEvent("transaction.completed", Name',
                           Report({account}, ledger, money))
    BY <1>3, <2>1 DEF Completed
  <2> QED BY <1>1, <1>2, <1>3, <2>1, <2>2, ReportShown
<1>6. \/ Entries(journal') = Entries(journal) \cup {d, e}
      \/ Entries(journal') = Entries(journal) \cup {e}
  BY <1>2, <1>3, Zenon
<1> QED BY <1>1, <1>4, <1>5, <1>6, EndingScreen

LEMMA CallScreen ==
    ASSUME TypeOK, Safe, Screen, NEW k \in Calls, Call(k)
    PROVE  Screen'
<1>0. Asks /\ pc = k /\ ~Ended
  BY CallAsks, CallSettles DEF Ended, Calls
<1>1. CASE Throws(k)
  <2>1. ASSUME NEW events \in Seq(Events), k = "getStatus", StatusSettled("down", events),
               \A e \in Entries(events) : e.type = "device.status_changed"
        PROVE  Screen'
    BY <1>0, <2>1, StatusScreen
  <2>2. CASE k = "print" /\ PrintSettled(FALSE, "RECEIPT_ERROR")
    BY <1>0, <2>2, PrintScreen, CommonCodes DEF SettledCodes
  <2>3. CASE k \notin {"getStatus", "print"}
    BY <1>0, <1>1, <2>3, ThrownScreen DEF Throws, flowVars
  <2> QED BY <1>1, <2>1, <2>2, <2>3, ThrowsStep
<1>2. ASSUME NEW ok \in BOOLEAN, NEW code \in SettledCodes,
             ~ok => code \in EventCodes, Settled(k, ok, code)
      PROVE  Screen'
  <2>1. CASE k = "getStatus" /\ StatusSettled(IF ok THEN "up" ELSE "down", <<>>)
    <3>1. <<>> \in Seq(Events) /\ Entries(<<>>) = {}
      BY DEF Entries
    <3> QED BY <1>0, <2>1, <3>1, StatusScreen
  <2>2. CASE k = "readCard" /\ CardSettled(ok, code)
    <3>1. pc \in Choosing /\ pc' \in {"pin", "failed"}
      BY <1>0, <2>2 DEF CardSettled, FailFlow, Choosing, Before
    <3>2. CASE journal' = journal
      BY <1>0, <3>1, <3>2, SilentScreen
    <3>3. CASE /\ pc' = "failed"
               /\ Entries(journal') = Entries(journal) \cup
                     {Event("transaction.failed", "CustomerIdentification", code),
                      Event("flow.failed", NoTransaction, NoCode)}
      <4>1. PICK d, e : /\ d = Event("transaction.failed", "CustomerIdentification", code)
                        /\ e = Event("flow.failed", NoTransaction, NoCode)
        OBVIOUS
      <4>2. Shown(d)' /\ Shown(e)'
        BY <4>1, EventFields, OthersShown
      <4>3. Ended' /\ Entries(journal') = Entries(journal) \cup {d, e}
        BY <3>3, <4>1 DEF Ended
      <4> QED BY <1>0, <3>1, <4>2, <4>3, EndingScreen
    <3> QED BY <1>2, <2>2, <3>2, <3>3, CardStep
  <2>3. CASE k = "authorize" /\ AuthorizeSettled(ok, code)
    BY <1>0, <1>2, <2>3, AuthorizeScreen
  <2>4. CASE k = "dispense" /\ DispenseSettled(ok, code)
    BY <1>0, <1>2, <2>4, DispenseScreen
  <2>5. CASE k = "accept" /\ AcceptSettled(ok, code)
    BY <1>0, <1>2, <2>5, AcceptScreen
  <2>6. CASE k = "print" /\ PrintSettled(ok, code)
    BY <1>0, <1>2, <2>6, PrintScreen
  <2> QED BY <1>2, <2>1, <2>2, <2>3, <2>4, <2>5, <2>6, Zenon DEF Settled
<1> QED BY <1>1, <1>2, CallSettles, Zenon

LEMMA ScreenStep ==
    ASSUME TypeOK, Safe, Trail, Screen, [Next]_vars
    PROVE  Screen'
<1>1. ASSUME NEW type \in CustomerTypes, Load(type)
      PROVE  Screen'
  <2>1. Asks /\ ~Ended /\ pc \in Choosing /\ pc' = "getStatus"
    BY <1>1 DEF Load, Asks, Ended, Choosing, Before
  <2>2. PICK d, e : /\ d = Event("flow.loaded", NoTransaction, NoCode)
                    /\ e = Event("session.started", NoTransaction, NoCode)
    OBVIOUS
  <2> DEFINE new == {d, e}
  <2>3. /\ Entries(journal') = Entries(journal) \cup new
        /\ \A x \in new : x.type \in {"flow.loaded", "session.started"}
    BY <1>1, <2>2, LoadStep, EventFields
  <2> HIDE DEF new
  <2> QED BY <2>1, <2>3, GoingOnScreen
<1>2. CASE LoadFails
  <2>1. Asks /\ ~Ended /\ pc \in Choosing /\ Ended'
    BY <1>2 DEF LoadFails, FailFlow, Asks, Ended, Choosing, Before
  <2>2. PICK d, e : /\ d = Event("flow.loaded", NoTransaction, NoCode)
                    /\ e = Event("flow.failed", NoTransaction, NoCode)
    OBVIOUS
  <2>3. Shown(d)' /\ Shown(e)'
    BY <2>2, EventFields, OthersShown
  <2>4. Entries(journal') = Entries(journal) \cup {d, e}
    BY <1>2, <2>2, LoadFailsStep
  <2> QED BY <2>1, <2>3, <2>4, EndingScreen
<1>3. CASE Customer
  BY <1>3, CustomerScreen
<1>4. ASSUME NEW k \in Calls, Call(k)
      PROVE  Screen'
  BY <1>4, CallScreen
<1>5. CASE Simulates \/ \E k \in Calls : Service(k)
  BY <1>5, ServiceScreen
<1>6. CASE UNCHANGED vars
  BY <1>6 DEF vars, flowVars, cashVars, Screen, Shown, Wrote, Name
<1> QED BY <1>1, <1>2, <1>3, <1>4, <1>5, <1>6, Zenon DEF Next

LEMMA SpecScreen == Spec => []Screen
<1>1. Init => Screen
  <2> SUFFICES ASSUME Init PROVE Screen
    OBVIOUS
  <2>1. PICK e : e = Event("runtime.started", NoTransaction, NoCode)
    OBVIOUS
  <2>2. e.type = "runtime.started"
    BY <2>1, EventFields
  <2>3. Entries(journal) = {e} /\ pc = "load"
    BY <2>1 DEF Init, Entries
  <2>4. req["authorize"] = "idle" /\ req["accept"] = "idle"
    BY DEF Init, Calls
  <2> QED BY <2>2, <2>3, <2>4 DEF Screen, Shown, Wrote
<1> QED BY <1>1, ScreenStep, SpecTypeOK, SpecSafe, SpecTrail, PTL DEF Spec
-----------------------------------------------------------------------------
(***************************************************************************)
(* What the summary reads is true.                                         *)
(***************************************************************************)
\* Each answer of the summary comes from an entry, or from the lack of one.
LEMMA ScreenMeansTruthful ==
    ASSUME TypeOK, Safe, Trail, Screen
    PROVE  ScreenTruthful
<1> SUFFICES ASSUME NEW file \in Persisted
             PROVE  LET summary == HistorySummary(file)
                        detail  == OperationDetail(summary)
                    IN  /\ detail = "untouched" => Untouched /\ AccountsUntouched
                        /\ file = journal /\ OperationState(summary, file) = "skipped" =>
                              Untouched
                        /\ detail \in {"HOST_DECLINED", "DISPENSER_OFFLINE",
                                       "CARD_READER_OFFLINE"} => ~AtLarge("dispense")
                        /\ detail = "ACCEPTOR_OFFLINE" => ~AtLarge("accept")
                        /\ summary.status = "completed" =>
                              /\ detail = "dispensed" => req["dispense"] = "ok"
                              /\ detail = "accepted" => req["accept"] = "ok"
                              /\ \A a \in summary.report.known :
                                    summary.report.balances[a] = accounts[a]
                              /\ summary.report.cash \subseteq {cash}
  BY DEF ScreenTruthful
<1> DEFINE summary == HistorySummary(file)
           detail == OperationDetail(summary)
           flowOk == ~Holds(file, "flow.failed")
           at(type) == FirstOf(file, type)
<1>1. file \in Seq(Events) /\ Entries(file) \subseteq Entries(journal)
  BY PersistedPrefix
<1>2. ASSUME NEW type
      PROVE  /\ at(type) # 0 => file[at(type)] \in Entries(journal)
                                /\ file[at(type)].type = type
             /\ at(type) = 0 => \A e \in Entries(file) : e.type # type
  <2>1. at(type) # 0 => file[at(type)] \in Entries(file)
    BY <1>1, FirstOfFinds DEF Entries
  <2> QED BY <1>1, <2>1, FirstOfFinds
<1> HIDE DEF at
<1>3. /\ summary.status = SummaryStatus(file, flowOk)
      /\ summary.failureCode = SummaryFailureCode(file, flowOk)
      /\ summary.transaction = SummaryTransaction(file)
      /\ at("transaction.completed") # 0 =>
            summary.report = file[at("transaction.completed")].report
  BY DEF HistorySummary, Summary, at
<1>4. /\ summary.status = "cancelled" => at("transaction.cancelled") # 0
      /\ summary.status = "completed" => at("transaction.completed") # 0
      /\ summary.status \notin {"cancelled", "failed", "completed"} =>
            /\ at("transaction.completed") = 0
            /\ at("transaction.cancelled") = 0
  BY <1>3 DEF SummaryStatus, Holds, at
<1>5. \/ /\ at("transaction.failed") # 0
         /\ summary.failureCode = file[at("transaction.failed")].code
      \/ /\ at("transaction.reconciliation_required") # 0
         /\ summary.failureCode = file[at("transaction.reconciliation_required")].code
      \/ summary.failureCode \in {"FLOW_FAILED", NoCode}
  BY <1>3, Zenon DEF SummaryFailureCode, at
<1>6. \/ /\ at("transaction.selected") # 0
         /\ summary.transaction = file[at("transaction.selected")].transaction
      \/ /\ at("transaction.selected") = 0 /\ at("transaction.cancelled") # 0
         /\ summary.transaction = file[at("transaction.cancelled")].transaction
      \/ /\ at("transaction.selected") = 0
         /\ summary.transaction = NoTransaction
  BY <1>3, Zenon DEF SummaryTransaction, at
<1>7. \A e \in Entries(journal) : Shown(e) /\ Verdict(e)
  BY DEF Screen, Trail
<1>8. summary.transaction \in {transaction, NoTransaction}
  BY <1>2, <1>6, <1>7 DEF Shown
<1>9. summary.status = "cancelled" => Untouched /\ AccountsUntouched
  <2>1. summary.status = "cancelled" => Untouched
    BY <1>2, <1>4, <1>7 DEF Verdict
  <2> QED BY <2>1 DEF Safe, CancelledMeansUntouched, Untouched
<1>10. /\ detail = "untouched" => summary.status = "cancelled"
       /\ detail \in KnownFailures => summary.failureCode = detail
       /\ detail = "dispensed" => summary.transaction \in {"CashWithdrawal", "FastCash"}
       /\ detail = "accepted" => summary.transaction = "CashDeposit"
  BY DEF OperationDetail, KnownFailures
<1> HIDE DEF summary, detail
<1>11. ASSUME detail \in KnownFailures \ {"ADAPTER_OUTCOME_UNKNOWN"}
       PROVE  ~AtLarge("dispense") /\ ~AtLarge("accept")
  <2>1. PICK e \in Entries(journal) : e.type = "transaction.failed"
    BY <1>2, <1>5, <1>7, <1>10, <1>11 DEF Shown, KnownFailures, NoCode
  <2>2. Untouched \/ FailureFits(e)
    BY <1>7, <2>1 DEF Verdict
  <2> QED BY <2>2 DEF Untouched, FailureFits, AtLarge
<1>12. ASSUME file = journal, OperationState(summary, file) = "skipped"
       PROVE  Untouched
  <2>1. CASE summary.status = "cancelled"
    BY <1>9, <2>1
  <2>2. CASE summary.status # "cancelled"
    <3>1. /\ summary.transaction = NoTransaction
          /\ at("host.authorization_requested") = 0
          /\ at("host.authorization_result") = 0
      BY <1>12, <2>2 DEF OperationState, Holds, at
    <3>2. /\ ~Wrote("host.authorization_requested")
          /\ ~Wrote("host.authorization_result")
      BY <1>2, <1>12, <3>1 DEF Wrote
    <3>3. ~Wrote("transaction.selected")
      BY <1>2, <1>6, <1>7, <1>12, <3>1 DEF Wrote, Shown
    <3>4. req["dispense"] = "idle"
      BY <3>2, EventFields DEF Safe, DispenseAuthorized, Wrote
    <3> QED BY <3>2, <3>3, <3>4 DEF Screen, Untouched
  <2> QED BY <2>1, <2>2
<1>13. ASSUME summary.status = "completed"
       PROVE  /\ detail = "dispensed" => req["dispense"] = "ok"
              /\ detail = "accepted" => req["accept"] = "ok"
              /\ \A a \in summary.report.known :
                    summary.report.balances[a] = accounts[a]
              /\ summary.report.cash \subseteq {cash}
  <2>1. PICK e : /\ e \in Entries(journal) /\ e.type = "transaction.completed"
                 /\ summary.report = e.report
    BY <1>2, <1>3, <1>4, <1>13
  <2>2. /\ e.transaction = ModuleName(transaction)
        /\ \A a \in e.report.known : e.report.balances[a] = accounts[a]
        /\ e.report.cash \in {Unreported, {cash}}
    BY <1>7, <2>1 DEF Shown, Name
  <2>3. Journaled("transaction.completed", ModuleName(transaction))
    BY <2>1, <2>2 DEF Journaled
  <2>4. detail = "dispensed" => req["dispense"] = "ok"
    <3>1. detail = "dispensed" => transaction \in Withdrawals
      BY <1>8, <1>10 DEF Withdrawals, NoTransaction
    <3> QED BY <2>3, <3>1 DEF Safe, CompletedMeansMoved
  <2>5. detail = "accepted" => req["accept"] = "ok"
    <3>1. detail = "accepted" => transaction = "CashDeposit"
      BY <1>8, <1>10 DEF NoTransaction
    <3> QED BY <2>3, <3>1, CashTransactionNames DEF Safe, CompletedMeansMoved
  <2>6. e.report.cash \subseteq {cash}
    BY <2>2 DEF Unreported
  <2> QED BY <2>1, <2>2, <2>4, <2>5, <2>6
<1>14. KnownFailures = {"HOST_DECLINED", "DISPENSER_OFFLINE", "ACCEPTOR_OFFLINE",
                        "CARD_READER_OFFLINE", "ADAPTER_OUTCOME_UNKNOWN"}
  BY DEF KnownFailures
<1> QED BY <1>9, <1>10, <1>11, <1>12, <1>13, <1>14 DEF summary, detail

\* The screen tells the customer and the operator the truth at any moment, of a
\* journal in full or cut short: what it calls cancelled was never asked for,
\* what it calls declined or refused cannot move, and what it calls completed
\* moved, with the balances and the cash it shows.  What it says of the cash of a
\* session in progress, or of one that failed otherwise, is left out: it can be
\* wrong (readJournalHistory and createTerminalSteps, on the journals of the
\* Execute methods).
THEOREM SpecScreenTruthful == Spec => []ScreenTruthful
BY ScreenMeansTruthful, SpecTypeOK, SpecSafe, SpecTrail, SpecScreen, PTL
-----------------------------------------------------------------------------
(***************************************************************************)
(* What the replay makes of a journal.                                     *)
(***************************************************************************)
\* The fold of the replay exists: its states, one after each event.
LEMMA ReplayUnfolds ==
    ASSUME NEW scoped, Len(scoped) \in Nat
    PROVE  /\ ReplayStates(scoped)[0] = InitialState(scoped)
           /\ \A n \in 1 .. Len(scoped) :
                 ReplayStates(scoped)[n]
                   = ReplayStep(ReplayStates(scoped)[n - 1], scoped[n])
<1> DEFINE N == Len(scoped)
           first == InitialState(scoped)
           Run(m, f) ==
               f = [n \in 0 .. m |-> IF n = 0 THEN first
                                     ELSE ReplayStep(f[n - 1], scoped[n])]
           NoRun == {m \in 0 .. N : ~ \E f : Run(m, f)}
<1>1. NoRun = {}
  <2> SUFFICES ASSUME NoRun # {} PROVE FALSE
    OBVIOUS
  <2>1. PICK m \in NoRun : \A l \in NoRun : m <= l
    <3>1. NoRun \in SUBSET Nat
      OBVIOUS
    <3> HIDE DEF NoRun
    <3> QED BY <3>1, LeastNat
  <2>2. m \in 0 .. N /\ ~ \E f : Run(m, f)
    BY <2>1
  <2>3. CASE m = 0
    <3> DEFINE g == [n \in 0 .. 0 |-> first]
    <3> HIDE DEF first
    <3>1. g = [n \in 0 .. 0 |-> IF n = 0 THEN first
                                ELSE ReplayStep(g[n - 1], scoped[n])]
      OBVIOUS
    <3> QED BY <2>2, <2>3, <3>1
  <2>4. CASE m # 0
    <3>1. m - 1 \in 0 .. N /\ m - 1 \notin NoRun
      BY <2>1, <2>2, <2>4
    <3>2. PICK f : Run(m - 1, f)
      BY <3>1
    <3> DEFINE g == [n \in 0 .. m |-> IF n = m THEN ReplayStep(f[m - 1], scoped[m])
                                               ELSE f[n]]
    <3> HIDE DEF first
    <3>3. ASSUME NEW n \in 0 .. m, n # 0
          PROVE  g[n] = ReplayStep(g[n - 1], scoped[n])
      <4>1. g[n - 1] = f[n - 1]
        BY <2>2, <3>3
      <4>2. CASE n = m
        BY <4>1, <4>2, <2>2
      <4>3. CASE n # m
        <5>1. n \in 0 .. m - 1
          BY <2>2, <4>3
        <5>2. f[n] = ReplayStep(f[n - 1], scoped[n])
          BY <3>2, <3>3, <5>1
        <5> QED BY <4>1, <4>3, <5>2, <3>3
      <4> QED BY <4>2, <4>3
    <3>4. g[0] = first
      <4>1. 0 \in 0 .. m - 1 /\ 0 \in 0 .. m
        BY <2>2, <2>4
      <4>2. f[0] = first
        BY <3>2, <4>1
      <4> QED BY <2>4, <4>1, <4>2
    <3>5. g = [n \in 0 .. m |-> g[n]]
      OBVIOUS
    <3> HIDE DEF g
    <3>6. Run(m, g)
      BY <3>3, <3>4, <3>5
    <3> QED BY <2>2, <3>6
  <2> QED BY <2>3, <2>4
<1>2. \E f : Run(N, f)
  <2>1. N \in 0 .. N
    OBVIOUS
  <2> QED BY <1>1, <2>1
<1>3. Run(N, ReplayStates(scoped))
  <2> DEFINE chosen == CHOOSE f : Run(N, f)
  <2>1. ReplayStates(scoped) = chosen
    BY Zenon DEF ReplayStates
  <2>2. Run(N, chosen)
    BY <1>2, Zenon
  <2> QED BY <2>1, <2>2
<1> HIDE DEF first
<1> DEFINE states == ReplayStates(scoped)
<1>4. \A n \in 0 .. N : states[n] = IF n = 0 THEN first
                                   ELSE ReplayStep(states[n - 1], scoped[n])
  <2> HIDE DEF states
  <2>1. Run(N, states)
    BY <1>3 DEF states
  <2> QED BY <2>1
<1> HIDE DEF states
<1>5. states[0] = first /\ \A n \in 1 .. N : states[n] = ReplayStep(states[n - 1], scoped[n])
  BY <1>4
<1> QED BY <1>5 DEF states, first
\* The parts of a replayed session.
ReplayFields == {"status", "selected", "active", "pending", "ended", "hosts",
                 "reconcile", "ledger", "errors"}

LEMMA ReplayStarts ==
    ASSUME NEW scoped
    PROVE  /\ DOMAIN InitialState(scoped) = ReplayFields
           /\ InitialState(scoped).ledger = NoReport
           /\ InitialState(scoped).status = "recorded"
           /\ InitialState(scoped).pending = [t \in NamesIn(scoped) |-> 0]
BY DEF InitialState, ReplayFields

\* The checks of a session's lifecycle change their own parts of it only.
LEMMA TrackHostFields ==
    ASSUME NEW state, NEW e, DOMAIN state = ReplayFields
    PROVE  /\ DOMAIN TrackHost(state, e) = ReplayFields
           /\ \A f \in ReplayFields \ {"pending", "errors"} :
                 TrackHost(state, e)[f] = state[f]
<1> DEFINE t == e.transaction
           asked == [state EXCEPT !.pending[t] = @ + 1]
           wrong == [state EXCEPT !.errors = @ \cup {"HOST_RESULT_WITHOUT_REQUEST"}]
           told == [state EXCEPT !.pending[t] = @ - 1]
<1>1. TrackHost(state, e) \in {asked, wrong, told, state}
  BY Zenon DEF TrackHost
<1>2. \A s \in {asked, wrong, told, state} :
         /\ DOMAIN s = ReplayFields
         /\ \A f \in ReplayFields \ {"pending", "errors"} : s[f] = state[f]
  BY DEF ReplayFields
<1> QED BY <1>1, <1>2

LEMMA TrackTransactionFields ==
    ASSUME NEW state, NEW e, DOMAIN state = ReplayFields
    PROVE  /\ DOMAIN TrackTransaction(state, e) = ReplayFields
           /\ \A f \in ReplayFields \ {"active", "ended", "errors"} :
                 TrackTransaction(state, e)[f] = state[f]
<1> DEFINE t == Subject(state, e)
           begun == [state EXCEPT !.active = @ \cup {t},
                                  !.errors = IF t \in state.active
                                      THEN @ \cup {"OVERLAPPING_TRANSACTION"}
                                      ELSE @]
           over == [state EXCEPT !.active = @ \ {t}, !.ended[t] = @ + 1]
<1>1. TrackTransaction(state, e) \in {state, begun, over}
  BY Zenon DEF TrackTransaction
<1>2. \A s \in {state, begun, over} :
         /\ DOMAIN s = ReplayFields
         /\ \A f \in ReplayFields \ {"active", "ended", "errors"} : s[f] = state[f]
  <2> HIDE DEF t
  <2> QED BY DEF ReplayFields
<1> QED BY <1>1, <1>2

LEMMA ApplyEventFields ==
    ASSUME NEW state, NEW e, DOMAIN state = ReplayFields
    PROVE  /\ DOMAIN ApplyEvent(state, e) = ReplayFields
           /\ ApplyEvent(state, e).status = StatusAfter(state, e)
           /\ ApplyEvent(state, e).ledger = LedgerAfter(state, e)
           /\ ApplyEvent(state, e).pending = state.pending
           /\ ApplyEvent(state, e).errors = state.errors
           /\ ApplyEvent(state, e).active = state.active
BY DEF ApplyEvent, ReplayFields

\* What one event does to the ledger and to the status.
LEMMA ReplayStepFields ==
    ASSUME NEW state, NEW e, DOMAIN state = ReplayFields
    PROVE  /\ DOMAIN ReplayStep(state, e) = ReplayFields
           /\ ReplayStep(state, e).status = StatusAfter(state, e)
           /\ ReplayStep(state, e).ledger = LedgerAfter(state, e)
           /\ ReplayStep(state, e).pending = TrackHost(state, e).pending
<1> DEFINE hosted == TrackHost(state, e)
           tracked == TrackTransaction(hosted, e)
<1>1. /\ DOMAIN hosted = ReplayFields
      /\ hosted.ledger = state.ledger /\ hosted.status = state.status
  BY TrackHostFields DEF ReplayFields
<1>2. /\ DOMAIN tracked = ReplayFields
      /\ tracked.ledger = state.ledger /\ tracked.status = state.status
      /\ tracked.pending = hosted.pending
  <2> HIDE DEF hosted
  <2> QED BY <1>1, TrackTransactionFields DEF ReplayFields
<1>3. /\ StatusAfter(tracked, e) = StatusAfter(state, e)
      /\ LedgerAfter(tracked, e) = LedgerAfter(state, e)
  <2> HIDE DEF tracked
  <2>1. StatusAfter(tracked, e) = StatusAfter(state, e)
    BY <1>2, Zenon DEF StatusAfter
  <2>2. LedgerAfter(tracked, e) = LedgerAfter(state, e)
    BY <1>2, Zenon DEF LedgerAfter
  <2> QED BY <2>1, <2>2
<1>4. ReplayStep(state, e) = ApplyEvent(tracked, e)
  BY Zenon DEF ReplayStep
<1> HIDE DEF tracked
<1> QED BY <1>2, <1>3, <1>4, ApplyEventFields

\* What the replay knows of the ledger after n events, when all of them report
\* the same books and the same cash.
LedgerIs(ledger, scoped, n, books, money) ==
    /\ \A a \in Accounts :
          a \in ledger.known <=> \E i \in 1 .. n : a \in scoped[i].report.known
    /\ \A a \in Accounts : a \in ledger.known => ledger.balances[a] = books[a]
    /\ ledger.cash = IF \E i \in 1 .. n : scoped[i].report.cash # Unreported
                     THEN money ELSE Unreported

LEMMA LedgerGrows ==
    ASSUME NEW scoped, NEW n \in Nat \ {0}, NEW books, NEW money,
           NEW state, LedgerIs(state.ledger, scoped, n - 1, books, money),
           NEW e, e = scoped[n],
           \A a \in e.report.known : e.report.balances[a] = books[a],
           e.report.cash \in {Unreported, money}
    PROVE  LedgerIs(LedgerAfter(state, e), scoped, n, books, money)
<1> DEFINE ledger == LedgerAfter(state, e)
<1>1. 1 .. n = (1 .. n - 1) \cup {n}
  OBVIOUS
<1>2. \A a \in Accounts :
         a \in ledger.known <=> \E i \in 1 .. n : a \in scoped[i].report.known
  <2>1. ledger.known = state.ledger.known \cup e.report.known
    BY DEF LedgerAfter
  <2> QED BY <1>1, <2>1 DEF LedgerIs
<1>3. \A a \in Accounts : a \in ledger.known => ledger.balances[a] = books[a]
  <2>1. \A a \in Accounts :
           ledger.balances[a] = IF a \in e.report.known THEN e.report.balances[a]
                                                        ELSE state.ledger.balances[a]
    BY DEF LedgerAfter
  <2>2. ledger.known = state.ledger.known \cup e.report.known
    BY DEF LedgerAfter
  <2> HIDE DEF ledger
  <2> QED BY <2>1, <2>2 DEF LedgerIs
<1>4. ledger.cash = IF \E i \in 1 .. n : scoped[i].report.cash # Unreported
                    THEN money ELSE Unreported
  <2>1. ledger.cash = IF e.report.cash # Unreported THEN e.report.cash
                                                    ELSE state.ledger.cash
    BY DEF LedgerAfter
  <2> HIDE DEF ledger
  <2>2. CASE e.report.cash # Unreported
    BY <2>1, <2>2
  <2>3. CASE e.report.cash = Unreported
    BY <1>1, <2>1, <2>3 DEF LedgerIs
  <2> QED BY <2>2, <2>3
<1> HIDE DEF ledger
<1> QED BY <1>2, <1>3, <1>4 DEF LedgerIs, ledger

LEMMA LedgerRead ==
    ASSUME NEW scoped \in Seq(Events), NEW books, NEW money,
           \A e \in Entries(scoped) :
              /\ \A a \in e.report.known : e.report.balances[a] = books[a]
              /\ e.report.cash \in {Unreported, money}
    PROVE  LedgerIs(ReplayScoped(scoped).ledger, scoped, Len(scoped), books, money)
<1> DEFINE N == Len(scoped)
           states == ReplayStates(scoped)
           Right(n) == /\ DOMAIN states[n] = ReplayFields
                       /\ LedgerIs(states[n].ledger, scoped, n, books, money)
           Wrong == {n \in 0 .. N : ~Right(n)}
<1>1. /\ states[0] = InitialState(scoped)
      /\ \A n \in 1 .. N : states[n] = ReplayStep(states[n - 1], scoped[n])
  BY ReplayUnfolds
<1>2. N \in Nat /\ \A i \in 1 .. N : scoped[i] \in Entries(scoped)
  BY DEF Entries
<1> HIDE DEF states
<1>3. Right(0)
  <2>1. states[0].ledger = NoReport /\ DOMAIN states[0] = ReplayFields
    BY <1>1, ReplayStarts
  <2>2. NoReport.known = {} /\ NoReport.cash = Unreported
    BY DEF NoReport
  <2> QED BY <2>1, <2>2 DEF LedgerIs
<1>4. ASSUME NEW n \in 1 .. N, Right(n - 1)
      PROVE  Right(n)
  <2>1. PICK e : e = scoped[n]
    OBVIOUS
  <2>2. /\ \A a \in e.report.known : e.report.balances[a] = books[a]
        /\ e.report.cash \in {Unreported, money}
    BY <1>2, <2>1
  <2>3. PICK before : before = states[n - 1]
    OBVIOUS
  <2>4. /\ DOMAIN before = ReplayFields
        /\ LedgerIs(before.ledger, scoped, n - 1, books, money)
    BY <1>4, <2>3
  <2>5. n \in Nat \ {0}
    OBVIOUS
  <2>6. LedgerIs(LedgerAfter(before, e), scoped, n, books, money)
    BY <2>1, <2>2, <2>4, <2>5, LedgerGrows
  <2>7. states[n] = ReplayStep(before, e)
    BY <1>1, <2>1, <2>3
  <2>8. /\ DOMAIN states[n] = ReplayFields
        /\ states[n].ledger = LedgerAfter(before, e)
    BY <2>4, <2>7, ReplayStepFields
  <2> QED BY <2>6, <2>8
<1> HIDE DEF Right
<1>5. Wrong = {}
  <2> SUFFICES ASSUME Wrong # {} PROVE FALSE
    OBVIOUS
  <2>1. PICK n \in Wrong : \A m \in Wrong : n <= m
    <3>1. Wrong \in SUBSET Nat
      OBVIOUS
    <3> HIDE DEF Wrong
    <3> QED BY <3>1, LeastNat
  <2>2. n \in 0 .. N /\ ~Right(n)
    BY <2>1
  <2>3. n # 0
    BY <1>3, <2>2
  <2>4. n \in 1 .. N /\ Right(n - 1)
    <3>1. n \in 1 .. N /\ n - 1 \in 0 .. N /\ ~(n <= n - 1)
      BY <1>2, <2>2, <2>3
    <3> QED BY <2>1, <3>1
  <2> QED BY <1>4, <2>2, <2>4
<1>6. Right(N)
  BY <1>2, <1>5
<1> QED BY <1>6, Zenon DEF Right, states, ReplayScoped
-----------------------------------------------------------------------------
(***************************************************************************)
(* Every step reports what it has changed.                                 *)
(***************************************************************************)
\* Some entry reports the balance of the account, or terminal cash.
BalanceReported(a) == \E e \in Entries(journal) : a \in e.report.known
CashReported == \E e \in Entries(journal) : e.report.cash # Unreported

\* The inductive invariant: what changed is reported once the session is over,
\* and until then the session is about to book and report it.
Told ==
    /\ ~Remote => \A k \in CashMoves : req[k] = "open" => pc = k
    /\ cash # InitialCash =>
          \/ pc = "failed"
          \/ pc = "done" /\ CashReported
          \/ ~Remote /\ pc \in CashMoves /\ req[pc] = "ok"
          \/ pc = "print" /\ transaction \in Withdrawals
    /\ pc = "done" =>
          \A a \in Accounts : accounts[a] # InitialBalance => BalanceReported(a)

\* A step of the session opens the request it goes on to wait for.
LEMMA OpenTold ==
    ASSUME TypeOK, Told, Asks, ~Remote, ~Ended,
           pc \in CashMoves => req[pc] # "open"
    PROVE  \A k \in CashMoves : req'[k] = "open" => pc' = k
<1>1. \A k \in CashMoves : req[k] # "open"
  BY DEF Told
<1>2. req' = req \/ (pc' \in Calls /\ req' = Opened(pc'))
  BY DEF Asks, Calls
<1> QED BY <1>1, <1>2 DEF Opened, TypeOK, CashMoves, Calls

\* A step that touches neither cash nor accounts, before there is anything to
\* report.
LEMMA QuietTold ==
    ASSUME TypeOK, Safe, Told, Asks, ~Ended, cash' = cash, accounts' = accounts,
           pc \notin {"print"} \cup CashMoves
    PROVE  Told'
<1>1. cash = InitialCash
  BY DEF Told, Ended
<1>2. AccountsUntouched
  BY DEF TypeOK, Safe, Phase, Calls, CashMoves, Ended
<1>3. ~Remote => \A k \in CashMoves : req'[k] = "open" => pc' = k
  BY OpenTold
<1> QED BY <1>1, <1>2, <1>3 DEF Told, AccountsUntouched

\* A session that ends, with nothing more to report than it does.
LEMMA EndingTold ==
    ASSUME TypeOK, Told, Asks, ~Ended, pc' = "done",
           ~Remote /\ pc \in CashMoves => req[pc] # "open",
           cash' # InitialCash => CashReported',
           \A a \in Accounts : accounts'[a] # InitialBalance => BalanceReported(a)'
    PROVE  Told'
<1>1. ~Remote => \A k \in CashMoves : req'[k] = "open" => pc' = k
  BY OpenTold
<1> QED BY <1>1 DEF Told

LEMMA FailingTold ==
    ASSUME TypeOK, Told, Asks, ~Ended, pc' = "failed",
           ~Remote /\ pc \in CashMoves => req[pc] # "open"
    PROVE  Told'
<1>1. ~Remote => \A k \in CashMoves : req'[k] = "open" => pc' = k
  BY OpenTold
<1> QED BY <1>1 DEF Told

\* An event that reports balances or cash.
LEMMA ReportTells ==
    ASSUME NEW known, NEW ledger, NEW money, NEW name, NEW e,
           e = ReportingEvent("transaction.completed", name,
                              Report(known, ledger, money)),
           e \in Entries(journal')
    PROVE  /\ money # Unreported => CashReported'
           /\ \A a \in known : BalanceReported(a)'
<1>1. e.report.known = known /\ e.report.cash = money
  BY DEF ReportingEvent, Report
<1> QED BY <1>1 DEF CashReported, BalanceReported

\* What the customer does before money is asked for changes no account, and
\* changes cash only by an adjustment, which reports it.
LEMMA CustomerTold ==
    ASSUME TypeOK, Safe, Told, Customer
    PROVE  Told'
<1>1. Asks /\ pc \in Before
  BY CustomerAsks, CustomerIsEarly
<1>2. ~Ended /\ pc \notin {"print"} \cup CashMoves
  BY <1>1 DEF Ended, Before, PromptStates, CashMoves
<1>3. \/ cash' = cash /\ accounts' = accounts
      \/ \E direction \in {"Add", "Remove"}, a \in Amounts :
            AnswerAdjustment(direction, a)
  <2>1. EnterPin => cash' = cash /\ accounts' = accounts
    BY DEF EnterPin, cashVars
  <2>2. \A goOn : AnswerPrinterDown(goOn) => cash' = cash /\ accounts' = accounts
    BY DEF AnswerPrinterDown, cashVars
  <2>3. \A t : SelectTransaction(t) => cash' = cash /\ accounts' = accounts
    BY DEF SelectTransaction, ExecuteReport, cashVars
  <2>4. \A a : AnswerAccount(a) \/ AnswerAmount(a)
                  => cash' = cash /\ accounts' = accounts
    BY DEF AnswerAccount, AnswerAmount, cashVars
  <2>5. AnswerAccess \/ CancelTransaction \/ RejectPrompt
           => cash' = cash /\ accounts' = accounts
    BY DEF AnswerAccess, CancelTransaction, RejectPrompt, cashVars
  <2>6. AnswerConfirm => cash' = cash /\ accounts' = accounts
    BY DEF AnswerConfirm, BeginWithdrawal, BeginDeposit, cashVars
  <2>7. \A display : AnswerBalanceDisplay(display)
                        => cash' = cash /\ accounts' = accounts
    BY DEF AnswerBalanceDisplay, BeginBalanceInquiry, cashVars
  <2> QED BY <2>1, <2>2, <2>3, <2>4, <2>5, <2>6, <2>7, Zenon DEF Customer
<1>4. ASSUME NEW direction \in {"Add", "Remove"}, NEW a \in Amounts,
             AnswerAdjustment(direction, a)
      PROVE  Told'
  <2>1. PICK e, money : /\ e = ReportingEvent("transaction.completed",
                               "TerminalAdmin", Report({}, accounts, money))
                        /\ money = {cash'}
    OBVIOUS
  <2>2. /\ accounts' = accounts
        /\ \/ pc' = "failed"
           \/ pc' = "done" /\ Entries(journal') = Entries(journal) \cup {e}
    BY <1>4, <2>1, AdjustmentStep
  <2>3. CASE pc' = "failed"
    BY <1>1, <1>2, <2>3, FailingTold
  <2>4. CASE pc' = "done" /\ Entries(journal') = Entries(journal) \cup {e}
    <3>1. CashReported'
      <4>1. e \in Entries(journal') /\ money # Unreported
        BY <2>1, <2>4 DEF Unreported
      <4> QED BY <2>1, <4>1, ReportTells
    <3>2. AccountsUntouched
      BY <1>1 DEF Safe, Phase, Before
    <3> QED BY <1>1, <1>2, <2>2, <2>4, <3>1, <3>2, EndingTold DEF AccountsUntouched
  <2> QED BY <2>2, <2>3, <2>4
<1> QED BY <1>1, <1>2, <1>3, <1>4, QuietTold

\* How a call settles, and that the simulated adapters answer first.
LEMMA CallAnswers ==
    ASSUME TypeOK, NEW k \in Calls, Call(k)
    PROVE  /\ pc = k
           /\ \/ Remote /\ Throws(k)
              \/ \E ok \in BOOLEAN, code \in SettledCodes :
                    /\ Settled(k, ok, code)
                    /\ ~ok => code \in EventCodes
                    /\ ~Remote => req[k] # "open" /\ (ok <=> req[k] = "ok")
<1>1. CASE Returns(k)
  <2>1. /\ pc = k /\ req[k] \in {"ok"} \cup AllRefusals
        /\ req[k] # "open" /\ Settled(k, req[k] = "ok", req[k])
    BY <1>1 DEF TypeOK, Returns
  <2>2. req[k] \in SettledCodes /\ (req[k] # "ok" => req[k] \in EventCodes)
    BY <2>1, CommonCodes DEF SettledCodes
  <2>3. PICK ok \in BOOLEAN : ok <=> req[k] = "ok"
    OBVIOUS
  <2>4. Settled(k, ok, req[k])
    <3>1. ok = (req[k] = "ok")
      BY <2>3
    <3> QED BY <2>1, <3>1
  <2> QED BY <2>1, <2>2, <2>3, <2>4
<1>2. CASE ~Returns(k)
  <2>1. Remote
    BY <1>2 DEF Call, Lost, TimesOut, Throws
  <2> QED BY <2>1, CallSettles
<1> QED BY <1>1, <1>2

\* The customer's money is out or in, and the session goes on or ends.
LEMMA DispenseTold ==
    ASSUME TypeOK, Safe, Told, Asks, pc = "dispense",
           NEW ok, NEW code, DispenseSettled(ok, code),
           ~Remote => req["dispense"] # "open" /\ (ok <=> req["dispense"] = "ok")
    PROVE  Told'
<1>1. /\ ~Ended /\ transaction \in Withdrawals /\ AccountsUntouched
  BY DEF Ended, Safe, Phase
<1>2. CASE ~ok /\ CashRefused(code)
  <2>1. pc' = "done" /\ UNCHANGED <<accounts, cash>>
    BY <1>2 DEF CashRefused, cashVars
  <2>2. cash = InitialCash
    BY <1>2 DEF Told, CashMoves
  <2> QED BY <1>1, <2>1, <2>2, EndingTold DEF AccountsUntouched
<1>3. CASE pc' = "failed"
  BY <1>1, <1>3, FailingTold
<1>4. CASE pc' = "print" /\ transaction' = transaction
  <2>1. ~Remote => \A j \in CashMoves : req'[j] = "open" => pc' = j
    BY <1>1, OpenTold
  <2> QED BY <1>1, <1>4, <2>1 DEF Told
<1> QED BY <1>2, <1>3, <1>4 DEF DispenseSettled, FailFlow, flowVars

LEMMA AcceptTold ==
    ASSUME TypeOK, Safe, Told, Asks, pc = "accept",
           NEW ok \in BOOLEAN, NEW code \in SettledCodes, ~ok => code \in EventCodes,
           AcceptSettled(ok, code),
           ~Remote => req["accept"] # "open" /\ (ok <=> req["accept"] = "ok")
    PROVE  Told'
<1>1. ~Ended /\ AccountsUntouched
  BY DEF Ended, Safe, Phase
<1>2. CASE ~ok /\ CashRefused(code)
  <2>1. pc' = "done" /\ UNCHANGED <<accounts, cash>>
    BY <1>2 DEF CashRefused, cashVars
  <2>2. cash = InitialCash
    BY <1>2 DEF Told, CashMoves
  <2> QED BY <1>1, <2>1, <2>2, EndingTold DEF AccountsUntouched
<1>3. CASE ~(~ok /\ CashRefused(code))
  <2>1. PICK e, ledger, money :
           /\ e = ReportingEvent("transaction.completed", Name,
                                 Report({account}, ledger, money))
           /\ ledger = accounts' /\ money = {cash}
    OBVIOUS
  <2>2. /\ pc' = "done" /\ accounts' = [accounts EXCEPT ![account] = @ + amount]
        /\ e \in Entries(journal')
    <3>1. e = Completed(Name, accounts', {cash})
      BY <2>1 DEF Completed
    <3> QED BY <1>3, <3>1, AcceptStep
  <2>3. CashReported' /\ BalanceReported(account)'
    <3>1. PICK a : a = account
      OBVIOUS
    <3>2. CashReported' /\ BalanceReported(a)'
      BY <2>1, <2>2, <3>1, ReportTells DEF Unreported
    <3>3. account' = a
      BY <1>3, <3>1 DEF AcceptSettled, flowVars
    <3> QED BY <3>2, <3>3 DEF BalanceReported
  <2>4. \A a \in Accounts : accounts'[a] # InitialBalance => a = account
    BY <1>1, <2>2 DEF AccountsUntouched, TypeOK
  <2>5. account' = account
    BY <1>3 DEF AcceptSettled, flowVars
  <2>6. \A a \in Accounts : accounts'[a] # InitialBalance => BalanceReported(a)'
    BY <2>3, <2>4, <2>5 DEF BalanceReported
  <2> QED BY <1>1, <2>2, <2>3, <2>6, EndingTold
<1> QED BY <1>2, <1>3

LEMMA PrintTold ==
    ASSUME TypeOK, Safe, Told, Asks, pc = "print",
           NEW ok \in BOOLEAN, NEW code \in SettledCodes, ~ok => code \in EventCodes,
           PrintSettled(ok, code)
    PROVE  Told'
<1>1. ~Ended /\ pc' = "done" /\ UNCHANGED <<cash, accounts, account>>
  BY DEF Ended, PrintSettled, flowVars, cashVars
<1>2. PICK money \in SUBSET Int :
         /\ money = IF transaction \in Withdrawals THEN {cash} ELSE Unreported
         /\ Entries(journal') = Entries(journal) \cup
               (IF ok THEN {} ELSE {Event("device.status_changed", Name, code)})
               \cup {Completed(Name, accounts, money)}
  BY PrintStep
<1>3. PICK e, ledger, known :
         /\ e = ReportingEvent("transaction.completed", Name,
                               Report(known, ledger, money))
         /\ ledger = accounts /\ known = {account}
  OBVIOUS
<1>4. e \in Entries(journal')
  BY <1>2, <1>3 DEF Completed
<1>5. /\ money # Unreported => CashReported'
      /\ \A a \in known : BalanceReported(a)'
  BY <1>3, <1>4, ReportTells
<1>6. cash # InitialCash => CashReported'
  <2>1. cash # InitialCash => transaction \in Withdrawals
    BY DEF Told, CashMoves
  <2> QED BY <1>2, <1>5, <2>1 DEF Unreported
<1>7. \A a \in Accounts : accounts[a] # InitialBalance => a \in known
  BY <1>3 DEF Safe, Phase, AccountsUntouched
<1> QED BY <1>1, <1>5, <1>6, <1>7, EndingTold DEF CashMoves

LEMMA CallTold ==
    ASSUME TypeOK, Safe, Told, NEW k \in Calls, Call(k)
    PROVE  Told'
<1>1. Asks /\ pc = k
  BY CallAsks, CallAnswers
<1>2. ~Ended
  BY <1>1 DEF Ended, Calls
<1>3. CASE UNCHANGED <<cash, accounts>> /\ k \notin {"print"} \cup CashMoves
  BY <1>1, <1>2, <1>3, QuietTold
<1>4. CASE Remote /\ Throws(k)
  <2>1. CASE k = "print" /\ PrintSettled(FALSE, "RECEIPT_ERROR")
    BY <1>1, <2>1, PrintTold, CommonCodes DEF SettledCodes
  <2>2. CASE k \notin {"getStatus", "print"} /\ FailFlow(<<>>)
    BY <1>1, <1>2, <1>4, <2>2, FailingTold DEF FailFlow
  <2>3. CASE k = "getStatus"
    BY <1>3, <1>4, <2>3 DEF Throws, StatusSettled, cashVars, CashMoves
  <2> QED BY <1>4, <2>1, <2>2, <2>3 DEF Throws
<1>5. ASSUME NEW ok \in BOOLEAN, NEW code \in SettledCodes, Settled(k, ok, code),
             ~ok => code \in EventCodes,
             ~Remote => req[k] # "open" /\ (ok <=> req[k] = "ok")
      PROVE  Told'
  <2>1. CASE k = "getStatus" \/ k = "readCard" \/ k = "authorize"
    BY <1>3, <1>5, <2>1 DEF Settled, StatusSettled, CardSettled,
                           AuthorizeSettled, cashVars, CashMoves
  <2>2. CASE k = "dispense"
    BY <1>1, <1>5, <2>2, DispenseTold DEF Settled
  <2>3. CASE k = "accept"
    BY <1>1, <1>5, <2>3, AcceptTold DEF Settled
  <2>4. CASE k = "print"
    BY <1>1, <1>5, <2>4, PrintTold DEF Settled
  <2> QED BY <2>1, <2>2, <2>3, <2>4 DEF Calls
<1> QED BY <1>4, <1>5, CallAnswers

\* Devices and the host act on an open request: in the simulated world on the
\* one the session waits for, and in the remote one beyond its cash.
LEMMA ServiceTold ==
    ASSUME TypeOK, Told, Simulates \/ \E k \in Calls : Service(k)
    PROVE  Told'
<1>1. PICK k \in Calls, result \in {"ok"} \cup AllRefusals : Outcome(k, result)
  BY ServiceDecides
<1>2. /\ UNCHANGED <<pc, transaction, journal, accounts>>
      /\ req[k] = "open" /\ req' = [req EXCEPT ![k] = result]
  BY <1>1 DEF Outcome, flowVars
<1>3. result # "open" /\ \A j \in Calls : req'[j] = "open" => req[j] = "open"
  BY <1>2, CommonCodes, RefusalsDecide DEF TypeOK, AllRefusals
<1>4. \/ cash' = cash
      \/ ~Remote /\ req["dispense"] = "open" /\ req'["dispense"] = "ok"
      \/ ~Remote /\ req["accept"] = "open" /\ req'["accept"] = "ok"
  <2>1. DispenserDispenses => \/ cash' = cash
                              \/ Outcome("dispense", "ok")
    BY DEF DispenserDispenses, cashVars
  <2>2. AcceptorAccepts => \/ cash' = cash
                           \/ Outcome("accept", "ok")
    BY DEF AcceptorAccepts, cashVars
  <2>3. \A j \in CashMoves : Outcome(j, "ok") => req[j] = "open" /\ req'[j] = "ok"
    BY DEF Outcome, TypeOK, CashMoves, Calls
  <2>4. \A j \in Calls : Service(j) => cash' = cash
    BY DEF Service, ServiceActs, ServiceRefuses, cashVars
  <2>5. HostAuthorizes \/ ReaderReads \/ PrinterAnswers => cash' = cash
    BY DEF HostAuthorizes, ReaderReads, PrinterAnswers, cashVars
  <2> QED BY <2>1, <2>2, <2>3, <2>4, <2>5 DEF Simulates, CashMoves
<1>5. ~Remote => \A j \in CashMoves : req'[j] = "open" => pc' = j
  BY <1>2, <1>3 DEF Told, CashMoves, Calls
<1>6. cash' # InitialCash =>
         \/ pc' = "failed"
         \/ pc' = "done" /\ CashReported'
         \/ ~Remote /\ pc' \in CashMoves /\ req'[pc'] = "ok"
         \/ pc' = "print" /\ transaction' \in Withdrawals
  <2>1. CASE cash' = cash
    <3>1. ASSUME pc \in CashMoves, req[pc] = "ok" PROVE req'[pc] = "ok"
      BY <1>2, <3>1 DEF TypeOK, CashMoves, Calls
    <3> QED BY <1>2, <2>1, <3>1 DEF Told, CashReported
  <2>2. CASE cash' # cash
    BY <1>2, <1>4, <2>2 DEF Told, CashMoves
  <2> QED BY <2>1, <2>2
<1>7. pc' = "done" =>
         \A a \in Accounts : accounts'[a] # InitialBalance => BalanceReported(a)'
  BY <1>2 DEF Told, BalanceReported
<1> QED BY <1>5, <1>6, <1>7 DEF Told

LEMMA ToldStep ==
    ASSUME TypeOK, Safe, Told, [Next]_vars
    PROVE  Told'
<1>1. ASSUME NEW type \in CustomerTypes, Load(type)
      PROVE  Told'
  BY <1>1, QuietTold DEF Load, Asks, Ended, CashMoves, cashVars
<1>2. CASE LoadFails
  BY <1>2, QuietTold DEF LoadFails, FailFlow, Asks, Ended, CashMoves, cashVars
<1>3. CASE Customer
  BY <1>3, CustomerTold
<1>4. ASSUME NEW k \in Calls, Call(k)
      PROVE  Told'
  BY <1>4, CallTold
<1>5. CASE Simulates \/ \E k \in Calls : Service(k)
  BY <1>5, ServiceTold
<1>6. CASE UNCHANGED vars
  BY <1>6 DEF vars, flowVars, cashVars, Told, CashReported, BalanceReported
<1> QED BY <1>1, <1>2, <1>3, <1>4, <1>5, <1>6, Zenon DEF Next

LEMMA SpecTold == Spec => []Told
<1>1. Init => Told
  BY DEF Init, Told, Calls, CashMoves
<1> QED BY <1>1, ToldStep, SpecTypeOK, SpecSafe, PTL DEF Spec
-----------------------------------------------------------------------------
(***************************************************************************)
(* Every step writes at the end of the journal.                            *)
(***************************************************************************)
\* The types of which a journal holds one event at most.
OnceTypes == {"transaction.started", "host.authorization_requested",
              "host.authorization_result"}

\* What a step may write, and a second event after it.
Opening(d) ==
    /\ d.type \in NamingTypes => d.transaction # NoTransaction
    /\ d.type = "flow.failed" => d.code = NoCode
    /\ d.type = "flow.loaded" <=> pc = "load"
    /\ d.type = "transaction.started" =>
          /\ pc = "prompt" /\ pc' \in {"print", "done", "failed"}
          /\ d.transaction = "BalanceInquiry" /\ transaction' = "BalanceInquiry"
    /\ d.type = "host.authorization_requested" <=> pc' = "authorize"
    /\ d.type = "host.authorization_requested" =>
          pc = "prompt" /\ d.transaction = Name'
    /\ d.type = "host.authorization_result" =>
          /\ pc = "authorize" /\ pc' \in {"dispense", "done"}
          /\ d.transaction = Name
    /\ pc = "print" /\ d.type \in TerminalTypes =>
          d.type = "transaction.completed" /\ d.transaction = Name

Following(d, e) ==
    /\ e.type \in NamingTypes => e.transaction # NoTransaction
    /\ e.type = "flow.failed" => e.code = NoCode
    /\ e.type \notin OnceTypes \cup {"flow.loaded"}
    /\ d.type \in Outcomes => d.type = "transaction.failed" /\ e.type = "flow.failed"
    /\ d.type = "transaction.started" \/ pc = "print" =>
          \/ e.type = "flow.failed"
          \/ e.type = "transaction.completed" /\ e.transaction = Name

\* A step writes nothing, one event, or two.
Writes ==
    \E d, e :
       \/ /\ journal' = journal
          /\ pc' = "authorize" => pc = "authorize"
          /\ pc = "load" => pc' = "load"
       \/ journal' = journal \o <<d>> /\ Opening(d)
       \/ journal' = journal \o <<d, e>> /\ Opening(d) /\ Following(d, e)

LEMMA WritesNone ==
    ASSUME journal' = journal, pc' = "authorize" => pc = "authorize",
           pc = "load" => pc' = "load"
    PROVE  Writes
BY Zenon DEF Writes

LEMMA WritesOne ==
    ASSUME NEW d, Opening(d),
           journal' = journal \o <<d>> \/ journal' = journal \o Append(<<>>, d)
    PROVE  Writes
<1>1. journal' = journal \o <<d>>
  OBVIOUS
<1> QED BY <1>1, Zenon DEF Writes

LEMMA WritesTwo ==
    ASSUME NEW d, NEW e, Opening(d), Following(d, e),
           journal' = journal \o <<d, e>> \/ journal' = journal \o Append(<<d>>, e)
    PROVE  Writes
<1>1. journal' = journal \o <<d, e>>
  OBVIOUS
<1> QED BY <1>1, Zenon DEF Writes

\* The failure of the flow, alone or after an event that allows it.
LEMMA FlowFailureWrites ==
    ASSUME pc # "load", FailFlow(<<>>)
    PROVE  Writes
<1>1. PICK d : d = Event("flow.failed", NoTransaction, NoCode)
  OBVIOUS
<1>2. Opening(d)
  BY <1>1, EventFields DEF FailFlow, Opening, NamingTypes, TerminalTypes
<1>3. journal' = journal \o Append(<<>>, d)
  BY <1>1, Zenon DEF FailFlow, Log
<1> QED BY <1>2, <1>3, WritesOne

LEMMA FailureWrites ==
    ASSUME NEW d, Opening(d), d.type \in Outcomes => d.type = "transaction.failed",
           FailFlow(<<d>>)
    PROVE  Writes
<1>1. PICK e : e = Event("flow.failed", NoTransaction, NoCode)
  OBVIOUS
<1>2. Following(d, e)
  BY <1>1, EventFields DEF Following, NamingTypes, TerminalTypes, OnceTypes
<1>3. journal' = journal \o Append(<<d>>, e)
  BY <1>1, Zenon DEF FailFlow, Log
<1> QED BY <1>2, <1>3, WritesTwo

\* An event that says little: nothing is asked of it but a name.
LEMMA PlainOpening ==
    ASSUME NEW d, pc \notin {"load", "print"}, pc' # "authorize",
           d.type \notin OnceTypes \cup {"flow.loaded"},
           d.type \in NamingTypes => d.transaction # NoTransaction,
           d.type = "flow.failed" => d.code = NoCode
    PROVE  Opening(d)
BY DEF Opening, OnceTypes

LEMMA EveryName ==
    ASSUME TypeOK
    PROVE  Name = NoTransaction => transaction = NoTransaction
BY DEF TypeOK, Name, ModuleName, NoTransaction, AdminTransactions

LEMMA ChosenName == TypeOK /\ transaction \in Transactions => Name # NoTransaction
BY EveryName DEF Transactions, Withdrawals, AdminTransactions, NoTransaction

LEMMA CustomerWrites ==
    ASSUME TypeOK, Customer
    PROVE  Writes
<1>0. pc \in PromptStates
  BY DEF Customer, EnterPin, AnswerPrinterDown, SelectTransaction,
         AnswerAccount, AnswerAmount, AnswerAccess, AnswerConfirm,
         CancelTransaction, AnswerBalanceDisplay, AnswerAdjustment,
         RejectPrompt, Asking, PromptStates
<1>1. CASE EnterPin
  BY <1>0, <1>1, WritesNone
     DEF EnterPin, StartLoop, AskTransaction, PromptStates
<1>2. ASSUME NEW goOn, AnswerPrinterDown(goOn)
      PROVE  Writes
  <2>1. PICK d : d = Event("transaction.cancelled", NoTransaction, NoCode)
    OBVIOUS
  <2>2. \/ journal' = journal /\ pc' # "authorize"
        \/ journal' = journal \o <<d>> /\ pc' = "done"
    BY <1>2, <2>1 DEF AnswerPrinterDown, AskTransaction, Log
  <2>3. d.type = "transaction.cancelled"
    BY <2>1, EventFields
  <2>4. pc' = "done" => Opening(d)
    BY <1>0, <2>3, PlainOpening DEF PromptStates, OnceTypes, NamingTypes, TerminalTypes
  <2> QED BY <1>0, <2>2, <2>4, WritesNone, WritesOne DEF PromptStates
<1>3. ASSUME NEW t \in Transactions \cup {UnknownTransaction}, SelectTransaction(t)
      PROVE  Writes
  <2>1. PICK d, e : /\ d = Event("transaction.selected", t, NoCode)
                    /\ e = ReportingEvent("transaction.completed", "TerminalAdmin",
                                          Report(Accounts, accounts, {cash}))
    OBVIOUS
  <2>2. /\ journal' = journal \o <<d>> \/ journal' = journal \o Append(<<d>>, e)
        /\ pc' # "authorize"
    BY <1>3, <2>1, Zenon DEF SelectTransaction, ExecuteReport, Log
  <2>3. /\ d.type = "transaction.selected" /\ d.transaction = t
        /\ e.type = "transaction.completed" /\ e.transaction = "TerminalAdmin"
    BY <2>1, EventFields, ReportingEventFields
  <2>4. Opening(d)
    <3>1. t # NoTransaction
      BY DEF Transactions, Withdrawals, AdminTransactions, NoTransaction, UnknownTransaction
    <3> QED BY <1>0, <2>2, <2>3, <3>1, PlainOpening DEF PromptStates, OnceTypes
  <2>5. Following(d, e)
    BY <1>0, <2>3 DEF Following, PromptStates, OnceTypes, NoTransaction,
                     Outcomes, TerminalTypes
  <2> QED BY <2>2, <2>4, <2>5, WritesOne, WritesTwo
<1>4. ASSUME NEW a, AnswerAccount(a) \/ AnswerAmount(a)
      PROVE  Writes
  BY <1>0, <1>4, WritesNone DEF AnswerAccount, AnswerAmount, NextPrompt, PromptStates
<1>5. CASE AnswerAccess
  BY <1>0, <1>5, WritesNone DEF AnswerAccess, NextPrompt, PromptStates
<1>6. CASE AnswerConfirm
  <2>1. CASE transaction \in Withdrawals /\ BeginWithdrawal
    <3>1. PICK d : d = Event("host.authorization_requested", Name, NoCode)
      OBVIOUS
    <3>2. Name # NoTransaction /\ Name' = Name /\ pc = "prompt"
      BY <1>6, <2>1, ChosenName DEF AnswerConfirm, Asking, Transactions, Name
    <3>3. d.type = "host.authorization_requested" /\ d.transaction = Name
      BY <3>1, EventFields
    <3>4. pc' = "authorize" /\ journal' = journal \o <<d>>
      BY <2>1, <3>1 DEF BeginWithdrawal, Log
    <3>5. Opening(d)
      BY <3>2, <3>3, <3>4 DEF Opening, TerminalTypes
    <3> QED BY <3>4, <3>5, WritesOne
  <2>2. CASE BeginDeposit
    BY <1>0, <2>2, WritesNone DEF BeginDeposit, PromptStates
  <2> QED BY <1>6, <2>1, <2>2 DEF AnswerConfirm
<1>7. CASE CancelTransaction
  <2>1. PICK d : d = Event("transaction.cancelled", transaction, NoCode)
    OBVIOUS
  <2>2. journal' = journal \o <<d>> /\ pc' = "done"
    BY <1>7, <2>1 DEF CancelTransaction, Log
  <2>3. d.type = "transaction.cancelled"
    BY <2>1, EventFields
  <2>4. Opening(d)
    BY <1>0, <2>2, <2>3, PlainOpening DEF PromptStates, OnceTypes, NamingTypes, TerminalTypes
  <2> QED BY <2>2, <2>4, WritesOne
<1>8. ASSUME NEW display, AnswerBalanceDisplay(display)
      PROVE  Writes
  <2>1. PICK d, e : /\ d = Event("transaction.started", Name, NoCode)
                    /\ e = Completed(Name, accounts, Unreported)
    OBVIOUS
  <2>2. /\ d.type = "transaction.started" /\ d.transaction = Name
        /\ e.type = "transaction.completed" /\ e.transaction = Name
    BY <2>1, EventFields, ReportingEventFields DEF Completed
  <2>3. pc = "prompt" /\ Name = "BalanceInquiry" /\ transaction' = "BalanceInquiry"
    BY <1>8, CashTransactionNames DEF AnswerBalanceDisplay, Asking, Name
  <2>4. /\ pc' \in {"print", "done", "failed"}
        /\ FailFlow(<<d>>) \/ journal' \in {journal \o <<d, e>>, journal \o <<d>>}
    BY <1>8, <2>1 DEF AnswerBalanceDisplay, BeginBalanceInquiry, Log, FailFlow
  <2>5. Opening(d)
    BY <2>2, <2>3, <2>4 DEF Opening, NoTransaction
  <2>6. Following(d, e)
    BY <2>2, <2>3 DEF Following, OnceTypes, NoTransaction, Outcomes, TerminalTypes
  <2>7. d.type \notin Outcomes
    BY <2>2 DEF Outcomes, TerminalTypes
  <2> QED BY <2>4, <2>5, <2>6, <2>7, FailureWrites, WritesOne, WritesTwo
<1>9. ASSUME NEW direction, NEW a, AnswerAdjustment(direction, a)
      PROVE  Writes
  <2>1. PICK e : e = ReportingEvent("transaction.completed", "TerminalAdmin",
                                    Report({}, accounts, {cash'}))
    OBVIOUS
  <2>2. FailFlow(<<>>) \/ (journal' = journal \o <<e>> /\ pc' = "done")
    BY <1>9, <2>1 DEF AnswerAdjustment, ExecuteAdjustment, Log
  <2>3. e.type = "transaction.completed" /\ e.transaction = "TerminalAdmin"
    BY <2>1, ReportingEventFields
  <2>4. pc' = "done" => Opening(e)
    BY <1>0, <2>3, PlainOpening DEF PromptStates, OnceTypes, NoTransaction
  <2> QED BY <1>0, <2>2, <2>4, FlowFailureWrites, WritesOne DEF PromptStates
<1>10. CASE RejectPrompt
  BY <1>0, <1>10, FlowFailureWrites DEF RejectPrompt, PromptStates
<1> QED BY <1>1, <1>2, <1>3, <1>4, <1>5, <1>6, <1>7, <1>8, <1>9, <1>10, Zenon DEF Customer

\* The refusal of a cash movement.
LEMMA RefusalWrites ==
    ASSUME TypeOK, Safe, pc \in CashMoves, NEW code, CashRefused(code)
    PROVE  Writes
<1>1. PICK d : d = Event(IF code = "ADAPTER_OUTCOME_UNKNOWN"
                         THEN "transaction.reconciliation_required"
                         ELSE "transaction.failed", Name, code)
  OBVIOUS
<1>2. journal' = journal \o <<d>> /\ pc' = "done"
  BY <1>1, Zenon DEF CashRefused, Log
<1>3. /\ d.type \in {"transaction.reconciliation_required", "transaction.failed"}
      /\ d.transaction = Name
  BY <1>1, EventFields
<1>4. Name # NoTransaction
  BY ChosenName DEF Safe, Phase, CashMoves, Transactions
<1>5. Opening(d)
  BY <1>2, <1>3, <1>4, PlainOpening DEF CashMoves, OnceTypes
<1> QED BY <1>2, <1>5, WritesOne

LEMMA SettledWrites ==
    ASSUME TypeOK, Safe, NEW k \in Calls, pc = k,
           NEW ok, NEW code, Settled(k, ok, code)
    PROVE  Writes
<1>1. CASE k = "getStatus"
  <2>1. /\ journal' = journal \o <<>>
        /\ pc' # "authorize"
    BY <1>1 DEF Settled, StatusSettled, StartLoop, AskTransaction, Log
  <2>2. journal' = journal
    BY <2>1 DEF TypeOK
  <2> QED BY <1>1, <2>1, <2>2, WritesNone
<1>2. CASE k = "readCard"
  <2>1. PICK d : d = Event("transaction.failed", "CustomerIdentification", code)
    OBVIOUS
  <2>2. d.type = "transaction.failed" /\ d.transaction = "CustomerIdentification"
    BY <2>1, EventFields
  <2>3. (journal' = journal /\ pc' = "pin") \/ FailFlow(<<d>>)
    BY <1>2, <2>1, Zenon DEF Settled, CardSettled
  <2>4. FailFlow(<<d>>) => Opening(d)
    BY <1>2, <2>2, PlainOpening DEF FailFlow, OnceTypes, NoTransaction
  <2> QED BY <1>2, <2>2, <2>3, <2>4, WritesNone, FailureWrites
<1>3. CASE k = "authorize"
  <2>1. PICK d, e : /\ d = Event("host.authorization_result", Name,
                                 IF ok THEN "HOST_APPROVED" ELSE code)
                    /\ e = Event("transaction.failed", Name, code)
    OBVIOUS
  <2>2. /\ journal' = journal \o <<d>> \/ journal' = journal \o <<d, e>>
        /\ pc' \in {"dispense", "done"}
    BY <1>3, <2>1, Zenon DEF Settled, AuthorizeSettled, Log
  <2>3. /\ d.type = "host.authorization_result" /\ d.transaction = Name
        /\ e.type = "transaction.failed" /\ e.transaction = Name
    BY <2>1, EventFields
  <2>4. Name # NoTransaction
    BY <1>3, ChosenName DEF Safe, Phase, Transactions
  <2>5. Opening(d)
    BY <1>3, <2>2, <2>3, <2>4 DEF Opening
  <2>6. Following(d, e)
    BY <1>3, <2>3, <2>4 DEF Following, OnceTypes, Outcomes, TerminalTypes
  <2> QED BY <2>2, <2>5, <2>6, WritesOne, WritesTwo
<1>4. CASE k = "dispense"
  <2>1. \/ CashRefused(code)
        \/ FailFlow(<<>>)
        \/ journal' = journal /\ pc' = "print"
    BY <1>4, Zenon DEF Settled, DispenseSettled
  <2> QED BY <1>4, <2>1, RefusalWrites, FlowFailureWrites, WritesNone DEF CashMoves
<1>5. CASE k = "accept"
  <2>1. PICK d : d = Completed(Name, accounts', {cash})
    OBVIOUS
  <2>2. CashRefused(code) \/ (journal' = journal \o <<d>> /\ pc' = "done")
    BY <1>5, <2>1, Zenon DEF Settled, AcceptSettled, Log
  <2>3. d.type = "transaction.completed" /\ d.transaction = Name
    BY <2>1, ReportingEventFields DEF Completed
  <2>4. Name # NoTransaction
    BY <1>5, ChosenName DEF Safe, Phase, Transactions
  <2>5. pc' = "done" => Opening(d)
    BY <1>5, <2>3, <2>4, PlainOpening DEF OnceTypes
  <2> QED BY <1>5, <2>2, <2>5, RefusalWrites, WritesOne DEF CashMoves
<1>6. CASE k = "print"
  <2>1. PICK d, e, money :
           /\ d = Event("device.status_changed", Name, code)
           /\ money = IF transaction \in Withdrawals THEN {cash} ELSE Unreported
           /\ e = Completed(Name, accounts, money)
    OBVIOUS
  <2>2. /\ \/ journal' = journal \o Append(<<>>, e)
           \/ journal' = journal \o Append(<<d>>, e)
        /\ pc' = "done"
    BY <1>6, <2>1 DEF Settled, PrintSettled, Log
  <2>3. /\ d.type = "device.status_changed"
        /\ e.type = "transaction.completed" /\ e.transaction = Name
    BY <2>1, EventFields, ReportingEventFields DEF Completed
  <2>4. Name # NoTransaction
    BY <1>6, ChosenName DEF Safe, Phase, Transactions
  <2>5. Opening(d) /\ Opening(e)
    BY <1>6, <2>2, <2>3, <2>4 DEF Opening, NamingTypes, TerminalTypes
  <2>6. Following(d, e)
    BY <2>3, <2>4 DEF Following, OnceTypes, Outcomes, TerminalTypes
  <2> QED BY <2>2, <2>5, <2>6, WritesOne, WritesTwo
<1> QED BY <1>1, <1>2, <1>3, <1>4, <1>5, <1>6 DEF Calls

LEMMA CallWrites ==
    ASSUME TypeOK, Safe, NEW k \in Calls, Call(k)
    PROVE  Writes
<1>1. CASE Throws(k)
  <2>1. CASE k = "getStatus"
    <3>1. PICK d : d = Event("device.status_changed", NoTransaction,
                             "PRINTER_STATUS_ERROR")
      OBVIOUS
    <3>2. pc = "getStatus" /\ StatusSettled("down", <<d>>)
      BY <1>1, <2>1, <3>1 DEF Throws
    <3>3. journal' = journal \o <<d>> /\ pc' # "authorize"
      BY <3>2 DEF StatusSettled, StartLoop, AskTransaction, Log
    <3>4. Opening(d)
      <4>1. d.type = "device.status_changed"
        BY <3>1, EventFields
      <4> QED BY <3>2, <3>3, <4>1, PlainOpening DEF OnceTypes, NamingTypes, TerminalTypes
    <3> QED BY <3>3, <3>4, WritesOne
  <2>2. CASE k = "print"
    BY <1>1, <2>2, SettledWrites DEF Throws, Settled
  <2>3. CASE k \notin {"getStatus", "print"}
    BY <1>1, <2>3, FlowFailureWrites DEF Throws, Calls
  <2> QED BY <2>1, <2>2, <2>3
<1>2. ASSUME NEW ok, NEW code, pc = k, Settled(k, ok, code)
      PROVE  Writes
  BY <1>2, SettledWrites
<1> QED BY <1>1, <1>2, CallSettles, Zenon

LEMMA NextWrites ==
    ASSUME TypeOK, Safe, [Next]_vars
    PROVE  Writes
<1>1. ASSUME NEW type, Load(type)
      PROVE  Writes
  <2>1. PICK d, e : /\ d = Event("flow.loaded", NoTransaction, NoCode)
                    /\ e = Event("session.started", NoTransaction, NoCode)
    OBVIOUS
  <2>2. d.type = "flow.loaded" /\ e.type = "session.started"
    BY <2>1, EventFields
  <2>3. journal' = journal \o <<d, e>> /\ pc = "load" /\ pc' = "getStatus"
    BY <1>1, <2>1 DEF Load, Log
  <2>4. Opening(d) /\ Following(d, e)
    BY <2>2, <2>3 DEF Opening, Following, OnceTypes, NamingTypes, Outcomes, TerminalTypes
  <2> QED BY <2>3, <2>4, WritesTwo
<1>2. CASE LoadFails
  <2>1. PICK d : d = Event("flow.loaded", NoTransaction, NoCode)
    OBVIOUS
  <2>2. d.type = "flow.loaded"
    BY <2>1, EventFields
  <2>3. FailFlow(<<d>>) /\ pc = "load" /\ pc' = "failed"
    BY <1>2, <2>1 DEF LoadFails, FailFlow
  <2>4. Opening(d) /\ d.type \notin Outcomes
    BY <2>2, <2>3 DEF Opening, NamingTypes, Outcomes, TerminalTypes
  <2> QED BY <2>3, <2>4, FailureWrites
<1>3. CASE Simulates \/ \E k \in Calls : Service(k)
  BY <1>3, ServiceDecides, WritesNone DEF Outcome
<1>4. CASE UNCHANGED vars
  BY <1>4, WritesNone DEF vars
<1> QED BY <1>1, <1>2, <1>3, <1>4, CustomerWrites, CallWrites, Zenon DEF Next

\* The journal begins with the anchor.
Anchored == journal # <<>> /\ journal[1].type = "runtime.started"

LEMMA AnchorStays ==
    ASSUME TypeOK, Anchored, Writes
    PROVE  Anchored'
<1>1. PICK d, e : journal' \in {journal, journal \o <<d>>, journal \o <<d, e>>}
  BY Zenon DEF Writes
<1>2. journal \in Seq(Events) /\ Len(journal) \in Nat \ {0}
  BY DEF TypeOK, Anchored
<1>3. journal' # <<>> /\ journal'[1] = journal[1]
  BY <1>1, <1>2
<1> QED BY <1>3 DEF Anchored
-----------------------------------------------------------------------------
(***************************************************************************)
(* What the replay reconstructs is true.                                   *)
(***************************************************************************)
\* Only an outcome reports anything.
LEMMA OnlyOutcomesReport ==
    ASSUME NEW e \in Events, e.type # "transaction.completed"
    PROVE  e.report.known = {} /\ e.report.cash = Unreported
<1>1. e.report = NoReport
  BY Zenon DEF Events
<1> QED BY <1>1 DEF NoReport

LEMMA ScopedEntries ==
    ASSUME NEW file \in Seq(Events), file # <<>>
    PROVE  /\ Tail(file) \in Seq(Events)
           /\ Entries(Tail(file)) \subseteq Entries(file)
           /\ \A e \in Entries(file) : e = file[1] \/ e \in Entries(Tail(file))
           /\ \A e : e \in Entries(Tail(file))
                       <=> \E i \in 1 .. Len(Tail(file)) : e = Tail(file)[i]
<1>1. /\ Tail(file) \in Seq(Events) /\ Len(Tail(file)) = Len(file) - 1
      /\ \A i \in 1 .. Len(Tail(file)) : Tail(file)[i] = file[i + 1]
  OBVIOUS
<1>2. Len(file) \in Nat \ {0} /\ DOMAIN file = 1 .. Len(file)
  OBVIOUS
<1>3. DOMAIN Tail(file) = 1 .. Len(Tail(file))
  BY <1>1
<1>4. \A i \in 1 .. Len(file) : i # 1 => i - 1 \in 1 .. Len(Tail(file))
  BY <1>1, <1>2
<1>5. \A e \in Entries(file) : e = file[1] \/ e \in Entries(Tail(file))
  <2> SUFFICES ASSUME NEW i \in 1 .. Len(file), i # 1
               PROVE  file[i] \in Entries(Tail(file))
    BY <1>2 DEF Entries
  <2>1. file[i] = Tail(file)[i - 1] /\ i - 1 \in DOMAIN Tail(file)
    BY <1>1, <1>2, <1>3, <1>4
  <2> QED BY <2>1 DEF Entries
<1>6. Entries(Tail(file)) \subseteq Entries(file)
  <2> SUFFICES ASSUME NEW i \in 1 .. Len(Tail(file))
               PROVE  Tail(file)[i] \in Entries(file)
    BY <1>3 DEF Entries
  <2>1. Tail(file)[i] = file[i + 1] /\ i + 1 \in DOMAIN file
    BY <1>1, <1>2
  <2> QED BY <2>1 DEF Entries
<1>7. \A e : e \in Entries(Tail(file)) <=> \E i \in 1 .. Len(Tail(file)) : e = Tail(file)[i]
  BY <1>3 DEF Entries
<1> QED BY <1>1, <1>5, <1>6, <1>7

\* The ledger that is replayed is the ledger of now.
LEMMA ToldMeansRecovered ==
    ASSUME TypeOK, Screen, Told, Anchored
    PROVE  LedgerRecovered
<1> SUFFICES ASSUME pc = "done" PROVE LedgerRecovered
  BY DEF LedgerRecovered
<1> DEFINE scoped == Tail(journal)
           ledger == Replay(journal).ledger
<1>1. /\ scoped \in Seq(Events) /\ Entries(scoped) \subseteq Entries(journal)
      /\ \A e \in Entries(journal) : e = journal[1] \/ e \in Entries(scoped)
      /\ \A e : e \in Entries(scoped) <=> \E i \in 1 .. Len(scoped) : e = scoped[i]
  BY ScopedEntries DEF TypeOK, Anchored
<1>2. \A e \in Entries(journal) : e \in Events
  BY DEF TypeOK, Entries
<1> HIDE DEF scoped
<1>3. \A e \in Entries(journal) :
         /\ e.type = "runtime.started" => e.report.known = {} /\ e.report.cash = Unreported
         /\ \A a \in e.report.known : e.report.balances[a] = accounts[a]
         /\ e.report.cash \in {Unreported, {cash}}
  BY <1>2, OnlyOutcomesReport DEF Screen, Shown
<1>4. LedgerIs(ReplayScoped(scoped).ledger, scoped, Len(scoped), accounts, {cash})
  <2>1. \A e \in Entries(scoped) :
           /\ \A a \in e.report.known : e.report.balances[a] = accounts[a]
           /\ e.report.cash \in {Unreported, {cash}}
    BY <1>1, <1>3
  <2> QED BY <1>1, <2>1, LedgerRead
<1>5. ledger = ReplayScoped(scoped).ledger
  BY DEF Replay, scoped
<1> HIDE DEF ledger
<1>6. LedgerIs(ledger, scoped, Len(scoped), accounts, {cash})
  BY <1>4, <1>5
<1>7. \A a \in Accounts :
         accounts[a] = IF a \in ledger.known THEN ledger.balances[a]
                                             ELSE InitialBalance
  <2> SUFFICES ASSUME NEW a \in Accounts, accounts[a] # InitialBalance
               PROVE  a \in ledger.known
    BY <1>6 DEF LedgerIs
  <2>1. PICK e \in Entries(journal) : a \in e.report.known
    BY DEF Told, BalanceReported
  <2>2. e \in Entries(scoped)
    BY <1>1, <1>3, <2>1 DEF Anchored
  <2> QED BY <1>1, <1>6, <2>1, <2>2 DEF LedgerIs
<1>8. {cash} = IF ledger.cash = Unreported THEN {InitialCash} ELSE ledger.cash
  <2>1. {cash} # Unreported
    BY DEF Unreported
  <2>2. CASE \E i \in 1 .. Len(scoped) : scoped[i].report.cash # Unreported
    BY <1>6, <2>1, <2>2 DEF LedgerIs
  <2>3. CASE ~ \E i \in 1 .. Len(scoped) : scoped[i].report.cash # Unreported
    <3>1. ledger.cash = Unreported
      BY <1>6, <2>3 DEF LedgerIs
    <3>2. ~CashReported
      BY <1>1, <1>3, <2>3 DEF CashReported, Anchored
    <3>3. cash = InitialCash
      BY <3>2 DEF Told, CashMoves
    <3> QED BY <3>1, <3>3
  <2> QED BY <2>2, <2>3
<1> QED BY <1>7, <1>8 DEF LedgerRecovered, ledger

LEMMA SpecAnchored == Spec => []Anchored
<1>1. Init => Anchored
  BY EventFields DEF Init, Anchored
<1>2. TypeOK /\ Safe /\ Anchored /\ [Next]_vars => Anchored'
  BY NextWrites, AnchorStays
<1> QED BY <1>1, <1>2, SpecTypeOK, SpecSafe, PTL DEF Spec

\* A session that ran to its end leaves a journal from which, with the opening
\* ledger, every balance and terminal cash can be reconstructed: the newest
\* balance that is reported of each account is the one it has (applyEvent, on
\* the outcomes of the Execute methods).
THEOREM SpecLedgerRecovered == Spec => []LedgerRecovered
BY ToldMeansRecovered, SpecTypeOK, SpecScreen, SpecTold, SpecAnchored, PTL
-----------------------------------------------------------------------------
(***************************************************************************)
(* The order of a session's events.                                        *)
(***************************************************************************)
\* A journal begins with the anchor, and a session with the load of its flow.
BeginsRight(events) ==
    /\ events # <<>>
    /\ events[1].type = "runtime.started" /\ events[1].transaction = NoTransaction
    /\ Len(events) > 1 => events[2].type = "flow.loaded"

\* Every event names the transaction it has to name.
NamedRight(events) ==
    \A i \in 1 .. Len(events) :
        events[i].type \in NamingTypes => events[i].transaction # NoTransaction

\* One event of a type, and the host answers what it was asked.
AskedOnceRight(events) ==
    /\ \A i, j \in 1 .. Len(events) :
          events[i].type \in OnceTypes /\ events[i].type = events[j].type => i = j
    /\ \A j \in 1 .. Len(events) : events[j].type = "host.authorization_result" =>
          \E i \in 1 .. j - 1 : /\ events[i].type = "host.authorization_requested"
                                /\ events[i].transaction = events[j].transaction

\* Only the failure of the flow follows an outcome, and only that of a failed
\* transaction.
EndsRight(events) ==
    \A i \in 1 .. Len(events) - 1 : events[i].type \in Outcomes =>
        /\ i = Len(events) - 1
        /\ events[i].type = "transaction.failed"
        /\ events[Len(events)].type = "flow.failed"
        /\ events[Len(events)].code = NoCode

\* A transaction that was started ends, if it does, by being completed.
InquiryRight(events) ==
    \A i, j \in 1 .. Len(events) :
        events[i].type = "transaction.started" /\ events[j].type \in TerminalTypes =>
            /\ events[j].type = "transaction.completed"
            /\ events[j].transaction = events[i].transaction

WellOrdered(events) ==
    /\ BeginsRight(events)
    /\ NamedRight(events)
    /\ AskedOnceRight(events)
    /\ EndsRight(events)
    /\ InquiryRight(events)

\* An event that may come next.
Fits(events, d) ==
    /\ d.type \in NamingTypes => d.transaction # NoTransaction
    /\ Len(events) = 1 => d.type = "flow.loaded"
    /\ d.type \in OnceTypes => \A e \in Entries(events) : e.type # d.type
    /\ d.type = "host.authorization_result" =>
          \E e \in Entries(events) : /\ e.type = "host.authorization_requested"
                                     /\ e.transaction = d.transaction
    /\ \A i \in 1 .. Len(events) : events[i].type \in Outcomes =>
          /\ i = Len(events)
          /\ events[i].type = "transaction.failed"
          /\ d.type = "flow.failed" /\ d.code = NoCode
    /\ d.type \in TerminalTypes =>
          \A e \in Entries(events) : e.type = "transaction.started" =>
             d.type = "transaction.completed" /\ d.transaction = e.transaction
    /\ d.type = "transaction.started" =>
          \A e \in Entries(events) : e.type \notin TerminalTypes

LEMMA OrderGrows ==
    ASSUME NEW s \in Seq(Events), NEW d \in Events, WellOrdered(s), Fits(s, d),
           NEW t, t = s \o <<d>>
    PROVE  WellOrdered(t)
<1>1. /\ t \in Seq(Events) /\ Len(s) \in Nat \ {0} /\ Len(t) = Len(s) + 1
      /\ \A i \in 1 .. Len(s) : t[i] = s[i]
      /\ t[Len(s) + 1] = d
  BY DEF WellOrdered, BeginsRight
<1>2. \A i \in 1 .. Len(s) : s[i] \in Entries(s)
  BY DEF Entries
<1>3. \A e \in Entries(s) : \E i \in 1 .. Len(s) : e = s[i]
  BY DEF Entries
<1>4. 1 .. Len(t) = 1 .. Len(s) \cup {Len(s) + 1}
  BY <1>1
<1> USE DEF WellOrdered, Fits
<1>5. BeginsRight(t)
  BY <1>1 DEF BeginsRight
<1>6. NamedRight(t)
  BY <1>1, <1>4 DEF NamedRight
<1>7. AskedOnceRight(t)
  <2>1. ASSUME NEW i \in 1 .. Len(t), NEW j \in 1 .. Len(t),
               t[i].type \in OnceTypes, t[i].type = t[j].type
        PROVE  i = j
    <3>1. CASE i \in 1 .. Len(s) /\ j \in 1 .. Len(s)
      BY <1>1, <2>1, <3>1 DEF AskedOnceRight
    <3>2. CASE i \in 1 .. Len(s) /\ j = Len(s) + 1
      BY <1>1, <1>2, <2>1, <3>2
    <3>3. CASE i = Len(s) + 1 /\ j \in 1 .. Len(s)
      BY <1>1, <1>2, <2>1, <3>3
    <3> QED BY <1>4, <3>1, <3>2, <3>3
  <2>2. ASSUME NEW j \in 1 .. Len(t), t[j].type = "host.authorization_result"
        PROVE  \E i \in 1 .. j - 1 : /\ t[i].type = "host.authorization_requested"
                                     /\ t[i].transaction = t[j].transaction
    <3>1. CASE j \in 1 .. Len(s)
      <4>1. PICK i \in 1 .. j - 1 : /\ s[i].type = "host.authorization_requested"
                                    /\ s[i].transaction = s[j].transaction
        BY <1>1, <2>2, <3>1 DEF AskedOnceRight
      <4>2. i \in 1 .. Len(s)
        BY <1>1, <3>1
      <4> QED BY <1>1, <3>1, <4>1, <4>2
    <3>2. CASE j = Len(s) + 1
      <4>1. PICK e \in Entries(s) : /\ e.type = "host.authorization_requested"
                                    /\ e.transaction = d.transaction
        BY <1>1, <2>2, <3>2
      <4>2. PICK i \in 1 .. Len(s) : e = s[i]
        BY <1>3
      <4>3. i \in 1 .. j - 1
        BY <1>1, <3>2
      <4> QED BY <1>1, <3>2, <4>1, <4>2, <4>3
    <3> QED BY <1>4, <3>1, <3>2
  <2> QED BY <2>1, <2>2 DEF AskedOnceRight
<1>8. EndsRight(t)
  <2>1. Len(t) - 1 = Len(s) /\ t[Len(t)] = d
    BY <1>1
  <2> QED BY <1>1, <2>1 DEF EndsRight
<1>9. InquiryRight(t)
  <2> SUFFICES ASSUME NEW i \in 1 .. Len(t), NEW j \in 1 .. Len(t),
                      t[i].type = "transaction.started", t[j].type \in TerminalTypes
               PROVE  /\ t[j].type = "transaction.completed"
                      /\ t[j].transaction = t[i].transaction
    BY DEF InquiryRight
  <2>1. CASE i \in 1 .. Len(s) /\ j \in 1 .. Len(s)
    BY <1>1, <2>1 DEF InquiryRight
  <2>2. CASE i \in 1 .. Len(s) /\ j = Len(s) + 1
    BY <1>1, <1>2, <2>2
  <2>3. CASE i = Len(s) + 1 /\ j \in 1 .. Len(s)
    BY <1>1, <1>2, <2>3
  <2>4. CASE i = Len(s) + 1 /\ j = Len(s) + 1
    BY <1>1, <2>4 DEF TerminalTypes
  <2> QED BY <1>4, <2>1, <2>2, <2>3, <2>4
<1> QED BY <1>5, <1>6, <1>7, <1>8, <1>9

\* What a terminal that stops leaves behind is in order, too.
LEMMA OrderOfPrefix ==
    ASSUME NEW s, NEW t, WellOrdered(s), Len(s) \in Nat, Len(t) \in Nat \ {0},
           t \in Seq(Events),
           Len(t) <= Len(s), \A i \in 1 .. Len(t) : t[i] = s[i]
    PROVE  WellOrdered(t)
<1>1. \A i \in 1 .. Len(t) : i \in 1 .. Len(s)
  OBVIOUS
<1> USE DEF WellOrdered
<1>2. BeginsRight(t)
  BY <1>1 DEF BeginsRight
<1>3. NamedRight(t) /\ InquiryRight(t)
  BY <1>1 DEF NamedRight, InquiryRight
<1>4. AskedOnceRight(t)
  <2>1. \A j \in 1 .. Len(t) : \A i \in 1 .. j - 1 : i \in 1 .. Len(t)
    OBVIOUS
  <2> QED BY <1>1, <2>1 DEF AskedOnceRight
<1>5. EndsRight(t)
  <2>1. CASE Len(t) = Len(s)
    BY <2>1, <1>1 DEF EndsRight
  <2>2. CASE Len(t) # Len(s)
    <3>1. \A i \in 1 .. Len(t) - 1 : i \in 1 .. Len(s) - 1 /\ i # Len(s) - 1
      BY <2>2
    <3> QED BY <1>1, <3>1 DEF EndsRight
  <2> QED BY <2>1, <2>2
<1> QED BY <1>2, <1>3, <1>4, <1>5

\* The transaction is chosen once.
LEMMA TransactionKept ==
    ASSUME TypeOK, [Next]_vars, pc \notin Choosing
    PROVE  transaction' = transaction
<1> USE DEF Choosing, Before, PromptStates
<1>1. CASE Customer
  <2>1. pc = "prompt"
    BY <1>1, CustomerIsEarly
  <2> QED BY <1>1, <2>1
          DEF Customer, EnterPin, AnswerPrinterDown, SelectTransaction,
              AnswerAccount, AnswerAmount, AnswerAccess, AnswerConfirm,
              BeginWithdrawal, BeginDeposit, CancelTransaction,
              AnswerBalanceDisplay, BeginBalanceInquiry, AnswerAdjustment,
              ExecuteAdjustment, RejectPrompt, Asking, NextPrompt, flowVars
<1>2. ASSUME NEW k \in Calls, Call(k)
      PROVE  transaction' = transaction
  <2>1. pc = k /\ k \notin {"getStatus", "readCard"}
    BY <1>2, CallSettles
  <2>2. ASSUME NEW ok, NEW code, Settled(k, ok, code)
        PROVE  transaction' = transaction
    BY <2>1, <2>2 DEF Settled, AuthorizeSettled, DispenseSettled, AcceptSettled,
                      PrintSettled, CashRefused, flowVars
  <2>3. Throws(k) => transaction' = transaction
    BY <2>1 DEF Throws, PrintSettled, flowVars
  <2> QED BY <1>2, <2>2, <2>3, CallSettles, Zenon
<1>3. Simulates \/ (\E k \in Calls : Service(k)) => transaction' = transaction
  BY ServiceDecides DEF Outcome, flowVars
<1>4. \A type \in CustomerTypes : ~Load(type)
  BY DEF Load
<1>5. ~LoadFails
  BY DEF LoadFails
<1>6. UNCHANGED vars => transaction' = transaction
  BY DEF vars, flowVars
<1> QED BY <1>1, <1>2, <1>3, <1>4, <1>5, <1>6, Zenon DEF Next

\* The inductive invariant: the journal is in order, and holds no more than the
\* session has got to.
Ordered ==
    /\ WellOrdered(journal)
    /\ pc = "load" <=> Len(journal) = 1
    /\ pc \in Before => \A e \in Entries(journal) : e.type \notin OnceTypes
    /\ pc = "authorize" =>
          /\ \A e \in Entries(journal) : e.type # "host.authorization_result"
          /\ \E e \in Entries(journal) : /\ e.type = "host.authorization_requested"
                                         /\ e.transaction = Name
    /\ \A e \in Entries(journal) : e.type = "transaction.started" =>
          /\ e.transaction = "BalanceInquiry" /\ transaction = "BalanceInquiry"
          /\ pc \in {"print", "done", "failed"}

\* A step that writes is the session's own.
LEMMA WritingAsks ==
    ASSUME TypeOK, [Next]_vars, journal' # journal
    PROVE  Asks
<1>1. \A type \in CustomerTypes : Load(type) => Asks
  BY DEF Load, Asks
<1>2. LoadFails => Asks
  BY DEF LoadFails, FailFlow, Asks
<1>3. ~(Simulates \/ \E k \in Calls : Service(k))
  BY ServiceDecides DEF Outcome
<1>4. ~(UNCHANGED vars)
  BY DEF vars
<1> QED BY <1>1, <1>2, <1>3, <1>4, CustomerAsks, CallAsks, Zenon DEF Next

\* What is left to say of a longer journal once it is known to be in order.
LEMMA LongerOrdered ==
    ASSUME TypeOK, Ordered, [Next]_vars, NEW d, NEW new, d \in new, Opening(d),
           Entries(journal') = Entries(journal) \cup new,
           \A e \in new : e = d \/ e.type \notin OnceTypes,
           journal' # journal, Len(journal') # 1, WellOrdered(journal')
    PROVE  Ordered'
<1>1. Asks
  BY WritingAsks
<1>2. pc' # "load"
  BY <1>1 DEF Asks, Before, PromptStates
<1>3. ASSUME pc' \in Before
      PROVE  \A e \in Entries(journal') : e.type \notin OnceTypes
  <2>1. pc \in Before
    BY <1>1, <1>3 DEF Asks, Before, PromptStates
  <2>2. d.type \notin OnceTypes
    BY <1>3 DEF Opening, OnceTypes, Before, PromptStates
  <2> QED BY <2>1, <2>2 DEF Ordered
<1>4. ASSUME pc' = "authorize"
      PROVE  /\ \A e \in Entries(journal') : e.type # "host.authorization_result"
             /\ \E e \in Entries(journal') : /\ e.type = "host.authorization_requested"
                                             /\ e.transaction = Name'
  <2>1. pc \in Before
    BY <1>1, <1>4 DEF Asks, Before, PromptStates
  <2>2. d.type = "host.authorization_requested" /\ d.transaction = Name'
    BY <1>4 DEF Opening
  <2> QED BY <2>1, <2>2 DEF Ordered, OnceTypes
<1>5. ASSUME NEW e \in Entries(journal'), e.type = "transaction.started"
      PROVE  /\ e.transaction = "BalanceInquiry" /\ transaction' = "BalanceInquiry"
             /\ pc' \in {"print", "done", "failed"}
  <2>1. CASE e = d
    BY <1>5, <2>1 DEF Opening
  <2>2. CASE e \in Entries(journal)
    <3>1. /\ e.transaction = "BalanceInquiry" /\ transaction = "BalanceInquiry"
          /\ pc \in {"print", "done", "failed"}
      BY <1>5, <2>2 DEF Ordered
    <3>2. transaction' = transaction
      BY <3>1, TransactionKept DEF Choosing, Before, PromptStates
    <3>3. pc' \in {"print", "done", "failed"}
      BY <1>1, <3>1 DEF Asks, Before, PromptStates
    <3> QED BY <3>1, <3>2, <3>3
  <2> QED BY <1>5, <2>1, <2>2 DEF OnceTypes
<1> QED BY <1>2, <1>3, <1>4, <1>5 DEF Ordered

\* What the session writes next fits.
LEMMA OpeningFits ==
    ASSUME TypeOK, Ordered, ~Ended, NEW d, Opening(d),
           \A e \in Entries(journal) : e.type \notin Outcomes,
           d.type \in OnceTypes \ {"host.authorization_result"} => pc \in Before
    PROVE  Fits(journal, d)
<1>1. Len(journal) = 1 => d.type = "flow.loaded"
  BY DEF Ordered, Opening
<1>2. ASSUME d.type \in OnceTypes
      PROVE  \A e \in Entries(journal) : e.type # d.type
  <2>1. CASE d.type = "host.authorization_result"
    BY <2>1 DEF Ordered, Opening
  <2>2. CASE d.type # "host.authorization_result"
    BY <1>2, <2>2 DEF Ordered
  <2> QED BY <2>1, <2>2
<1>3. d.type = "host.authorization_result" =>
          \E e \in Entries(journal) : /\ e.type = "host.authorization_requested"
                                      /\ e.transaction = d.transaction
  BY DEF Ordered, Opening
<1>4. \A i \in 1 .. Len(journal) : journal[i].type \notin Outcomes
  BY DEF TypeOK, Entries
<1>5. ASSUME d.type \in TerminalTypes, NEW e \in Entries(journal),
             e.type = "transaction.started"
      PROVE  d.type = "transaction.completed" /\ d.transaction = e.transaction
  <2>1. /\ e.transaction = "BalanceInquiry" /\ transaction = "BalanceInquiry"
        /\ pc \in {"print", "done", "failed"}
    BY <1>5 DEF Ordered
  <2>2. Name = "BalanceInquiry"
    BY <2>1, CashTransactionNames DEF Name
  <2> QED BY <1>5, <2>1, <2>2 DEF Opening, Ended
<1>6. \A e \in Entries(journal) : e.type \notin TerminalTypes
  BY DEF Outcomes
<1> QED BY <1>1, <1>2, <1>3, <1>4, <1>5, <1>6 DEF Fits, Opening

\* And so does what it writes after that.
LEMMA FollowingFits ==
    ASSUME TypeOK, Ordered, [Next]_vars, ~Ended, NEW d \in Events, NEW e,
           Opening(d), Following(d, e),
           \A x \in Entries(journal) : x.type \notin Outcomes,
           NEW s, s = journal \o <<d>>
    PROVE  Fits(s, e)
<1>1. /\ journal \in Seq(Events) /\ Len(journal) \in Nat \ {0}
      /\ Len(s) = Len(journal) + 1
      /\ \A i \in 1 .. Len(journal) : s[i] = journal[i]
      /\ s[Len(journal) + 1] = d
  BY DEF TypeOK, Ordered, WellOrdered, BeginsRight
<1>2. Entries(s) = Entries(journal) \cup {d}
  <2>1. <<d>> \in Seq(Events) /\ Entries(<<d>>) = {d}
    BY EntriesOfShort
  <2> QED BY <1>1, <2>1, EntriesOfConcat
<1>3. Len(s) # 1 /\ e.type \notin OnceTypes
  BY <1>1 DEF Following
<1>4. ASSUME NEW i \in 1 .. Len(s), s[i].type \in Outcomes
      PROVE  /\ i = Len(s)
             /\ s[i].type = "transaction.failed"
             /\ e.type = "flow.failed" /\ e.code = NoCode
  <2>1. i \in 1 .. Len(journal) => s[i] \in Entries(journal)
    BY <1>1 DEF Entries
  <2>2. i = Len(s)
    BY <1>1, <1>4, <2>1
  <2> QED BY <1>1, <1>4, <2>2 DEF Following
<1>5. ASSUME e.type \in TerminalTypes, NEW x \in Entries(s),
             x.type = "transaction.started"
      PROVE  e.type = "transaction.completed" /\ e.transaction = x.transaction
  <2>1. CASE x = d
    <3>1. d.transaction = "BalanceInquiry" /\ transaction' = "BalanceInquiry"
          /\ pc = "prompt"
      BY <1>5, <2>1 DEF Opening
    <3>2. transaction = "BalanceInquiry"
      BY <3>1, TransactionKept DEF Choosing
    <3>3. Name = "BalanceInquiry"
      BY <3>2, CashTransactionNames DEF Name
    <3> QED BY <1>5, <2>1, <3>1, <3>3 DEF Following, TerminalTypes
  <2>2. CASE x \in Entries(journal)
    <3>1. /\ x.transaction = "BalanceInquiry" /\ transaction = "BalanceInquiry"
          /\ pc = "print"
      BY <1>5, <2>2 DEF Ordered, Ended
    <3>2. Name = "BalanceInquiry"
      BY <3>1, CashTransactionNames DEF Name
    <3> QED BY <1>5, <3>1, <3>2 DEF Following, TerminalTypes
  <2> QED BY <1>2, <1>5, <2>1, <2>2
<1> QED BY <1>3, <1>4, <1>5 DEF Fits, Following, OnceTypes

LEMMA TwoAppends ==
    ASSUME NEW s \in Seq(Events), NEW d \in Events, NEW e \in Events
    PROVE  s \o <<d, e>> = (s \o <<d>>) \o <<e>>
<1>1. PICK n \in Nat : n = Len(s)
  OBVIOUS
<1>2. PICK t : t = s \o <<d>>
  OBVIOUS
<1>3. /\ t \in Seq(Events) /\ Len(t) = n + 1
      /\ \A i \in 1 .. n : t[i] = s[i]
      /\ t[n + 1] = d
  BY <1>1, <1>2
<1>4. PICK u : u = t \o <<e>>
  OBVIOUS
<1>5. /\ u \in Seq(Events) /\ Len(u) = n + 2
      /\ \A i \in 1 .. n + 1 : u[i] = t[i]
      /\ u[n + 2] = e
  BY <1>3, <1>4
<1>6. PICK v : v = s \o <<d, e>>
  OBVIOUS
<1>7. /\ v \in Seq(Events) /\ Len(v) = n + 2
      /\ \A i \in 1 .. n : v[i] = s[i]
      /\ v[n + 1] = d /\ v[n + 2] = e
  BY <1>1, <1>6
<1>8. \A i \in 1 .. n + 2 : u[i] = v[i]
  <2>1. \A i \in 1 .. n + 2 : i \in 1 .. n \/ i = n + 1 \/ i = n + 2
    OBVIOUS
  <2> QED BY <1>3, <1>5, <1>7, <2>1
<1>9. u = v
  BY <1>5, <1>7, <1>8
<1> QED BY <1>2, <1>4, <1>6, <1>9, Zenon

LEMMA OrderedStep ==
    ASSUME TypeOK, Safe, Trail, Ordered, [Next]_vars
    PROVE  Ordered'
<1>1. CASE journal' = journal
  <2>1. PICK d, e :
           \/ /\ pc' = "authorize" => pc = "authorize"
              /\ pc = "load" => pc' = "load"
           \/ journal' = journal \o <<d>>
           \/ journal' = journal \o <<d, e>>
    BY NextWrites, Zenon DEF Writes
  <2>2. journal # journal \o <<d>> /\ journal # journal \o <<d, e>>
    <3>1. Len(journal \o <<d>>) # Len(journal)
      BY DEF TypeOK
    <3>2. Len(journal \o <<d, e>>) # Len(journal)
      BY DEF TypeOK
    <3> QED BY <3>1, <3>2, Zenon
  <2>3. /\ pc' = "authorize" => pc = "authorize"
        /\ pc = "load" <=> pc' = "load"
        /\ pc' \in Before => pc \in Before
        /\ pc \in {"print", "done", "failed"} => pc' \in {"print", "done", "failed"}
    <3>1. pc' = "load" => pc = "load"
      BY NextAsks DEF Asks, PromptStates, Before
    <3>2. pc' \in Before => pc \in Before
      BY NextAsks DEF Asks, PromptStates, Before
    <3>3. pc \in {"print", "done", "failed"} => pc' \in {"print", "done", "failed"}
      BY NextAsks DEF Asks, PromptStates, Before
    <3> QED BY <1>1, <2>1, <2>2, <3>1, <3>2, <3>3
  <2>4. transaction' = transaction \/ pc \in Choosing
    BY TransactionKept
  <2>5. Name' = Name \/ pc \in Choosing
    BY <2>4 DEF Name
  <2>6. "authorize" \notin Choosing /\ Choosing \cap {"print", "done", "failed"} = {}
    BY DEF Choosing, Before, PromptStates
  <2> QED BY <1>1, <2>3, <2>4, <2>5, <2>6 DEF Ordered
<1>2. CASE journal' # journal
  <2>1. ~Ended
    BY <1>2, EndedIsSilent
  <2>2. \A e \in Entries(journal) : e.type \notin Outcomes
    BY <2>1 DEF Safe, Phase, Trail, Outcomes
  <2>3. /\ journal \in Seq(Events) /\ journal' \in Seq(Events)
        /\ Len(journal) \in Nat \ {0} /\ WellOrdered(journal)
    BY TypeStep DEF TypeOK, Ordered, WellOrdered, BeginsRight
  <2>4. PICK d, e : \/ journal' = journal \o <<d>> /\ Opening(d)
                    \/ journal' = journal \o <<d, e>> /\ Opening(d) /\ Following(d, e)
    BY <1>2, NextWrites, Zenon DEF Writes
  <2>5. Asks
    BY <1>2, WritingAsks
  <2>6. d.type \in OnceTypes \ {"host.authorization_result"} => pc \in Before
    <3>1. CASE d.type = "transaction.started"
      BY <2>4, <3>1 DEF Opening, Before, PromptStates
    <3>2. CASE d.type = "host.authorization_requested"
      BY <2>4, <3>2 DEF Opening, Before, PromptStates
    <3> QED BY <3>1, <3>2 DEF OnceTypes
  <2>7. Fits(journal, d)
    BY <2>1, <2>2, <2>4, <2>6, OpeningFits
  <2>8. CASE journal' = journal \o <<d>> /\ Opening(d)
    <3>1. d \in Events /\ Len(journal') = Len(journal) + 1
      <4>1. /\ Len(journal') = Len(journal) + 1 /\ journal'[Len(journal) + 1] = d
        BY <2>3, <2>8
      <4> QED BY <2>3, <4>1
    <3>2. WellOrdered(journal')
      BY <2>3, <2>7, <2>8, <3>1, OrderGrows
    <3>3. Entries(journal') = Entries(journal) \cup {d}
      <4>1. <<d>> \in Seq(Events) /\ Entries(<<d>>) = {d}
        BY <3>1, EntriesOfShort
      <4>2. Entries(journal \o <<d>>) = Entries(journal) \cup Entries(<<d>>)
        BY <2>3, <4>1, EntriesOfConcat
      <4> QED BY <2>8, <4>1, <4>2, Zenon
    <3>4. PICK new : new = {d}
      OBVIOUS
    <3>5. Len(journal') # 1
      BY <2>3, <3>1
    <3> QED BY <1>2, <2>8, <3>2, <3>3, <3>4, <3>5, LongerOrdered
  <2>9. CASE journal' = journal \o <<d, e>> /\ Opening(d) /\ Following(d, e)
    <3>1. d \in Events /\ e \in Events /\ Len(journal') = Len(journal) + 2
      <4>1. /\ Len(journal') = Len(journal) + 2
            /\ journal'[Len(journal) + 1] = d /\ journal'[Len(journal) + 2] = e
        BY <2>3, <2>9
      <4> QED BY <2>3, <4>1
    <3>2. PICK s : s = journal \o <<d>>
      OBVIOUS
    <3>3. s \in Seq(Events) /\ journal' = s \o <<e>>
      <4>1. s \in Seq(Events)
        BY <2>3, <3>1, <3>2
      <4>2. journal \o <<d, e>> = (journal \o <<d>>) \o <<e>>
        BY <2>3, <3>1, TwoAppends
      <4> QED BY <2>9, <3>2, <4>1, <4>2, Zenon
    <3>4. WellOrdered(s)
      BY <2>3, <2>7, <3>1, <3>2, OrderGrows
    <3>5. Fits(s, e)
      BY <2>1, <2>2, <2>9, <3>1, <3>2, FollowingFits
    <3>6. WellOrdered(journal')
      BY <3>1, <3>3, <3>4, <3>5, OrderGrows
    <3>7. Entries(journal') = Entries(journal) \cup {d, e}
      <4>1. <<d, e>> \in Seq(Events) /\ Entries(<<d, e>>) = {d, e}
        BY <3>1, EntriesOfShort
      <4>2. Entries(journal \o <<d, e>>) = Entries(journal) \cup Entries(<<d, e>>)
        BY <2>3, <4>1, EntriesOfConcat
      <4> QED BY <2>9, <4>1, <4>2, Zenon
    <3>8. Len(journal') # 1 /\ e.type \notin OnceTypes
      BY <2>3, <2>9, <3>1 DEF Following
    <3>9. PICK new : new = {d, e}
      OBVIOUS
    <3>10. /\ d \in new /\ Entries(journal') = Entries(journal) \cup new
           /\ \A x \in new : x = d \/ x.type \notin OnceTypes
      BY <3>7, <3>8, <3>9
    <3> QED BY <1>2, <2>9, <3>6, <3>8, <3>10, LongerOrdered
  <2> QED BY <2>4, <2>8, <2>9
<1> QED BY <1>1, <1>2

LEMMA SpecOrdered == Spec => []Ordered
<1>1. Init => Ordered
  <2> SUFFICES ASSUME Init PROVE Ordered
    OBVIOUS
  <2>1. PICK e : e = Event("runtime.started", NoTransaction, NoCode)
    OBVIOUS
  <2>2. e.type = "runtime.started" /\ e.transaction = NoTransaction
    BY <2>1, EventFields
  <2>3. journal = <<e>> /\ pc = "load" /\ Entries(journal) = {e}
    BY <2>1 DEF Init, Entries
  <2>4. Len(journal) = 1 /\ journal[1] = e /\ journal # <<>>
    BY <2>3
  <2>5. WellOrdered(journal)
    BY <2>2, <2>4 DEF WellOrdered, BeginsRight, NamedRight, AskedOnceRight, EndsRight,
       InquiryRight, NamingTypes, OnceTypes, TerminalTypes
  <2> QED BY <2>2, <2>3, <2>4, <2>5 DEF Ordered, OnceTypes
<1> QED BY <1>1, OrderedStep, SpecTypeOK, SpecSafe, SpecTrail, PTL DEF Spec
-----------------------------------------------------------------------------
(***************************************************************************)
(* What the replay makes of a journal in order.                            *)
(***************************************************************************)
\* What holds at first and stays holds at every position.
LEMMA AllPositions ==
    ASSUME NEW N \in Nat, NEW S, 0 \in S,
           \A n \in 1 .. N : n - 1 \in S => n \in S
    PROVE  \A n \in 0 .. N : n \in S
<1> DEFINE Wrong == {n \in 0 .. N : n \notin S}
<1> SUFFICES ASSUME Wrong # {} PROVE FALSE
  OBVIOUS
<1>1. PICK n \in Wrong : \A m \in Wrong : n <= m
  <2>1. Wrong \in SUBSET Nat
    OBVIOUS
  <2> HIDE DEF Wrong
  <2> QED BY <2>1, LeastNat
<1>2. n \in 0 .. N /\ n \notin S /\ n # 0
  BY <1>1
<1>3. n \in 1 .. N /\ n - 1 \in 0 .. N /\ ~(n <= n - 1)
  BY <1>2
<1>4. n - 1 \in S
  BY <1>1, <1>3
<1> QED BY <1>2, <1>3, <1>4

\* The requests a host still has to answer, after an event.
PendingAfter(pending, e) ==
    IF e.transaction = NoTransaction THEN pending
    ELSE IF e.type = "host.authorization_requested"
    THEN [pending EXCEPT ![e.transaction] = @ + 1]
    ELSE IF e.type = "host.authorization_result" /\ pending[e.transaction] # 0
    THEN [pending EXCEPT ![e.transaction] = @ - 1]
    ELSE pending

LEMMA TrackHostSays ==
    ASSUME NEW state, NEW e, DOMAIN state = ReplayFields
    PROVE  /\ TrackHost(state, e).pending = PendingAfter(state.pending, e)
           /\ \/ TrackHost(state, e).errors = state.errors
              \/ /\ e.type = "host.authorization_result"
                 /\ e.transaction # NoTransaction
                 /\ state.pending[e.transaction] = 0
<1> DEFINE t == e.transaction
           asked == [state EXCEPT !.pending[t] = @ + 1]
           wrong == [state EXCEPT !.errors = @ \cup {"HOST_RESULT_WITHOUT_REQUEST"}]
           told == [state EXCEPT !.pending[t] = @ - 1]
<1>1. /\ asked.pending = [state.pending EXCEPT ![t] = @ + 1]
      /\ asked.errors = state.errors
      /\ told.pending = [state.pending EXCEPT ![t] = @ - 1]
      /\ told.errors = state.errors
      /\ wrong.pending = state.pending
  BY DEF ReplayFields
<1>2. CASE e.type = "host.authorization_requested" /\ t # NoTransaction
  <2>1. TrackHost(state, e) = asked
    BY <1>2, Zenon DEF TrackHost
  <2> QED BY <1>1, <1>2, <2>1, Zenon DEF PendingAfter
<1>3. CASE /\ e.type = "host.authorization_result" /\ t # NoTransaction
           /\ state.pending[t] = 0
  <2>1. "host.authorization_result" # "host.authorization_requested"
    OBVIOUS
  <2>2. TrackHost(state, e) = wrong
    BY <1>3, <2>1, Zenon DEF TrackHost
  <2>3. PendingAfter(state.pending, e) = state.pending
    BY <1>3 DEF PendingAfter
  <2> QED BY <1>1, <1>3, <2>2, <2>3, Zenon
<1>4. CASE /\ e.type = "host.authorization_result" /\ t # NoTransaction
           /\ state.pending[t] # 0
  <2>1. "host.authorization_result" # "host.authorization_requested"
    OBVIOUS
  <2>2. TrackHost(state, e) = told
    BY <1>4, <2>1, Zenon DEF TrackHost
  <2>3. PendingAfter(state.pending, e) = [state.pending EXCEPT ![t] = @ - 1]
    BY <1>4, <2>1, Zenon DEF PendingAfter
  <2> QED BY <1>1, <2>2, <2>3, Zenon
<1>5. CASE \/ t = NoTransaction
           \/ e.type \notin {"host.authorization_requested", "host.authorization_result"}
  <2>1. TrackHost(state, e) = state
    BY <1>5, Zenon DEF TrackHost
  <2>2. PendingAfter(state.pending, e) = state.pending
    BY <1>5 DEF PendingAfter
  <2> QED BY <2>1, <2>2
<1> QED BY <1>2, <1>3, <1>4, <1>5

LEMMA TrackTransactionSays ==
    ASSUME NEW state, NEW e, DOMAIN state = ReplayFields,
           e.type \in NamingTypes => e.transaction # NoTransaction
    PROVE  /\ e.type \notin DOMAIN StatusOf =>
                 /\ TrackTransaction(state, e).active = state.active
                 /\ TrackTransaction(state, e).errors = state.errors
           /\ e.type = "transaction.started" =>
                 /\ TrackTransaction(state, e).active = state.active \cup {e.transaction}
                 /\ e.transaction \notin state.active =>
                       TrackTransaction(state, e).errors = state.errors
           /\ e.type \in TerminalTypes =>
                 /\ TrackTransaction(state, e).active \subseteq state.active
                 /\ e.type # "transaction.cancelled" =>
                       TrackTransaction(state, e).active = state.active \ {e.transaction}
                 /\ TrackTransaction(state, e).errors = state.errors
<1> DEFINE t == Subject(state, e)
           begun == [state EXCEPT !.active = @ \cup {t},
                                  !.errors = IF t \in state.active
                                      THEN @ \cup {"OVERLAPPING_TRANSACTION"}
                                      ELSE @]
           over == [state EXCEPT !.active = @ \ {t}, !.ended[t] = @ + 1]
<1>1. DOMAIN StatusOf = {"transaction.started"} \cup TerminalTypes
  BY DEF StatusOf
<1>2. e.type \in NamingTypes => t = e.transaction
  BY Zenon DEF Subject
<1>3. /\ "transaction.started" \in NamingTypes
      /\ \A type \in TerminalTypes : type # "transaction.cancelled" => type \in NamingTypes
      /\ "transaction.started" \notin TerminalTypes
  BY DEF NamingTypes, TerminalTypes
<1>4. /\ begun.active = state.active \cup {t}
      /\ t \notin state.active => begun.errors = state.errors
      /\ over.active = state.active \ {t}
      /\ over.errors = state.errors
  <2> HIDE DEF t
  <2> QED BY DEF ReplayFields
<1>5. /\ e.type \notin DOMAIN StatusOf => TrackTransaction(state, e) = state
      /\ e.type = "transaction.started" => TrackTransaction(state, e) = begun
      /\ e.type \in TerminalTypes => TrackTransaction(state, e) = over
  BY <1>1, <1>3, Zenon DEF TrackTransaction
<1> HIDE DEF t, begun, over
<1> QED BY <1>2, <1>3, <1>4, <1>5

\* What one event does to a replayed session.
Reads(state, e, after) ==
    /\ after.status = StatusAfter(state, e)
    /\ after.pending = PendingAfter(state.pending, e)
    /\ e.type \notin DOMAIN StatusOf => after.active = state.active
    /\ e.type = "transaction.started" =>
          after.active = state.active \cup {e.transaction}
    /\ e.type \in TerminalTypes =>
          /\ after.active \subseteq state.active
          /\ e.type # "transaction.cancelled" =>
                after.active = state.active \ {e.transaction}
    /\ \/ after.errors = state.errors
       \/ /\ e.type = "host.authorization_result"
          /\ e.transaction # NoTransaction
          /\ state.pending[e.transaction] = 0
       \/ /\ e.type = "transaction.started"
          /\ e.transaction \in state.active

LEMMA ReplayStepSays ==
    ASSUME NEW state, NEW e, DOMAIN state = ReplayFields,
           e.type \in NamingTypes => e.transaction # NoTransaction,
           NEW after, after = ReplayStep(state, e)
    PROVE  DOMAIN after = ReplayFields /\ Reads(state, e, after)
<1>1. PICK hosted : hosted = TrackHost(state, e)
  OBVIOUS
<1>2. /\ DOMAIN hosted = ReplayFields
      /\ hosted.active = state.active
      /\ hosted.pending = PendingAfter(state.pending, e)
      /\ \/ hosted.errors = state.errors
         \/ /\ e.type = "host.authorization_result"
            /\ e.transaction # NoTransaction
            /\ state.pending[e.transaction] = 0
  BY <1>1, TrackHostFields, TrackHostSays DEF ReplayFields
<1>3. PICK tracked : tracked = TrackTransaction(hosted, e)
  OBVIOUS
<1>4. DOMAIN tracked = ReplayFields
  BY <1>2, <1>3, TrackTransactionFields
<1>5. /\ e.type \notin DOMAIN StatusOf =>
            tracked.active = hosted.active /\ tracked.errors = hosted.errors
      /\ e.type = "transaction.started" =>
            /\ tracked.active = hosted.active \cup {e.transaction}
            /\ e.transaction \notin hosted.active => tracked.errors = hosted.errors
      /\ e.type \in TerminalTypes =>
            /\ tracked.active \subseteq hosted.active
            /\ e.type # "transaction.cancelled" =>
                  tracked.active = hosted.active \ {e.transaction}
            /\ tracked.errors = hosted.errors
  BY <1>2, <1>3, TrackTransactionSays
<1>6. DOMAIN StatusOf = {"transaction.started"} \cup TerminalTypes
  BY DEF StatusOf
<1>7. after = ApplyEvent(tracked, e)
  BY <1>1, <1>3, Zenon DEF ReplayStep
<1>8. after.active = tracked.active /\ after.errors = tracked.errors
  BY <1>4, <1>7, ApplyEventFields
<1>9. /\ DOMAIN after = ReplayFields
      /\ after.status = StatusAfter(state, e)
      /\ after.pending = hosted.pending
  BY <1>1, ReplayStepFields
<1>10. \/ after.errors = hosted.errors
       \/ e.type = "transaction.started" /\ e.transaction \in hosted.active
  BY <1>5, <1>6, <1>8
<1>11. /\ e.type \notin DOMAIN StatusOf => after.active = state.active
       /\ e.type = "transaction.started" =>
             after.active = state.active \cup {e.transaction}
       /\ e.type \in TerminalTypes =>
             /\ after.active \subseteq state.active
             /\ e.type # "transaction.cancelled" =>
                   after.active = state.active \ {e.transaction}
  BY <1>2, <1>5, <1>8
<1> QED BY <1>2, <1>9, <1>10, <1>11 DEF Reads

\* What an event does to the status of a session.
QuietStatuses == {"recorded", "active"}

LEMMA StatusSays ==
    ASSUME NEW state, NEW e
    PROVE  /\ e.type = "transaction.completed" => StatusAfter(state, e) = "completed"
           /\ e.type = "transaction.cancelled" => StatusAfter(state, e) = "cancelled"
           /\ e.type \in {"transaction.failed", "flow.failed"} =>
                 StatusAfter(state, e) = "failed"
           /\ e.type = "transaction.reconciliation_required" =>
                 StatusAfter(state, e) = "reconciliation_required"
           /\ e.type \notin Outcomes => StatusAfter(state, e) \in {"active", state.status}
<1>1. DOMAIN StatusOf = {"transaction.started"} \cup TerminalTypes
  BY DEF StatusOf
<1>2. /\ StatusOf["transaction.completed"] = "completed"
      /\ StatusOf["transaction.cancelled"] = "cancelled"
      /\ StatusOf["transaction.failed"] = "failed"
      /\ StatusOf["transaction.reconciliation_required"] = "reconciliation_required"
  BY DEF StatusOf, TerminalTypes
<1>3. /\ e.type \in TerminalTypes => StatusAfter(state, e) = StatusOf[e.type]
      /\ e.type = "flow.failed" => StatusAfter(state, e) = "failed"
      /\ e.type \notin Outcomes => StatusAfter(state, e) \in {"active", state.status}
  <2>1. /\ "transaction.started" \notin TerminalTypes
        /\ "flow.failed" \notin {"session.started", "flow.loaded", "transaction.selected"}
        /\ "flow.failed" \notin DOMAIN StatusOf
    BY <1>1 DEF TerminalTypes
  <2>2. \A x : x \in TerminalTypes => x \in DOMAIN StatusOf /\ x # "transaction.started"
    BY <1>1, <2>1
  <2>3. e.type \in TerminalTypes => StatusAfter(state, e) = StatusOf[e.type]
    <3> SUFFICES ASSUME e.type \in TerminalTypes
                 PROVE  StatusAfter(state, e) = StatusOf[e.type]
      OBVIOUS
    <3>1. e.type \in DOMAIN StatusOf /\ e.type # "transaction.started"
      BY <2>2
    <3>2. e.type \notin {"session.started", "flow.loaded", "transaction.selected"}
          /\ e.type # "flow.failed"
      BY DEF TerminalTypes
    <3>3. \A x : (IF e.type = "transaction.started" THEN "active" ELSE x) = x
      BY <3>1
    <3> QED BY <3>1, <3>2, <3>3, Zenon DEF StatusAfter
  <2>4. e.type = "flow.failed" => StatusAfter(state, e) = "failed"
    BY <2>1, Zenon DEF StatusAfter
  <2>5. ASSUME e.type \notin Outcomes
        PROVE  StatusAfter(state, e) \in {"active", state.status}
    <3>1. e.type # "flow.failed"
          /\ (e.type \in DOMAIN StatusOf => e.type = "transaction.started")
      BY <1>1, <2>5 DEF Outcomes
    <3> QED BY <3>1, Zenon DEF StatusAfter
  <2> QED BY <2>3, <2>4, <2>5
<1> QED BY <1>2, <1>3 DEF TerminalTypes

\* The states of a replay, one after each event.
LEMMA ReplayRuns ==
    ASSUME NEW scoped \in Seq(Events), NamedRight(scoped),
           NEW states, states = ReplayStates(scoped)
    PROVE  /\ states[0] = InitialState(scoped)
           /\ \A n \in 1 .. Len(scoped) : Reads(states[n - 1], scoped[n], states[n])
<1> DEFINE N == Len(scoped)
           S == {n \in 0 .. N : DOMAIN states[n] = ReplayFields}
<1>1. /\ states[0] = InitialState(scoped)
      /\ \A n \in 1 .. N : states[n] = ReplayStep(states[n - 1], scoped[n])
  BY ReplayUnfolds
<1>2. N \in Nat
  OBVIOUS
<1>3. ASSUME NEW n \in 1 .. N, DOMAIN states[n - 1] = ReplayFields
      PROVE  DOMAIN states[n] = ReplayFields /\ Reads(states[n - 1], scoped[n], states[n])
  <2>1. PICK state, e, after : state = states[n - 1] /\ e = scoped[n] /\ after = states[n]
    OBVIOUS
  <2>2. after = ReplayStep(state, e) /\ DOMAIN state = ReplayFields
    BY <1>1, <1>3, <2>1
  <2>3. e.type \in NamingTypes => e.transaction # NoTransaction
    BY <2>1 DEF NamedRight
  <2> QED BY <2>1, <2>2, <2>3, ReplayStepSays
<1>4. 0 \in S
  <2>1. DOMAIN states[0] = ReplayFields
    BY <1>1, ReplayStarts, Zenon
  <2> QED BY <1>2, <2>1
<1>5. \A n \in 1 .. N : n - 1 \in S => n \in S
  BY <1>2, <1>3
<1>6. \A n \in 0 .. N : n \in S
  <2> HIDE DEF S, N
  <2> QED BY <1>2, <1>4, <1>5, AllPositions
<1>7. \A n \in 1 .. N : DOMAIN states[n - 1] = ReplayFields
  <2>1. \A n \in 1 .. N : n - 1 \in 0 .. N
    BY <1>2
  <2> QED BY <1>6, <2>1
<1> QED BY <1>1, <1>3, <1>7

\* The status the replay gives a session is that of its outcome.
LEMMA StatusRead ==
    ASSUME NEW scoped \in Seq(Events), NamedRight(scoped),
           NEW status, status = ReplayScoped(scoped).status
    PROVE  /\ (\A i \in 1 .. Len(scoped) : scoped[i].type \notin Outcomes) =>
                 status \in QuietStatuses
           /\ Len(scoped) # 0 =>
                 LET type == scoped[Len(scoped)].type
                 IN  /\ type = "transaction.completed" => status = "completed"
                     /\ type = "transaction.cancelled" => status = "cancelled"
                     /\ type \in {"transaction.failed", "flow.failed"} =>
                           status = "failed"
                     /\ type = "transaction.reconciliation_required" =>
                           status = "reconciliation_required"
<1>1. PICK states, N : states = ReplayStates(scoped) /\ N = Len(scoped)
  OBVIOUS
<1>2. /\ states[0] = InitialState(scoped)
      /\ \A n \in 1 .. N : Reads(states[n - 1], scoped[n], states[n])
  BY <1>1, ReplayRuns
<1>3. N \in Nat
  BY <1>1
<1>4. status = states[N].status
  BY <1>1, Zenon DEF ReplayScoped
<1>5. \A n \in 1 .. N : states[n].status = StatusAfter(states[n - 1], scoped[n])
  BY <1>2, Zenon DEF Reads
<1>6. ASSUME \A i \in 1 .. N : scoped[i].type \notin Outcomes
      PROVE  status \in QuietStatuses
  <2> DEFINE S == {n \in 0 .. N : states[n].status \in QuietStatuses}
  <2>1. 0 \in S
    <3>1. states[0].status = "recorded"
      BY <1>2, ReplayStarts, Zenon
    <3> QED BY <1>3, <3>1 DEF QuietStatuses
  <2>2. \A n \in 1 .. N : n - 1 \in S => n \in S
    BY <1>3, <1>5, <1>6, StatusSays DEF QuietStatuses
  <2>3. \A n \in 0 .. N : n \in S
    <3> HIDE DEF S
    <3> QED BY <1>3, <2>1, <2>2, AllPositions
  <2> QED BY <1>3, <1>4, <2>3
<1>7. ASSUME N # 0
      PROVE  LET type == scoped[N].type
             IN  /\ type = "transaction.completed" => status = "completed"
                 /\ type = "transaction.cancelled" => status = "cancelled"
                 /\ type \in {"transaction.failed", "flow.failed"} =>
                       status = "failed"
                 /\ type = "transaction.reconciliation_required" =>
                       status = "reconciliation_required"
  <2>1. N \in 1 .. N
    BY <1>3, <1>7
  <2>2. status = StatusAfter(states[N - 1], scoped[N])
    BY <1>4, <1>5, <2>1
  <2> QED BY <2>2, StatusSays
<1> QED BY <1>1, <1>6, <1>7
-----------------------------------------------------------------------------
(***************************************************************************)
(* How the readers tell the outcome of a journal in order.                 *)
(***************************************************************************)
\* The three ends of a journal: no outcome yet, an outcome that is its last
\* event, and a failed transaction that failed the flow.
Undecided(events) == \A i \in 1 .. Len(events) : events[i].type \notin Outcomes

Decided(events) ==
    /\ OnlyLast(events)
    /\ events[Len(events)].type \in Outcomes
    /\ Len(events) > 1

FailedFlow(events) ==
    /\ Len(events) > 2
    /\ events[Len(events)].type = "flow.failed"
    /\ events[Len(events)].code = NoCode
    /\ events[Len(events) - 1].type = "transaction.failed"
    /\ \A i \in 1 .. Len(events) - 2 : events[i].type \notin Outcomes

LEMMA ThreeEnds ==
    ASSUME NEW events \in Seq(Events), WellOrdered(events)
    PROVE  Undecided(events) \/ Decided(events) \/ FailedFlow(events)
<1> USE DEF WellOrdered
<1>1. PICK N \in Nat \ {0} : N = Len(events)
  BY DEF BeginsRight
<1>2. events[1].type \notin Outcomes
  BY DEF BeginsRight, Outcomes, TerminalTypes
<1>3. \A i \in 1 .. N - 1 : events[i].type \in Outcomes =>
         /\ i = N - 1 /\ events[i].type = "transaction.failed"
         /\ events[N].type = "flow.failed" /\ events[N].code = NoCode
  BY <1>1 DEF EndsRight
<1>4. CASE OnlyLast(events) /\ events[N].type \in Outcomes
  BY <1>1, <1>2, <1>4 DEF Decided
<1>5. CASE OnlyLast(events) /\ events[N].type \notin Outcomes
  <2>1. \A i \in 1 .. N : i \in 1 .. N - 1 \/ i = N
    BY <1>1
  <2> QED BY <1>1, <1>5, <2>1 DEF OnlyLast, Undecided
<1>6. CASE ~OnlyLast(events)
  <2>1. PICK i \in 1 .. N - 1 : events[i].type \in Outcomes
    BY <1>1, <1>6 DEF OnlyLast
  <2>2. /\ i = N - 1 /\ events[i].type = "transaction.failed"
        /\ events[N].type = "flow.failed" /\ events[N].code = NoCode
    BY <1>3, <2>1
  <2>3. N > 2
    BY <1>1, <1>2, <2>1, <2>2
  <2>4. \A j \in 1 .. N - 2 : events[j].type \notin Outcomes
    <3>1. \A j \in 1 .. N - 2 : j \in 1 .. N - 1 /\ j # N - 1
      BY <1>1
    <3> QED BY <1>3, <3>1
  <2> QED BY <1>1, <2>2, <2>3, <2>4 DEF FailedFlow
<1> QED BY <1>4, <1>5, <1>6

\* What the classifier makes of each end.
LEMMA UndecidedOutcome ==
    ASSUME NEW events \in Seq(Events), Undecided(events)
    PROVE  JournalOutcome(events) = "idle" /\ TerminalFailureCode(events) = NoCode
<1>1. Len(events) \in Nat /\ (Len(events) + 1) - 1 = Len(events)
  OBVIOUS
<1>2. LastOf(events, Outcomes) = 0
  BY <1>1, LastBeforeFinds DEF LastOf, Undecided
<1>3. DecidingIndex(events) = 0
  BY <1>2 DEF DecidingIndex
<1> QED BY <1>2, <1>3 DEF JournalOutcome, TerminalFailureCode, Failed

OutcomeOf(type) ==
    IF type = "transaction.completed" THEN "completed"
    ELSE IF type = "transaction.cancelled" THEN "cancelled" ELSE "failed"

LEMMA LastOutcome ==
    ASSUME NEW events \in Seq(Events), NEW type,
           LastOf(events, Outcomes) # 0,
           type = events[LastOf(events, Outcomes)].type
    PROVE  JournalOutcome(events) = OutcomeOf(type)
BY Zenon DEF JournalOutcome, OutcomeOf

LEMMA DecidedOutcome ==
    ASSUME NEW events \in Seq(Events), Decided(events),
           NEW e, e = events[Len(events)], e.type = "flow.failed" => e.code = NoCode
    PROVE  /\ JournalOutcome(events) = OutcomeOf(e.type)
           /\ TerminalFailureCode(events) =
                 IF e.type \in {"transaction.failed",
                                "transaction.reconciliation_required"}
                 THEN e.code ELSE NoCode
<1>1. Len(events) \in Nat \ {0}
  BY DEF Decided
<1>2. /\ LastOf(events, Outcomes) = Len(events)
      /\ e.type # "flow.failed" => DecidingIndex(events) = Len(events)
      /\ e.type = "flow.failed" => DecidingIndex(events) = 0
  BY <1>1, DecidedByLast DEF Decided
<1>3. JournalOutcome(events) = OutcomeOf(e.type)
  BY <1>1, <1>2, LastOutcome
<1>4. Failed(events, Len(events)) <=>
         e.type \in {"transaction.failed", "transaction.reconciliation_required"}
  BY <1>1 DEF Failed
<1>5. ~Failed(events, 0)
  BY DEF Failed
<1> QED BY <1>2, <1>3, <1>4, <1>5 DEF TerminalFailureCode

LEMMA FailedFlowOutcome ==
    ASSUME NEW events \in Seq(Events), FailedFlow(events)
    PROVE  /\ JournalOutcome(events) = "failed"
           /\ DecidingIndex(events) = Len(events) - 1
           /\ TerminalFailureCode(events) = events[Len(events) - 1].code
<1>1. PICK N \in Nat : N = Len(events) /\ N > 2 /\ (N + 1) - 1 = N
  BY DEF FailedFlow
<1>2. events[N].type = "flow.failed" /\ events[N].type \in Outcomes
  BY <1>1 DEF FailedFlow, Outcomes
<1>3. LastOf(events, Outcomes) = N
  BY <1>1, <1>2, LastBeforeFinds DEF LastOf
<1>4. PICK types : types = Outcomes \cup {"flow.loaded", "session.started",
                                          "runtime.started"}
  OBVIOUS
<1>5. events[N - 1].type \in types /\ events[N - 1].type = "transaction.failed"
  BY <1>1, <1>4 DEF FailedFlow, Outcomes, TerminalTypes
<1>6. LastBefore(events, N, types) = N - 1
  BY <1>1, <1>5, LastBeforeFinds
<1>7. PreviousTransactionTerminal(events, N) = N - 1
  BY <1>1, <1>4, <1>5, <1>6 DEF PreviousTransactionTerminal, TerminalTypes
<1>8. DecidingIndex(events) = N - 1
  BY <1>1, <1>2, <1>3, <1>7 DEF DecidingIndex
<1>9. Failed(events, N - 1)
  BY <1>1, <1>5 DEF Failed
<1>10. JournalOutcome(events) = "failed"
  BY <1>1, <1>2, <1>3, LastOutcome DEF OutcomeOf
<1>11. events[N].code = NoCode
  BY <1>1 DEF FailedFlow
<1> QED BY <1>1, <1>3, <1>8, <1>9, <1>10, <1>11 DEF TerminalFailureCode

\* What the summary makes of each end.
LEMMA HoldsFinds ==
    ASSUME NEW events \in Seq(Events), NEW type
    PROVE  /\ Holds(events, type) <=> \E i \in 1 .. Len(events) : events[i].type = type
           /\ FirstOf(events, type) # 0 <=> Holds(events, type)
           /\ Holds(events, type) =>
                 /\ FirstOf(events, type) \in 1 .. Len(events)
                 /\ events[FirstOf(events, type)].type = type
<1>1. DOMAIN events = 1 .. Len(events)
  OBVIOUS
<1>2. /\ FirstOf(events, type) # 0 =>
            /\ FirstOf(events, type) \in DOMAIN events
            /\ events[FirstOf(events, type)].type = type
      /\ FirstOf(events, type) = 0 => \A e \in Entries(events) : e.type # type
  BY FirstOfFinds
<1>3. FirstOf(events, type) # 0 <=> Holds(events, type)
  BY DEF Holds
<1> QED BY <1>1, <1>2, <1>3 DEF Entries

LEMMA UndecidedSummary ==
    ASSUME NEW events \in Seq(Events), Undecided(events),
           NEW summary, summary = HistorySummary(events)
    PROVE  summary.status = "idle" /\ summary.failureCode = NoCode
<1>1. \A type \in Outcomes : ~Holds(events, type) /\ FirstOf(events, type) = 0
  BY HoldsFinds DEF Undecided
<1>2. /\ "transaction.failed" \in Outcomes /\ "transaction.completed" \in Outcomes
      /\ "transaction.cancelled" \in Outcomes /\ "flow.failed" \in Outcomes
      /\ "transaction.reconciliation_required" \in Outcomes
  BY DEF Outcomes, TerminalTypes
<1>3. SummaryStatus(events, TRUE) = "idle"
  BY <1>1, <1>2, Zenon DEF SummaryStatus
<1>4. SummaryFailureCode(events, TRUE) = NoCode
  BY <1>1, <1>2, Zenon DEF SummaryFailureCode
<1>5. summary = Summary(events, TRUE)
  BY <1>1, <1>2, Zenon DEF HistorySummary
<1>6. /\ summary.status = SummaryStatus(events, TRUE)
      /\ summary.failureCode = SummaryFailureCode(events, TRUE)
  BY <1>5 DEF Summary
<1> QED BY <1>3, <1>4, <1>6

LEMMA DecidedSummary ==
    ASSUME NEW events \in Seq(Events), Decided(events),
           NEW e, e = events[Len(events)],
           NEW summary, summary = HistorySummary(events)
    PROVE  /\ summary.status = OutcomeOf(e.type)
           /\ summary.failureCode =
                 IF e.type \in {"transaction.failed",
                                "transaction.reconciliation_required"} THEN e.code
                 ELSE IF e.type = "flow.failed" THEN "FLOW_FAILED" ELSE NoCode
<1>1. PICK N \in Nat \ {0} : N = Len(events)
  BY DEF Decided
<1>2. \A i \in 1 .. N : events[i].type \in Outcomes => i = N
  BY <1>1 DEF Decided, OnlyLast
<1>3. N \in 1 .. N
  BY <1>1
<1>4. \A type \in Outcomes :
         /\ Holds(events, type) <=> e.type = type
         /\ FirstOf(events, type) # 0 <=> e.type = type
         /\ e.type = type => events[FirstOf(events, type)] = e
  BY <1>1, <1>2, <1>3, HoldsFinds
<1>5. /\ "transaction.failed" \in Outcomes /\ "transaction.completed" \in Outcomes
      /\ "transaction.cancelled" \in Outcomes /\ "flow.failed" \in Outcomes
      /\ "transaction.reconciliation_required" \in Outcomes
  BY DEF Outcomes, TerminalTypes
<1>6. e.type \in Outcomes
  BY DEF Decided
<1>7. PICK ok \in BOOLEAN : ok = ~Holds(events, "flow.failed")
  OBVIOUS
<1>8. ok <=> e.type # "flow.failed"
  BY <1>4, <1>5, <1>7
<1>9. SummaryStatus(events, ok) = OutcomeOf(e.type)
  BY <1>4, <1>5, <1>6, <1>8 DEF SummaryStatus, OutcomeOf, Outcomes, TerminalTypes
<1>10. SummaryFailureCode(events, ok) =
          IF e.type \in {"transaction.failed",
                         "transaction.reconciliation_required"} THEN e.code
          ELSE IF e.type = "flow.failed" THEN "FLOW_FAILED" ELSE NoCode
  BY <1>4, <1>5, <1>6, <1>8 DEF SummaryFailureCode
<1>11. summary = Summary(events, ok)
  BY <1>7, Zenon DEF HistorySummary
<1>12. summary.status = SummaryStatus(events, ok)
       /\ summary.failureCode = SummaryFailureCode(events, ok)
  BY <1>11 DEF Summary
<1> QED BY <1>9, <1>10, <1>12

LEMMA FailedFlowSummary ==
    ASSUME NEW events \in Seq(Events), FailedFlow(events),
           NEW summary, summary = HistorySummary(events)
    PROVE  /\ summary.status = "failed"
           /\ summary.failureCode = events[Len(events) - 1].code
<1>1. PICK N \in Nat : N = Len(events) /\ N > 2
  BY DEF FailedFlow
<1>2. \A i \in 1 .. N : events[i].type = "transaction.failed" => i = N - 1
  <2>1. \A i \in 1 .. N : i \in 1 .. N - 2 \/ i = N - 1 \/ i = N
    BY <1>1
  <2> QED BY <1>1, <2>1 DEF FailedFlow, Outcomes, TerminalTypes
<1>3. N - 1 \in 1 .. N /\ events[N - 1].type = "transaction.failed"
  BY <1>1 DEF FailedFlow
<1>4. /\ Holds(events, "transaction.failed")
      /\ FirstOf(events, "transaction.failed") # 0
      /\ FirstOf(events, "transaction.failed") = N - 1
  BY <1>1, <1>2, <1>3, HoldsFinds
<1>5. PICK ok \in BOOLEAN : ok = ~Holds(events, "flow.failed")
  OBVIOUS
<1>6. SummaryStatus(events, ok) = "failed"
  BY <1>4, Zenon DEF SummaryStatus
<1>7. SummaryFailureCode(events, ok) = events[N - 1].code
  BY <1>4, Zenon DEF SummaryFailureCode
<1>8. summary = Summary(events, ok)
  BY <1>5, Zenon DEF HistorySummary
<1>9. summary.status = SummaryStatus(events, ok)
      /\ summary.failureCode = SummaryFailureCode(events, ok)
  BY <1>8 DEF Summary
<1> QED BY <1>1, <1>6, <1>7, <1>9

\* What is replayed of a journal: all but the anchor.
LEMMA ScopedEvents ==
    ASSUME NEW events \in Seq(Events), WellOrdered(events),
           NEW scoped, scoped = Tail(events)
    PROVE  /\ scoped \in Seq(Events)
           /\ Len(events) \in Nat \ {0}
           /\ Len(scoped) = Len(events) - 1
           /\ \A i \in 1 .. Len(scoped) : scoped[i] = events[i + 1]
           /\ NamedRight(scoped)
<1>1. Len(events) \in Nat \ {0}
  BY DEF WellOrdered, BeginsRight
<1>2. /\ scoped \in Seq(Events)
      /\ Len(scoped) = Len(events) - 1
      /\ \A i \in 1 .. Len(scoped) : scoped[i] = events[i + 1]
  BY <1>1
<1>3. \A i \in 1 .. Len(scoped) : i + 1 \in 1 .. Len(events)
  BY <1>1, <1>2
<1> QED BY <1>1, <1>2, <1>3 DEF WellOrdered, NamedRight

\* What the replay makes of each end.
LEMMA UndecidedStatus ==
    ASSUME NEW events \in Seq(Events), WellOrdered(events), Undecided(events)
    PROVE  Replay(events).status \in QuietStatuses
<1>1. PICK scoped : scoped = Tail(events)
  OBVIOUS
<1>2. /\ scoped \in Seq(Events) /\ NamedRight(scoped)
      /\ Len(events) \in Nat \ {0} /\ Len(scoped) = Len(events) - 1
      /\ \A i \in 1 .. Len(scoped) : scoped[i] = events[i + 1]
  BY <1>1, ScopedEvents
<1>3. /\ scoped \in Seq(Events) /\ NamedRight(scoped)
      /\ \A i \in 1 .. Len(scoped) : scoped[i].type \notin Outcomes
  <2>1. \A i \in 1 .. Len(scoped) : i + 1 \in 1 .. Len(events)
    BY <1>2
  <2> QED BY <1>2, <2>1 DEF Undecided
<1>4. ReplayScoped(scoped).status \in QuietStatuses
  BY <1>3, StatusRead
<1> QED BY <1>1, <1>4, Zenon DEF Replay

LEMMA LastStatus ==
    ASSUME NEW events \in Seq(Events), WellOrdered(events), Len(events) > 1,
           NEW e, e = events[Len(events)],
           NEW status, status = Replay(events).status
    PROVE  /\ e.type = "transaction.completed" => status = "completed"
           /\ e.type = "transaction.cancelled" => status = "cancelled"
           /\ e.type \in {"transaction.failed", "flow.failed"} => status = "failed"
           /\ e.type = "transaction.reconciliation_required" =>
                 status = "reconciliation_required"
<1>1. PICK scoped : scoped = Tail(events)
  OBVIOUS
<1>2. /\ scoped \in Seq(Events) /\ NamedRight(scoped)
      /\ Len(events) \in Nat \ {0} /\ Len(scoped) = Len(events) - 1
      /\ \A i \in 1 .. Len(scoped) : scoped[i] = events[i + 1]
  BY <1>1, ScopedEvents
<1>3. /\ scoped \in Seq(Events) /\ NamedRight(scoped)
      /\ Len(scoped) # 0 /\ scoped[Len(scoped)] = e
  <2>1. Len(scoped) \in 1 .. Len(scoped) /\ Len(scoped) + 1 = Len(events)
    BY <1>2
  <2> QED BY <1>2, <2>1
<1>4. status = ReplayScoped(scoped).status
  BY <1>1, Zenon DEF Replay
<1> QED BY <1>3, <1>4, StatusRead
-----------------------------------------------------------------------------
(***************************************************************************)
(* How the readers count the host's answers.                               *)
(***************************************************************************)
\* The fold of the classifier exists, too: its counts, one after each event.
LEMMA CountsUnfold ==
    ASSUME NEW events, Len(events) \in Nat
    PROVE  /\ PendingCounts(events)[0] = [t \in NamedIn(events) |-> 0]
           /\ \A n \in 1 .. Len(events) :
                 PendingCounts(events)[n]
                   = CountPending(PendingCounts(events)[n - 1], events[n])
<1> DEFINE N == Len(events)
           first == [t \in NamedIn(events) |-> 0]
           Run(m, f) ==
               f = [n \in 0 .. m |-> IF n = 0 THEN first
                                     ELSE CountPending(f[n - 1], events[n])]
           NoRun == {m \in 0 .. N : ~ \E f : Run(m, f)}
<1>1. NoRun = {}
  <2> SUFFICES ASSUME NoRun # {} PROVE FALSE
    OBVIOUS
  <2>1. PICK m \in NoRun : \A l \in NoRun : m <= l
    <3>1. NoRun \in SUBSET Nat
      OBVIOUS
    <3> HIDE DEF NoRun
    <3> QED BY <3>1, LeastNat
  <2>2. m \in 0 .. N /\ ~ \E f : Run(m, f)
    BY <2>1
  <2>3. CASE m = 0
    <3> DEFINE g == [n \in 0 .. 0 |-> first]
    <3> HIDE DEF first
    <3>1. g = [n \in 0 .. 0 |-> IF n = 0 THEN first
                                ELSE CountPending(g[n - 1], events[n])]
      OBVIOUS
    <3> QED BY <2>2, <2>3, <3>1
  <2>4. CASE m # 0
    <3>1. m - 1 \in 0 .. N /\ m - 1 \notin NoRun
      <4>1. m - 1 \in 0 .. N /\ ~(m <= m - 1)
        BY <2>2, <2>4
      <4> HIDE DEF NoRun
      <4> QED BY <2>1, <4>1
    <3>2. PICK f : Run(m - 1, f)
      BY <3>1
    <3> DEFINE g == [n \in 0 .. m |-> IF n = m THEN CountPending(f[m - 1], events[m])
                                               ELSE f[n]]
    <3> HIDE DEF first
    <3>3. ASSUME NEW n \in 0 .. m, n # 0
          PROVE  g[n] = CountPending(g[n - 1], events[n])
      <4>1. g[n - 1] = f[n - 1]
        BY <2>2, <3>3
      <4>2. CASE n = m
        BY <4>1, <4>2, <2>2
      <4>3. CASE n # m
        <5>1. n \in 0 .. m - 1
          BY <2>2, <4>3
        <5>2. f[n] = CountPending(f[n - 1], events[n])
          BY <3>2, <3>3, <5>1
        <5> QED BY <4>1, <4>3, <5>2, <3>3
      <4> QED BY <4>2, <4>3
    <3>4. g[0] = first
      <4>1. 0 \in 0 .. m - 1 /\ 0 \in 0 .. m
        BY <2>2, <2>4
      <4>2. f[0] = first
        BY <3>2, <4>1
      <4> QED BY <2>4, <4>1, <4>2
    <3>5. g = [n \in 0 .. m |-> g[n]]
      OBVIOUS
    <3> HIDE DEF g
    <3>6. Run(m, g)
      BY <3>3, <3>4, <3>5
    <3> QED BY <2>2, <3>6
  <2> QED BY <2>3, <2>4
<1>2. \E f : Run(N, f)
  <2>1. N \in 0 .. N
    OBVIOUS
  <2> QED BY <1>1, <2>1
<1>3. Run(N, PendingCounts(events))
  <2> DEFINE chosen == CHOOSE f : Run(N, f)
  <2>1. PendingCounts(events) = chosen
    BY Zenon DEF PendingCounts
  <2>2. Run(N, chosen)
    BY <1>2, Zenon
  <2> QED BY <2>1, <2>2
<1> HIDE DEF first
<1> DEFINE states == PendingCounts(events)
<1>4. \A n \in 0 .. N : states[n] = IF n = 0 THEN first
                                   ELSE CountPending(states[n - 1], events[n])
  <2> HIDE DEF states
  <2>1. Run(N, states)
    BY <1>3 DEF states
  <2> QED BY <2>1
<1> HIDE DEF states
<1>5. states[0] = first /\ \A n \in 1 .. N : states[n] = CountPending(states[n - 1], events[n])
  BY <1>4
<1> QED BY <1>5 DEF states, first

\* An event counts for the transaction it names.
LEMMA PendingGrows ==
    ASSUME NEW Names, NEW pending \in [Names -> Nat], NEW e,
           e.transaction = NoTransaction \/ e.transaction \in Names
    PROVE  /\ PendingAfter(pending, e) \in [Names -> Nat]
           /\ CountPending(pending, e) = PendingAfter(pending, e)
           /\ \A t \in Names : t # e.transaction => PendingAfter(pending, e)[t] = pending[t]
           /\ e.transaction # NoTransaction =>
                 /\ e.type = "host.authorization_requested" =>
                       PendingAfter(pending, e)[e.transaction] > 0
                 /\ e.type # "host.authorization_result" =>
                       PendingAfter(pending, e)[e.transaction]
                          >= pending[e.transaction]
           /\ e.transaction = NoTransaction => PendingAfter(pending, e) = pending
<1> DEFINE t == e.transaction
           more == [pending EXCEPT ![t] = @ + 1]
           less == [pending EXCEPT ![t] = @ - 1]
<1>1. CASE t = NoTransaction
  BY <1>1 DEF PendingAfter, CountPending
<1>2. CASE t # NoTransaction /\ e.type = "host.authorization_requested"
  <2>1. PendingAfter(pending, e) = more
    BY <1>2, Zenon DEF PendingAfter
  <2>2. CountPending(pending, e) = more
    BY <1>2, Zenon DEF CountPending
  <2> QED BY <1>2, <2>1, <2>2
<1>3. CASE t # NoTransaction /\ e.type = "host.authorization_result" /\ pending[t] > 0
  <2>1. pending[t] # 0 /\ "host.authorization_result" # "host.authorization_requested"
    BY <1>3
  <2>2. PendingAfter(pending, e) = less
    BY <1>3, <2>1, Zenon DEF PendingAfter
  <2>3. CountPending(pending, e) = less
    BY <1>3, <2>1, Zenon DEF CountPending
  <2>4. pending[t] \in Nat
    BY <1>3
  <2>5. less \in [Names -> Nat]
    BY <1>3, <2>4
  <2> QED BY <1>3, <2>1, <2>2, <2>3, <2>5
<1>4. CASE t # NoTransaction /\ e.type = "host.authorization_result" /\ ~(pending[t] > 0)
  <2>1. pending[t] = 0 /\ "host.authorization_result" # "host.authorization_requested"
    BY <1>4
  <2>2. PendingAfter(pending, e) = pending
    BY <1>4, <2>1 DEF PendingAfter
  <2>3. CountPending(pending, e) = pending
    BY <1>4, <2>1, Zenon DEF CountPending
  <2> QED BY <1>4, <2>1, <2>2, <2>3
<1>5. CASE /\ t # NoTransaction
           /\ e.type \notin {"host.authorization_requested", "host.authorization_result"}
  <2>1. PendingAfter(pending, e) = pending
    BY <1>5 DEF PendingAfter
  <2>2. CountPending(pending, e) = pending
    BY <1>5, Zenon DEF CountPending
  <2> QED BY <1>5, <2>1, <2>2
<1> QED BY <1>1, <1>2, <1>3, <1>4, <1>5

\* The counts of the replay are those of the classifier; the anchor counts for
\* nothing.
LEMMA CountsAgree ==
    ASSUME NEW events \in Seq(Events), WellOrdered(events)
    PROVE  LET scoped == Tail(events)
           IN  \A n \in 0 .. Len(scoped) :
                  /\ ReplayStates(scoped)[n].pending \in [NamesIn(scoped) -> Nat]
                  /\ \A t \in NamesIn(scoped) :
                        ReplayStates(scoped)[n].pending[t] =
                           IF t \in NamedIn(events) THEN PendingCounts(events)[n + 1][t]
                                                    ELSE 0
<1>0. PICK scoped, states, counts : /\ scoped = Tail(events)
                                    /\ states = ReplayStates(scoped)
                                    /\ counts = PendingCounts(events)
  OBVIOUS
<1> USE <1>0
<1>1. PICK N : N = Len(scoped)
  OBVIOUS
<1>2. /\ scoped \in Seq(Events) /\ NamedRight(scoped)
      /\ N \in Nat /\ Len(events) = N + 1
      /\ \A i \in 1 .. N : scoped[i] = events[i + 1]
  <2>1. /\ scoped \in Seq(Events) /\ NamedRight(scoped)
        /\ Len(events) \in Nat \ {0} /\ Len(scoped) = Len(events) - 1
        /\ \A i \in 1 .. Len(scoped) : scoped[i] = events[i + 1]
    BY ScopedEvents
  <2> QED BY <1>1, <2>1
<1>3. /\ states[0] = InitialState(scoped)
      /\ \A n \in 1 .. N : states[n].pending = PendingAfter(states[n - 1].pending, scoped[n])
  <2>1. /\ states[0] = InitialState(scoped)
        /\ \A n \in 1 .. Len(scoped) : Reads(states[n - 1], scoped[n], states[n])
    BY <1>2, ReplayRuns
  <2> QED BY <1>1, <2>1, Zenon DEF Reads
<1>4. PICK Names, Named : Names = NamesIn(scoped) /\ Named = NamedIn(events)
  OBVIOUS
<1>5. /\ Named \subseteq Names /\ NoTransaction \notin Named
      /\ \A i \in 1 .. N : /\ scoped[i].transaction \in Names
                           /\ scoped[i].transaction # NoTransaction =>
                                 scoped[i].transaction \in Named
  <2>1. events[1].transaction = NoTransaction
    BY DEF WellOrdered, BeginsRight
  <2>2. /\ Names = {scoped[i].transaction : i \in 1 .. N} \cup {UnnamedTransaction}
        /\ Named = {events[i].transaction : i \in 1 .. N + 1} \ {NoTransaction}
    <3>1. DOMAIN scoped = 1 .. N /\ DOMAIN events = 1 .. N + 1
      BY <1>1, <1>2
    <3> QED BY <1>4, <3>1, Zenon DEF NamesIn, NamedIn
  <2>3. Named \subseteq Names
    <3> SUFFICES ASSUME NEW i \in 1 .. N + 1, events[i].transaction # NoTransaction
                 PROVE  events[i].transaction \in Names
      BY <2>2
    <3>1. i # 1 /\ i - 1 \in 1 .. N /\ (i - 1) + 1 = i
      BY <1>2, <2>1
    <3>2. events[i] = scoped[i - 1]
      BY <1>2, <3>1
    <3> QED BY <2>2, <3>1, <3>2
  <2>4. \A i \in 1 .. N : i + 1 \in 1 .. N + 1
    BY <1>2
  <2> QED BY <1>2, <2>2, <2>3, <2>4
<1>6. /\ counts[0] = [t \in Named |-> 0]
      /\ \A n \in 1 .. N + 1 : counts[n] = CountPending(counts[n - 1], events[n])
  BY <1>2, <1>4, CountsUnfold
<1> DEFINE Agree(pending, count) ==
               /\ pending \in [Names -> Nat]
               /\ count \in [Named -> Nat]
               /\ \A t \in Names : pending[t] = IF t \in Named THEN count[t] ELSE 0
           S == {n \in 0 .. N : Agree(states[n].pending, counts[n + 1])}
<1>7. Agree(states[0].pending, counts[1])
  <2>1. states[0].pending = [t \in Names |-> 0]
    BY <1>3, <1>4, ReplayStarts, Zenon
  <2>2. counts[1] = [t \in Named |-> 0]
    <3>1. counts[1] = CountPending(counts[0], events[1])
      BY <1>2, <1>6
    <3>2. events[1].transaction = NoTransaction
      BY DEF WellOrdered, BeginsRight
    <3> QED BY <1>6, <3>1, <3>2, Zenon DEF CountPending
  <2> QED BY <1>5, <2>1, <2>2
<1>8. ASSUME NEW pending, NEW count, Agree(pending, count), NEW n \in 1 .. N
      PROVE  Agree(PendingAfter(pending, scoped[n]), CountPending(count, scoped[n]))
  <2>1. PICK e : e = scoped[n]
    OBVIOUS
  <2>2. /\ e.transaction \in Names
        /\ e.transaction = NoTransaction \/ e.transaction \in Named
    BY <1>5, <2>1
  <2>3. PendingAfter(pending, e) \in [Names -> Nat]
    BY <1>8, <2>2, PendingGrows
  <2>4. /\ CountPending(count, e) \in [Named -> Nat]
        /\ CountPending(count, e) = PendingAfter(count, e)
    BY <1>8, <2>2, PendingGrows
  <2>5. ASSUME NEW t \in Names
        PROVE  PendingAfter(pending, e)[t] = IF t \in Named THEN PendingAfter(count, e)[t]
                                                            ELSE 0
    <3>1. CASE e.transaction = NoTransaction
      BY <1>8, <3>1 DEF PendingAfter
    <3>2. CASE e.transaction # NoTransaction /\ t # e.transaction
      <4>1. PendingAfter(pending, e)[t] = pending[t]
        BY <1>8, <2>2, <3>2, PendingGrows
      <4>2. t \in Named => PendingAfter(count, e)[t] = count[t]
        BY <1>8, <2>2, <3>2, PendingGrows
      <4> QED BY <1>8, <4>1, <4>2
    <3>3. CASE e.transaction # NoTransaction /\ t = e.transaction
      <4>1. t \in Named /\ pending[t] = count[t] /\ count[t] \in Nat
        BY <1>8, <2>2, <3>3
      <4>2. PendingAfter(pending, e)[t] = PendingAfter(count, e)[t]
        <5>1. CASE e.type = "host.authorization_requested"
          BY <1>8, <3>3, <4>1, <5>1 DEF PendingAfter
        <5>2. CASE e.type = "host.authorization_result"
          BY <1>8, <3>3, <4>1, <5>2 DEF PendingAfter
        <5>3. CASE e.type \notin {"host.authorization_requested",
                                  "host.authorization_result"}
          BY <4>1, <5>3 DEF PendingAfter
        <5> QED BY <5>1, <5>2, <5>3
      <4> QED BY <4>1, <4>2
    <3> QED BY <3>1, <3>2, <3>3
  <2> QED BY <2>1, <2>3, <2>4, <2>5
<1>9. 0 \in S
  BY <1>2, <1>7
<1>10. \A n \in 1 .. N : n - 1 \in S => n \in S
  <2> SUFFICES ASSUME NEW n \in 1 .. N, Agree(states[n - 1].pending, counts[n])
               PROVE  Agree(states[n].pending, counts[n + 1])
    BY <1>2
  <2>1. states[n].pending = PendingAfter(states[n - 1].pending, scoped[n])
    BY <1>3
  <2>2. counts[n + 1] = CountPending(counts[n], scoped[n])
    <3>1. n + 1 \in 1 .. N + 1 /\ (n + 1) - 1 = n /\ events[n + 1] = scoped[n]
      BY <1>2
    <3> QED BY <1>6, <3>1
  <2> HIDE DEF Agree
  <2>3. Agree(PendingAfter(states[n - 1].pending, scoped[n]), CountPending(counts[n], scoped[n]))
    BY <1>8
  <2> QED BY <2>1, <2>2, <2>3
<1>11. \A n \in 0 .. N : n \in S
  <2> HIDE DEF S
  <2> QED BY <1>2, <1>9, <1>10, AllPositions
<1>12. \A n \in 0 .. Len(scoped) :
          /\ states[n].pending \in [NamesIn(scoped) -> Nat]
          /\ \A t \in NamesIn(scoped) :
                states[n].pending[t] =
                   IF t \in NamedIn(events) THEN counts[n + 1][t] ELSE 0
  BY <1>1, <1>4, <1>11
<1> QED BY <1>12, Zenon

LEMMA PendingAgree ==
    ASSUME NEW events \in Seq(Events), WellOrdered(events),
           NEW pending, pending = Replay(events).pending
    PROVE  /\ DOMAIN pending = NamesIn(Tail(events))
           /\ PendingAuthorizationTransactions(events)
                 = {t \in DOMAIN pending : pending[t] > 0}
<1>1. PICK scoped, N : scoped = Tail(events) /\ N = Len(scoped)
  OBVIOUS
<1>2. PICK states, counts : /\ states = ReplayStates(scoped)
                            /\ counts = PendingCounts(events)
  OBVIOUS
<1>3. N \in Nat /\ Len(events) = N + 1
  BY <1>1, ScopedEvents
<1>4. pending = states[N].pending
  BY <1>1, <1>2, Zenon DEF Replay, ReplayScoped
<1>5. /\ pending \in [NamesIn(scoped) -> Nat]
      /\ \A t \in NamesIn(scoped) :
            pending[t] = IF t \in NamedIn(events) THEN counts[N + 1][t] ELSE 0
  <2>1. N \in 0 .. N
    BY <1>3
  <2>2. \A n \in 0 .. Len(scoped) :
           /\ states[n].pending \in [NamesIn(scoped) -> Nat]
           /\ \A t \in NamesIn(scoped) :
                 states[n].pending[t] =
                    IF t \in NamedIn(events) THEN counts[n + 1][t] ELSE 0
    BY <1>1, <1>2, CountsAgree
  <2> QED BY <1>1, <1>4, <2>1, <2>2
<1>6. NamedIn(events) \subseteq NamesIn(scoped)
  <2> SUFFICES ASSUME NEW i \in DOMAIN events, events[i].transaction # NoTransaction
               PROVE  events[i].transaction \in NamesIn(scoped)
    BY Zenon DEF NamedIn
  <2>1. i # 1 /\ i - 1 \in DOMAIN scoped /\ scoped[i - 1] = events[i]
    <3>1. i # 1 /\ i \in 1 .. N + 1
      BY <1>3 DEF WellOrdered, BeginsRight
    <3>2. i - 1 \in 1 .. N /\ (i - 1) + 1 = i
      BY <1>3, <3>1
    <3>3. scoped[i - 1] = events[(i - 1) + 1] /\ scoped \in Seq(Events)
      BY <1>1, <3>2, ScopedEvents
    <3> QED BY <1>1, <3>1, <3>2, <3>3
  <2> QED BY <2>1, Zenon DEF NamesIn
<1>7. PendingAuthorizationTransactions(events)
         = {t \in NamedIn(events) : counts[N + 1][t] > 0}
  BY <1>2, <1>3, Zenon DEF PendingAuthorizationTransactions
<1> QED BY <1>1, <1>5, <1>6, <1>7
-----------------------------------------------------------------------------
LEMMA OrderMeansAgreed ==
    ASSUME TypeOK, Trail, Ordered
    PROVE  ReadersAgree
<1> SUFFICES ASSUME NEW file \in Persisted
             PROVE  LET replayed == Replay(file)
                        summary  == HistorySummary(file)
                        outcome  == CASE replayed.status \in {"completed", "cancelled"} ->
                                           replayed.status
                                      [] replayed.status \in
                                           {"failed", "reconciliation_required"} -> "failed"
                                      [] OTHER -> "idle"
                    IN  /\ PendingAuthorizationTransactions(file)
                             = {t \in DOMAIN replayed.pending : replayed.pending[t] > 0}
                        /\ outcome = JournalOutcome(file)
                        /\ outcome = summary.status
                        /\ \/ summary.failureCode = TerminalFailureCode(file)
                           \/ /\ summary.failureCode = "FLOW_FAILED"
                              /\ TerminalFailureCode(file) = NoCode
  BY Zenon DEF ReadersAgree
<1>1. PICK replayed, summary : replayed = Replay(file) /\ summary = HistorySummary(file)
  OBVIOUS
<1> DEFINE outcome == CASE replayed.status \in {"completed", "cancelled"} ->
                             replayed.status
                        [] replayed.status \in {"failed", "reconciliation_required"} ->
                             "failed"
                        [] OTHER -> "idle"
<1>2. /\ file \in Seq(Events) /\ Len(file) # 0 /\ Len(file) <= Len(journal)
      /\ \A i \in 1 .. Len(file) : file[i] = journal[i]
      /\ Entries(file) \subseteq Entries(journal)
  BY PersistedPrefix
<1>3. WellOrdered(file)
  <2>1. Len(file) \in Nat \ {0} /\ Len(journal) \in Nat
    BY <1>2 DEF TypeOK
  <2> QED BY <1>2, <2>1, OrderOfPrefix DEF Ordered
<1>4. \A e \in Entries(file) : e.type = "flow.failed" => e.code = NoCode
  BY <1>2 DEF Trail, Verdict
<1>5. /\ replayed.status \in {"completed", "cancelled"} => outcome = replayed.status
      /\ replayed.status \in {"failed", "reconciliation_required"} => outcome = "failed"
      /\ replayed.status \in QuietStatuses => outcome = "idle"
  <2>1. /\ {"completed", "cancelled"} \cap {"failed", "reconciliation_required"} = {}
        /\ QuietStatuses \cap {"failed", "reconciliation_required"} = {}
        /\ QuietStatuses \cap {"completed", "cancelled"} = {}
    BY DEF QuietStatuses
  <2> QED BY <2>1, Zenon
<1>6. PendingAuthorizationTransactions(file)
         = {t \in DOMAIN replayed.pending : replayed.pending[t] > 0}
  BY <1>1, <1>2, <1>3, PendingAgree
<1> HIDE DEF outcome
<1>7. /\ outcome = JournalOutcome(file)
      /\ outcome = summary.status
      /\ \/ summary.failureCode = TerminalFailureCode(file)
         \/ /\ summary.failureCode = "FLOW_FAILED"
            /\ TerminalFailureCode(file) = NoCode
  <2>1. CASE Undecided(file)
    <3>1. replayed.status \in QuietStatuses
      BY <1>1, <1>2, <1>3, <2>1, UndecidedStatus
    <3>2. summary.status = "idle" /\ summary.failureCode = NoCode
      BY <1>1, <1>2, <2>1, UndecidedSummary
    <3>3. JournalOutcome(file) = "idle" /\ TerminalFailureCode(file) = NoCode
      BY <1>2, <2>1, UndecidedOutcome
    <3> QED BY <1>5, <3>1, <3>2, <3>3
  <2>2. CASE Decided(file)
    <3>1. PICK e : e = file[Len(file)]
      OBVIOUS
    <3>2. e.type \in Outcomes /\ Len(file) > 1 /\ e \in Entries(file)
      BY <1>2, <2>2, <3>1 DEF Decided, Entries
    <3>3. /\ e.type = "transaction.completed" => replayed.status = "completed"
          /\ e.type = "transaction.cancelled" => replayed.status = "cancelled"
          /\ e.type \in {"transaction.failed", "flow.failed"} => replayed.status = "failed"
          /\ e.type = "transaction.reconciliation_required" =>
                replayed.status = "reconciliation_required"
      BY <1>1, <1>2, <1>3, <3>1, <3>2, LastStatus
    <3>4. outcome = OutcomeOf(e.type)
      BY <1>5, <3>2, <3>3 DEF OutcomeOf, Outcomes, TerminalTypes
    <3>5. /\ summary.status = OutcomeOf(e.type)
          /\ summary.failureCode =
                IF e.type \in {"transaction.failed",
                               "transaction.reconciliation_required"} THEN e.code
                ELSE IF e.type = "flow.failed" THEN "FLOW_FAILED" ELSE NoCode
      BY <1>1, <1>2, <2>2, <3>1, DecidedSummary
    <3>6. /\ JournalOutcome(file) = OutcomeOf(e.type)
          /\ TerminalFailureCode(file) =
                IF e.type \in {"transaction.failed",
                               "transaction.reconciliation_required"}
                THEN e.code ELSE NoCode
      BY <1>2, <1>4, <2>2, <3>1, <3>2, DecidedOutcome
    <3> QED BY <3>4, <3>5, <3>6
  <2>3. CASE FailedFlow(file)
    <3>1. replayed.status = "failed"
      BY <1>1, <1>2, <1>3, <2>3, LastStatus DEF FailedFlow
    <3>2. summary.status = "failed" /\ summary.failureCode = file[Len(file) - 1].code
      BY <1>1, <1>2, <2>3, FailedFlowSummary
    <3>3. /\ JournalOutcome(file) = "failed"
          /\ TerminalFailureCode(file) = file[Len(file) - 1].code
      BY <1>2, <2>3, FailedFlowOutcome
    <3> QED BY <1>5, <3>1, <3>2, <3>3
  <2> QED BY <1>2, <1>3, <2>1, <2>2, <2>3, ThreeEnds
<1> QED BY <1>1, <1>6, <1>7, Zenon DEF outcome

\* The replay, the classifier and the terminal's summary of a session's journal
\* were written separately, and agree on every journal a stop can leave behind:
\* on the requests the host has not answered, on the outcome, and but for a
\* lone flow failure on its code (replaySessionRecords, classifyRecovery,
\* summarizeEvents).
THEOREM SpecReadersAgree == Spec => []ReadersAgree
BY OrderMeansAgreed, SpecTypeOK, SpecTrail, SpecOrdered, PTL
-----------------------------------------------------------------------------
(***************************************************************************)
(* The replay of a journal in order finds nothing wrong but its end.       *)
(***************************************************************************)
\* What the replay has seen of the lifecycle after n of a session's events.
CleanSoFar(scoped, state, n) ==
    /\ state.errors = {}
    /\ state.pending \in [NamesIn(scoped) -> Nat]
    /\ \A t \in state.active :
          \E i \in 1 .. n : scoped[i].type = "transaction.started" /\ scoped[i].transaction = t
    /\ \A i \in 1 .. n :
          /\ scoped[i].type = "host.authorization_requested"
          /\ \A j \in 1 .. n : scoped[j].type # "host.authorization_result"
          => state.pending[scoped[i].transaction] > 0

LEMMA CleanStarts ==
    ASSUME NEW scoped \in Seq(Events)
    PROVE  CleanSoFar(scoped, InitialState(scoped), 0)
<1>1. /\ InitialState(scoped).errors = {} /\ InitialState(scoped).active = {}
      /\ InitialState(scoped).pending = [t \in NamesIn(scoped) |-> 0]
  BY DEF InitialState
<1>2. 1 .. 0 = {}
  OBVIOUS
<1> QED BY <1>1, <1>2 DEF CleanSoFar

LEMMA CleanStays ==
    ASSUME NEW scoped \in Seq(Events), NamedRight(scoped), AskedOnceRight(scoped),
           NEW n \in 1 .. Len(scoped), NEW before, NEW after,
           CleanSoFar(scoped, before, n - 1), Reads(before, scoped[n], after)
    PROVE  CleanSoFar(scoped, after, n)
<1>0. PICK e, pending, Names : /\ e = scoped[n] /\ pending = before.pending
                               /\ Names = NamesIn(scoped)
  OBVIOUS
<1>1. /\ n \in Nat \ {0} /\ n \in 1 .. n /\ n - 1 \in Nat
      /\ \A i \in 1 .. n - 1 : i \in 1 .. n /\ i # n
      /\ \A i \in 1 .. n : i \in 1 .. Len(scoped) /\ (i = n \/ i \in 1 .. n - 1)
  OBVIOUS
<1>2. /\ before.errors = {} /\ pending \in [Names -> Nat]
      /\ \A t \in before.active :
            \E i \in 1 .. n - 1 : /\ scoped[i].type = "transaction.started"
                                  /\ scoped[i].transaction = t
      /\ \A i \in 1 .. n - 1 :
            /\ scoped[i].type = "host.authorization_requested"
            /\ \A j \in 1 .. n - 1 : scoped[j].type # "host.authorization_result"
            => pending[scoped[i].transaction] > 0
  BY <1>0 DEF CleanSoFar
<1>3. \A i \in 1 .. Len(scoped) : scoped[i].transaction \in Names
  BY <1>0 DEF NamesIn
<1>4. /\ e.transaction \in Names
      /\ e.type \in NamingTypes => e.transaction # NoTransaction
  BY <1>0, <1>3 DEF NamedRight
<1>5. /\ "host.authorization_result" \in NamingTypes
      /\ "host.authorization_requested" \in NamingTypes
      /\ "host.authorization_result" \in OnceTypes
      /\ "transaction.started" \in OnceTypes
  BY DEF NamingTypes, OnceTypes
<1>6. \A i \in 1 .. n - 1 : e.type \in OnceTypes => scoped[i].type # e.type
  BY <1>0, <1>1 DEF AskedOnceRight
<1>7. e.type = "host.authorization_result" => pending[e.transaction] > 0
  <2> SUFFICES ASSUME e.type = "host.authorization_result"
               PROVE  pending[e.transaction] > 0
    OBVIOUS
  <2>1. PICK i \in 1 .. n - 1 : /\ scoped[i].type = "host.authorization_requested"
                                /\ scoped[i].transaction = e.transaction
    BY <1>0 DEF AskedOnceRight
  <2>2. \A j \in 1 .. n - 1 : scoped[j].type # "host.authorization_result"
    BY <1>5, <1>6
  <2> QED BY <1>2, <2>1, <2>2
<1>8. after.errors = {}
  <2>1. ~(/\ e.type = "host.authorization_result"
          /\ pending[e.transaction] = 0)
    BY <1>7
  <2>2. ~(e.type = "transaction.started" /\ e.transaction \in before.active)
    BY <1>2, <1>5, <1>6
  <2> QED BY <1>0, <1>2, <2>1, <2>2 DEF Reads
<1>9. after.pending = PendingAfter(pending, e)
  BY <1>0 DEF Reads
<1>10. /\ PendingAfter(pending, e) \in [Names -> Nat]
       /\ \A t \in Names : t # e.transaction => PendingAfter(pending, e)[t] = pending[t]
       /\ e.transaction # NoTransaction =>
             /\ e.type = "host.authorization_requested" =>
                   PendingAfter(pending, e)[e.transaction] > 0
             /\ e.type # "host.authorization_result" =>
                   PendingAfter(pending, e)[e.transaction] >= pending[e.transaction]
       /\ e.transaction = NoTransaction => PendingAfter(pending, e) = pending
  BY <1>2, <1>4, PendingGrows
<1>11. ASSUME NEW i \in 1 .. n, scoped[i].type = "host.authorization_requested",
              \A j \in 1 .. n : scoped[j].type # "host.authorization_result"
       PROVE  after.pending[scoped[i].transaction] > 0
  <2>1. CASE i = n
    BY <1>0, <1>4, <1>5, <1>9, <1>10, <1>11, <2>1
  <2>2. CASE i \in 1 .. n - 1
    <3>1. PICK t \in Names : t = scoped[i].transaction
      BY <1>1, <1>3
    <3>2. pending[t] > 0 /\ pending[t] \in Nat
      BY <1>1, <1>2, <1>11, <2>2, <3>1
    <3>3. e.type # "host.authorization_result"
      BY <1>0, <1>1, <1>11
    <3>4. PendingAfter(pending, e)[t] \in Nat /\ PendingAfter(pending, e)[t] >= pending[t]
      BY <1>10, <3>1, <3>2, <3>3
    <3> QED BY <1>9, <3>1, <3>2, <3>4
  <2> QED BY <1>1, <2>1, <2>2
<1>12. ASSUME NEW t \in after.active
       PROVE  \E i \in 1 .. n : /\ scoped[i].type = "transaction.started"
                                /\ scoped[i].transaction = t
  <2>1. DOMAIN StatusOf = {"transaction.started"} \cup TerminalTypes
    BY DEF StatusOf
  <2>2. t \in before.active \/ (e.type = "transaction.started" /\ t = e.transaction)
    BY <1>0, <1>12, <2>1 DEF Reads
  <2> QED BY <1>0, <1>1, <1>2, <2>2
<1> QED BY <1>0, <1>8, <1>9, <1>10, <1>11, <1>12 DEF CleanSoFar

LEMMA ReplayIsClean ==
    ASSUME NEW scoped \in Seq(Events), NamedRight(scoped), AskedOnceRight(scoped)
    PROVE  \A n \in 0 .. Len(scoped) : CleanSoFar(scoped, ReplayStates(scoped)[n], n)
<1>1. PICK states, N : states = ReplayStates(scoped) /\ N = Len(scoped)
  OBVIOUS
<1>2. /\ states[0] = InitialState(scoped)
      /\ \A n \in 1 .. N : Reads(states[n - 1], scoped[n], states[n])
  BY <1>1, ReplayRuns
<1> DEFINE S == {n \in 0 .. N : CleanSoFar(scoped, states[n], n)}
<1>3. N \in Nat
  BY <1>1
<1>4. 0 \in S
  <2>1. CleanSoFar(scoped, InitialState(scoped), 0)
    BY CleanStarts
  <2>2. CleanSoFar(scoped, states[0], 0)
    BY <1>2, <2>1, Zenon
  <2>3. 0 \in 0 .. N
    BY <1>3
  <2> QED BY <2>2, <2>3
<1>5. \A n \in 1 .. N : n - 1 \in S => n \in S
  <2> SUFFICES ASSUME NEW n \in 1 .. N, CleanSoFar(scoped, states[n - 1], n - 1)
               PROVE  n \in 0 .. N /\ CleanSoFar(scoped, states[n], n)
    OBVIOUS
  <2>1. n \in 0 .. N
    BY <1>3
  <2>2. PICK before, after : before = states[n - 1] /\ after = states[n]
    OBVIOUS
  <2>3. Reads(before, scoped[n], after) /\ CleanSoFar(scoped, before, n - 1)
    BY <1>2, <2>2
  <2>4. n \in 1 .. Len(scoped)
    BY <1>1
  <2>5. CleanSoFar(scoped, after, n)
    BY <2>3, <2>4, CleanStays
  <2> QED BY <2>1, <2>2, <2>5
<1>6. \A n \in 0 .. N : n \in S
  <2> HIDE DEF S
  <2> QED BY <1>3, <1>4, <1>5, AllPositions
<1> QED BY <1>1, <1>6

\* The session's events keep what is in order about them.
LEMMA ScopedAskedOnce ==
    ASSUME NEW events \in Seq(Events), WellOrdered(events),
           NEW scoped, scoped = Tail(events)
    PROVE  AskedOnceRight(scoped)
<1>1. /\ scoped \in Seq(Events) /\ Len(scoped) \in Nat
      /\ Len(events) = Len(scoped) + 1
      /\ \A i \in 1 .. Len(scoped) : scoped[i] = events[i + 1]
  <2>1. /\ scoped \in Seq(Events)
        /\ Len(events) \in Nat \ {0} /\ Len(scoped) = Len(events) - 1
        /\ \A i \in 1 .. Len(scoped) : scoped[i] = events[i + 1]
    BY ScopedEvents
  <2> QED BY <2>1
<1>2. \A i \in 1 .. Len(scoped) : i + 1 \in 1 .. Len(events)
  BY <1>1
<1>3. AskedOnceRight(events) /\ events[1].type = "runtime.started"
  BY DEF WellOrdered, BeginsRight
<1>4. ASSUME NEW i \in 1 .. Len(scoped), NEW j \in 1 .. Len(scoped),
             scoped[i].type \in OnceTypes, scoped[i].type = scoped[j].type
      PROVE  i = j
  <2>1. i + 1 = j + 1
    BY <1>1, <1>2, <1>3, <1>4 DEF AskedOnceRight
  <2> QED BY <1>1, <2>1
<1>5. ASSUME NEW j \in 1 .. Len(scoped), scoped[j].type = "host.authorization_result"
      PROVE  \E i \in 1 .. j - 1 : /\ scoped[i].type = "host.authorization_requested"
                                   /\ scoped[i].transaction = scoped[j].transaction
  <2>1. PICK i \in 1 .. (j + 1) - 1 :
               /\ events[i].type = "host.authorization_requested"
               /\ events[i].transaction = events[j + 1].transaction
    BY <1>1, <1>2, <1>3, <1>5 DEF AskedOnceRight
  <2>2. i # 1
    BY <1>3, <2>1
  <2>3. i - 1 \in 1 .. j - 1 /\ i - 1 \in 1 .. Len(scoped) /\ (i - 1) + 1 = i
    BY <1>1, <2>1, <2>2
  <2>4. scoped[i - 1] = events[i]
    BY <1>1, <2>3
  <2> QED BY <1>1, <1>5, <2>1, <2>3, <2>4
<1> QED BY <1>4, <1>5 DEF AskedOnceRight

\* The last event of a session that has an outcome leaves no transaction open.
LEMMA NothingLeftOpen ==
    ASSUME NEW events \in Seq(Events), WellOrdered(events), Len(events) > 1,
           \E j \in 1 .. Len(events) : events[j].type \in TerminalTypes,
           ~Undecided(events),
           Decided(events) \/ FailedFlow(events)
    PROVE  Replay(events).active = {}
<1>1. PICK scoped, states, N : /\ scoped = Tail(events) /\ states = ReplayStates(scoped)
                               /\ N = Len(scoped)
  OBVIOUS
<1>2. /\ scoped \in Seq(Events) /\ NamedRight(scoped) /\ AskedOnceRight(scoped)
      /\ N \in Nat /\ Len(events) = N + 1
      /\ \A i \in 1 .. N : scoped[i] = events[i + 1]
  <2>1. /\ scoped \in Seq(Events) /\ NamedRight(scoped)
        /\ Len(events) \in Nat \ {0} /\ Len(scoped) = Len(events) - 1
        /\ \A i \in 1 .. Len(scoped) : scoped[i] = events[i + 1]
    BY <1>1, ScopedEvents
  <2>2. AskedOnceRight(scoped)
    BY <1>1, ScopedAskedOnce
  <2> QED BY <1>1, <2>1, <2>2
<1>3. N \in 1 .. N /\ N - 1 \in 0 .. N /\ N \in 0 .. N
  BY <1>2
<1>4. /\ CleanSoFar(scoped, states[N], N) /\ CleanSoFar(scoped, states[N - 1], N - 1)
      /\ Reads(states[N - 1], scoped[N], states[N])
  <2>1. \A n \in 0 .. Len(scoped) : CleanSoFar(scoped, ReplayStates(scoped)[n], n)
    BY <1>2, ReplayIsClean
  <2>2. \A n \in 1 .. Len(scoped) : Reads(states[n - 1], scoped[n], states[n])
    BY <1>1, <1>2, ReplayRuns
  <2> QED BY <1>1, <1>3, <2>1, <2>2
<1>5. Replay(events).active = states[N].active
  BY <1>1, Zenon DEF Replay, ReplayScoped
<1>6. PICK j \in 1 .. Len(events) : events[j].type \in TerminalTypes
  OBVIOUS
<1>7. \A t \in states[N].active : \E i \in 1 .. Len(events) :
         events[i].type = "transaction.started" /\ events[i].transaction = t
  <2> SUFFICES ASSUME NEW t \in states[N].active
               PROVE  \E i \in 1 .. Len(events) : /\ events[i].type = "transaction.started"
                                                  /\ events[i].transaction = t
    OBVIOUS
  <2>1. PICK i \in 1 .. N : scoped[i].type = "transaction.started" /\ scoped[i].transaction = t
    BY <1>4, Zenon DEF CleanSoFar
  <2>2. i + 1 \in 1 .. Len(events) /\ scoped[i] = events[i + 1]
    BY <1>2
  <2> QED BY <2>1, <2>2
<1>8. \A i \in 1 .. Len(events) : events[i].type = "transaction.started" =>
         /\ events[j].type = "transaction.completed"
         /\ events[j].transaction = events[i].transaction
  BY <1>6 DEF WellOrdered, InquiryRight
<1>9. CASE events[j].type # "transaction.completed"
  BY <1>5, <1>7, <1>8, <1>9
<1>10. CASE events[j].type = "transaction.completed"
  <2>1. ~FailedFlow(events)
    <3> SUFFICES ASSUME FailedFlow(events) PROVE FALSE
      OBVIOUS
    <3>1. j \in 1 .. Len(events) - 2 \/ j = Len(events) - 1 \/ j = Len(events)
      BY <1>2
    <3> QED BY <1>6, <1>10, <3>1 DEF FailedFlow, Outcomes
  <2>2. j = Len(events)
    <3>1. j \in 1 .. Len(events) - 1 \/ j = Len(events)
      BY <1>2
    <3> QED BY <1>6, <2>1, <3>1 DEF Decided, OnlyLast, Outcomes
  <2>3. scoped[N] = events[j]
    BY <1>2, <1>3, <2>2
  <2>4. "transaction.completed" \in TerminalTypes
    BY DEF TerminalTypes
  <2>5. states[N].active = states[N - 1].active \ {events[j].transaction}
    BY <1>4, <1>10, <2>3, <2>4 DEF Reads
  <2>6. \A t \in states[N].active : t = events[j].transaction
    BY <1>7, <1>8
  <2> QED BY <1>5, <2>5, <2>6
<1> QED BY <1>9, <1>10

\* A journal in order whose transaction has an outcome is one the replay
\* accepts, but for host requests left open.
LEMMA OutcomeReplays ==
    ASSUME NEW events \in Seq(Events), WellOrdered(events),
           \E j \in 1 .. Len(events) : events[j].type \in TerminalTypes,
           PendingAuthorizationTransactions(events) = {}
    PROVE  ReplayValid(events)
<1>1. Decided(events) \/ FailedFlow(events)
  BY ThreeEnds DEF Undecided, Outcomes
<1>2. Len(events) > 1 /\ Len(events) \in Nat
  BY <1>1 DEF Decided, FailedFlow
<1>3. PICK state, scoped : state = Replay(events) /\ scoped = Tail(events)
  OBVIOUS
<1>4. state.errors = {}
  <2>1. /\ scoped \in Seq(Events) /\ NamedRight(scoped) /\ AskedOnceRight(scoped)
    BY <1>3, ScopedEvents, ScopedAskedOnce
  <2>2. \A n \in 0 .. Len(scoped) : CleanSoFar(scoped, ReplayStates(scoped)[n], n)
    BY <2>1, ReplayIsClean
  <2>3. Len(scoped) \in 0 .. Len(scoped)
    BY <2>1
  <2>4. state = ReplayStates(scoped)[Len(scoped)]
    BY <1>3, Zenon DEF Replay, ReplayScoped
  <2> QED BY <2>2, <2>3, <2>4 DEF CleanSoFar
<1>5. state.active = {}
  <2>1. ~Undecided(events)
    BY DEF Undecided, Outcomes
  <2> QED BY <1>1, <1>2, <1>3, <2>1, NothingLeftOpen
<1>6. state.status \in EndedStatuses
  <2>1. PICK e : e = events[Len(events)]
    OBVIOUS
  <2>2. e.type \in Outcomes
    BY <1>1, <2>1 DEF Decided, FailedFlow, Outcomes
  <2>3. /\ e.type = "transaction.completed" => state.status = "completed"
        /\ e.type = "transaction.cancelled" => state.status = "cancelled"
        /\ e.type \in {"transaction.failed", "flow.failed"} => state.status = "failed"
        /\ e.type = "transaction.reconciliation_required" =>
              state.status = "reconciliation_required"
    BY <1>2, <1>3, <2>1, LastStatus
  <2> QED BY <2>2, <2>3 DEF EndedStatuses, Outcomes, TerminalTypes
<1>7. ~(\E t \in DOMAIN state.pending : state.pending[t] > 0)
  <2>1. PendingAuthorizationTransactions(events)
           = {t \in DOMAIN state.pending : state.pending[t] > 0}
    BY <1>3, PendingAgree
  <2> QED BY <2>1
<1>8. ~(scoped = <<>> \/ Head(scoped).type # "flow.loaded")
  <2>1. /\ scoped \in Seq(Events) /\ Len(scoped) = Len(events) - 1
        /\ \A i \in 1 .. Len(scoped) : scoped[i] = events[i + 1]
    BY <1>3, ScopedEvents
  <2>2. 1 \in 1 .. Len(scoped) /\ 1 + 1 = 2
    BY <1>2, <2>1
  <2>3. scoped[1].type = "flow.loaded"
    BY <1>2, <2>1, <2>2 DEF WellOrdered, BeginsRight
  <2>4. Head(scoped) = scoped[1] /\ scoped # <<>>
    BY <2>1, <2>2
  <2> QED BY <2>3, <2>4
<1>9. CompletenessErrors(state, scoped) = {}
  BY <1>5, <1>6, <1>7, <1>8, Zenon DEF CompletenessErrors
<1>10. {e \in Entries(events) : Malformed(e)} = {}
  BY DEF WellOrdered, NamedRight, Malformed, Entries
<1>11. {"INVALID_PAYLOAD_FIELD" : e \in {e \in Entries(events) : Malformed(e)}} = {}
  BY <1>10
<1>12. ReplayErrors(events) = state.errors \cup CompletenessErrors(state, scoped) \cup
          {"INVALID_PAYLOAD_FIELD" : e \in {e \in Entries(events) : Malformed(e)}}
  BY <1>3, Zenon DEF ReplayErrors
<1> QED BY <1>4, <1>9, <1>11, <1>12 DEF ReplayValid

\* A flow that failed before its transaction had an outcome is left to a person.
LEMMA LoneFailureIsReviewed ==
    ASSUME NEW events \in Seq(Events), Decided(events),
           NEW e, e = events[Len(events)], e.type = "flow.failed", e.code = NoCode
    PROVE  ClassifyRecovery(events) \in {"manual_reconciliation", "operator_review"}
<1>1. /\ JournalOutcome(events) = OutcomeOf(e.type)
      /\ TerminalFailureCode(events) =
            IF e.type \in {"transaction.failed", "transaction.reconciliation_required"}
            THEN e.code ELSE NoCode
  BY DecidedOutcome
<1>2. JournalOutcome(events) = "failed" /\ TerminalFailureCode(events) = NoCode
  BY <1>1 DEF OutcomeOf
<1>3. DecidingIndex(events) = 0
  BY DecidedByLast DEF Decided
<1>4. ~FailedAfterApproval(events)
  BY <1>3 DEF FailedAfterApproval, Failed
<1> QED BY <1>2, <1>4 DEF ClassifyRecovery, NoCode, RecoveryCodes

LEMMA OrderMeansReviewed ==
    ASSUME TypeOK, Trail, Ordered
    PROVE  RejectedJournalsGoToAnOperator
<1> SUFFICES ASSUME NEW file \in Persisted, ~ReplayValid(file)
             PROVE  ClassifyRecovery(file) \in {"manual_reconciliation", "operator_review"}
  BY DEF RejectedJournalsGoToAnOperator
<1>1. /\ file \in Seq(Events) /\ Len(file) # 0 /\ Len(file) <= Len(journal)
      /\ \A i \in 1 .. Len(file) : file[i] = journal[i]
      /\ Entries(file) \subseteq Entries(journal)
  BY PersistedPrefix
<1>2. WellOrdered(file)
  <2>1. Len(file) \in Nat \ {0} /\ Len(journal) \in Nat
    BY <1>1 DEF TypeOK
  <2> QED BY <1>1, <2>1, OrderOfPrefix DEF Ordered
<1>3. CASE PendingAuthorizationTransactions(file) # {}
  BY <1>3 DEF ClassifyRecovery
<1>4. CASE Undecided(file)
  BY <1>1, <1>4, UndecidedIsReviewed DEF Undecided
<1>5. CASE PendingAuthorizationTransactions(file) = {} /\ ~Undecided(file)
  <2>1. \A j \in 1 .. Len(file) : file[j].type \notin TerminalTypes
    BY <1>1, <1>2, <1>5, OutcomeReplays
  <2>2. Decided(file)
    <3>1. ~FailedFlow(file)
      <4> SUFFICES ASSUME FailedFlow(file) PROVE FALSE
        OBVIOUS
      <4>1. Len(file) - 1 \in 1 .. Len(file)
        BY <1>1 DEF FailedFlow
      <4> QED BY <2>1, <4>1 DEF FailedFlow, TerminalTypes
    <3> QED BY <1>1, <1>2, <1>5, <3>1, ThreeEnds
  <2>3. PICK e : e = file[Len(file)]
    OBVIOUS
  <2>4. Len(file) \in 1 .. Len(file)
    BY <1>1
  <2>5. e.type = "flow.failed" /\ e \in Entries(journal)
    BY <1>1, <2>1, <2>2, <2>3, <2>4 DEF Decided, Outcomes, Entries
  <2>6. e.code = NoCode
    BY <2>5 DEF Trail, Verdict
  <2> QED BY <1>1, <2>2, <2>3, <2>5, <2>6, LoneFailureIsReviewed
<1> QED BY <1>3, <1>4, <1>5

\* A journal that replaySessionRecords rejects in strict mode, because the
\* terminal stopped before its transaction had an outcome or the host had
\* answered, is one classifyRecovery leaves to a person.
THEOREM SpecRejectedJournalsGoToAnOperator == Spec => []RejectedJournalsGoToAnOperator
BY OrderMeansReviewed, SpecTypeOK, SpecTrail, SpecOrdered, PTL
-----------------------------------------------------------------------------
(***************************************************************************)
(* A session that ran to its end certifies.                                *)
(***************************************************************************)
\* A request the host has answered.
AllAnswered(events) ==
    \A x \in Entries(events) : x.type = "host.authorization_requested" =>
        \E y \in Entries(events) : /\ y.type = "host.authorization_result"
                                   /\ y.transaction = x.transaction

\* After n of a session's events at most the one request is open.
OpenSoFar(scoped, pending, n) ==
    /\ pending \in [NamesIn(scoped) -> Nat]
    /\ \A t \in NamesIn(scoped) : pending[t] # 0 =>
          /\ pending[t] = 1
          /\ \E i \in 1 .. n : /\ scoped[i].type = "host.authorization_requested"
                               /\ scoped[i].transaction = t
          /\ \A j \in 1 .. n : scoped[j].type # "host.authorization_result"

LEMMA OpenStays ==
    ASSUME NEW scoped \in Seq(Events), NamedRight(scoped), AskedOnceRight(scoped),
           NEW n \in 1 .. Len(scoped), NEW before,
           OpenSoFar(scoped, before, n - 1)
    PROVE  OpenSoFar(scoped, PendingAfter(before, scoped[n]), n)
<1>0. PICK e, Names, after : /\ e = scoped[n] /\ Names = NamesIn(scoped)
                             /\ after = PendingAfter(before, e)
  OBVIOUS
<1>1. /\ n \in Nat \ {0} /\ n \in 1 .. n /\ n - 1 \in Nat
      /\ \A i \in 1 .. n - 1 : i \in 1 .. n /\ i # n /\ i \in 1 .. Len(scoped)
      /\ \A i \in 1 .. n : i \in 1 .. Len(scoped) /\ (i = n \/ i \in 1 .. n - 1)
  OBVIOUS
<1>2. /\ before \in [Names -> Nat]
      /\ \A t \in Names : before[t] # 0 =>
            /\ before[t] = 1
            /\ \E i \in 1 .. n - 1 : /\ scoped[i].type = "host.authorization_requested"
                                     /\ scoped[i].transaction = t
            /\ \A j \in 1 .. n - 1 : scoped[j].type # "host.authorization_result"
  BY <1>0 DEF OpenSoFar
<1>3. /\ e.transaction \in Names
      /\ e.type \in NamingTypes => e.transaction # NoTransaction
  BY <1>0 DEF NamedRight, NamesIn
<1>4. /\ "host.authorization_result" \in NamingTypes
      /\ "host.authorization_requested" \in NamingTypes
      /\ "host.authorization_requested" \in OnceTypes
  BY DEF NamingTypes, OnceTypes
<1>5. \A i, j \in 1 .. n : /\ scoped[i].type = "host.authorization_requested"
                           /\ scoped[j].type = "host.authorization_requested"
                           => i = j
  BY <1>1, <1>4 DEF AskedOnceRight
<1>6. \A j \in 1 .. n : scoped[j].type = "host.authorization_result" =>
         \E i \in 1 .. j - 1 : /\ scoped[i].type = "host.authorization_requested"
                               /\ scoped[i].transaction = scoped[j].transaction
  BY <1>1 DEF AskedOnceRight
<1>7. /\ after \in [Names -> Nat]
      /\ \A t \in Names : t # e.transaction => after[t] = before[t]
  BY <1>0, <1>2, <1>3, PendingGrows
<1>8. CASE e.type = "host.authorization_requested"
  <2>1. \A i \in 1 .. n - 1 : scoped[i].type # "host.authorization_requested"
    BY <1>0, <1>1, <1>5, <1>8
  <2>2. \A t \in Names : before[t] = 0
    BY <1>2, <2>1
  <2>3. after[e.transaction] = 1
    <3>1. after = [before EXCEPT ![e.transaction] = @ + 1]
      BY <1>0, <1>3, <1>4, <1>8, Zenon DEF PendingAfter
    <3> QED BY <1>2, <1>3, <2>2, <3>1
  <2>4. \A j \in 1 .. n : scoped[j].type # "host.authorization_result"
    <3> SUFFICES ASSUME NEW j \in 1 .. n, scoped[j].type = "host.authorization_result"
                 PROVE  FALSE
      OBVIOUS
    <3>1. PICK i \in 1 .. j - 1 : scoped[i].type = "host.authorization_requested"
      BY <1>6
    <3>2. i \in 1 .. n - 1
      OBVIOUS
    <3> QED BY <2>1, <3>1, <3>2
  <2>5. \A t \in Names : after[t] # 0 => t = e.transaction
    BY <1>7, <2>2
  <2> QED BY <1>0, <1>1, <1>7, <1>8, <2>3, <2>4, <2>5 DEF OpenSoFar
<1>9. CASE e.type = "host.authorization_result"
  <2>1. PICK i \in 1 .. n - 1 : /\ scoped[i].type = "host.authorization_requested"
                                /\ scoped[i].transaction = e.transaction
    BY <1>0, <1>1, <1>6, <1>9
  <2>2. \A t \in Names : before[t] # 0 => t = e.transaction /\ before[t] = 1
    BY <1>1, <1>2, <1>5, <2>1
  <2>3. after[e.transaction] = 0
    <3>1. CASE before[e.transaction] = 0
      <4>1. after = before
        BY <1>0, <1>9, <3>1 DEF PendingAfter
      <4> QED BY <3>1, <4>1
    <3>2. CASE before[e.transaction] # 0
      <4>1. "host.authorization_result" # "host.authorization_requested"
        OBVIOUS
      <4>2. after = [before EXCEPT ![e.transaction] = @ - 1]
        BY <1>0, <1>3, <1>4, <1>9, <3>2, <4>1, Zenon DEF PendingAfter
      <4>3. before[e.transaction] = 1
        BY <1>3, <2>2, <3>2
      <4> QED BY <1>2, <1>3, <4>2, <4>3
    <3> QED BY <3>1, <3>2
  <2>4. \A t \in Names : after[t] = 0
    BY <1>7, <2>2, <2>3
  <2> QED BY <1>0, <1>7, <2>4 DEF OpenSoFar
<1>10. CASE e.type \notin {"host.authorization_requested", "host.authorization_result"}
  <2>1. after = before
    BY <1>0, <1>10 DEF PendingAfter
  <2>2. \A j \in 1 .. n : scoped[j].type = "host.authorization_result" => j \in 1 .. n - 1
    BY <1>0, <1>1, <1>10
  <2> QED BY <1>0, <1>1, <1>2, <2>1, <2>2 DEF OpenSoFar
<1> QED BY <1>8, <1>9, <1>10

\* No request is open in a journal in which all are answered.
LEMMA NothingPending ==
    ASSUME NEW events \in Seq(Events), WellOrdered(events), AllAnswered(events)
    PROVE  PendingAuthorizationTransactions(events) = {}
<1>1. PICK scoped, states, N : /\ scoped = Tail(events) /\ states = ReplayStates(scoped)
                               /\ N = Len(scoped)
  OBVIOUS
<1>2. /\ scoped \in Seq(Events) /\ NamedRight(scoped) /\ AskedOnceRight(scoped)
      /\ N \in Nat /\ Len(events) = N + 1
      /\ \A i \in 1 .. N : scoped[i] = events[i + 1]
  <2>1. /\ scoped \in Seq(Events) /\ NamedRight(scoped)
        /\ Len(events) \in Nat \ {0} /\ Len(scoped) = Len(events) - 1
        /\ \A i \in 1 .. Len(scoped) : scoped[i] = events[i + 1]
    BY <1>1, ScopedEvents
  <2>2. AskedOnceRight(scoped)
    BY <1>1, ScopedAskedOnce
  <2> QED BY <1>1, <2>1, <2>2
<1>3. /\ states[0].pending = [t \in NamesIn(scoped) |-> 0]
      /\ \A n \in 1 .. N : states[n].pending = PendingAfter(states[n - 1].pending, scoped[n])
  <2>1. /\ states[0] = InitialState(scoped)
        /\ \A n \in 1 .. N : Reads(states[n - 1], scoped[n], states[n])
    BY <1>1, <1>2, ReplayRuns
  <2>2. InitialState(scoped).pending = [t \in NamesIn(scoped) |-> 0]
    BY ReplayStarts
  <2> QED BY <2>1, <2>2, Zenon DEF Reads
<1> DEFINE S == {n \in 0 .. N : OpenSoFar(scoped, states[n].pending, n)}
<1>4. 0 \in S
  <2>1. 0 \in 0 .. N
    BY <1>2
  <2> QED BY <1>3, <2>1 DEF OpenSoFar
<1>5. \A n \in 1 .. N : n - 1 \in S => n \in S
  <2> SUFFICES ASSUME NEW n \in 1 .. N, OpenSoFar(scoped, states[n - 1].pending, n - 1)
               PROVE  n \in 0 .. N /\ OpenSoFar(scoped, states[n].pending, n)
    OBVIOUS
  <2>1. n \in 0 .. N /\ n \in 1 .. Len(scoped)
    BY <1>1, <1>2
  <2>2. PICK before : before = states[n - 1].pending
    OBVIOUS
  <2>3. OpenSoFar(scoped, PendingAfter(before, scoped[n]), n)
    BY <1>2, <2>1, <2>2, OpenStays
  <2> QED BY <1>3, <2>1, <2>2, <2>3
<1>6. OpenSoFar(scoped, states[N].pending, N)
  <2>1. \A n \in 0 .. N : n \in S
    <3> HIDE DEF S
    <3> QED BY <1>2, <1>4, <1>5, AllPositions
  <2> QED BY <1>2, <2>1
<1>7. PICK pending : pending = Replay(events).pending
  OBVIOUS
<1>8. pending = states[N].pending
  BY <1>1, <1>7, Zenon DEF Replay, ReplayScoped
<1>9. /\ DOMAIN pending = NamesIn(scoped)
      /\ PendingAuthorizationTransactions(events)
            = {t \in DOMAIN pending : pending[t] > 0}
  BY <1>1, <1>7, PendingAgree
<1>10. ASSUME NEW t \in NamesIn(scoped), pending[t] # 0
       PROVE  FALSE
  <2>1. PICK i \in 1 .. N : /\ scoped[i].type = "host.authorization_requested"
                            /\ scoped[i].transaction = t
    BY <1>6, <1>8, <1>10 DEF OpenSoFar
  <2>2. events[i + 1] = scoped[i] /\ i + 1 \in DOMAIN events
    BY <1>2
  <2>3. events[i + 1] \in Entries(events)
    BY <2>2, Zenon DEF Entries
  <2>4. PICK y \in Entries(events) : y.type = "host.authorization_result"
    BY <2>1, <2>2, <2>3 DEF AllAnswered
  <2>5. PICK j \in 1 .. N + 1 : y = events[j]
    BY <1>2 DEF Entries
  <2>6. j # 1
    BY <2>4, <2>5 DEF WellOrdered, BeginsRight
  <2>7. j - 1 \in 1 .. N /\ (j - 1) + 1 = j
    BY <1>2, <2>6
  <2>8. scoped[j - 1] = y
    BY <1>2, <2>5, <2>7
  <2> QED BY <1>6, <1>8, <1>10, <2>4, <2>7, <2>8 DEF OpenSoFar
<1>11. \A t \in DOMAIN pending : pending[t] = 0
  BY <1>9, <1>10
<1> QED BY <1>9, <1>11

\* What the classifier makes of a journal whose last event alone is an outcome.
LEMMA OutcomeRecovery ==
    ASSUME NEW events \in Seq(Events), Decided(events),
           NEW e, e = events[Len(events)], e.type \in TerminalTypes,
           PendingAuthorizationTransactions(events) = {},
           NEW recovery, recovery = ClassifyRecovery(events)
    PROVE  /\ e.type \in {"transaction.completed", "transaction.cancelled"} =>
                 recovery = "none"
           /\ e.type = "transaction.reconciliation_required" =>
                 recovery = "manual_reconciliation"
           /\ e.type = "transaction.failed" =>
                 /\ e.code = "HOST_DECLINED" => recovery = "none"
                 /\ e.code # "HOST_DECLINED" /\ FailedAfterApproval(events) =>
                       recovery = "reverse_authorization"
                 /\ e.code # "HOST_DECLINED" /\ ~FailedAfterApproval(events) =>
                       recovery = IF e.code \in RecoveryCodes THEN "safe_retry"
                                                              ELSE "operator_review"
<1>1. PICK N \in Nat \ {0} : N = Len(events) /\ (N + 1) - 1 = N
  BY DEF Decided
<1>2. \A i \in 1 .. N : events[i].type \in Outcomes => i = N
  BY <1>1 DEF Decided, OnlyLast
<1>3. N \in 1 .. N /\ events[N] = e
  BY <1>1
<1>4. LastOf(events, {"transaction.reconciliation_required"}) # 0
         <=> e.type = "transaction.reconciliation_required"
  <2>1. PICK types : types = {"transaction.reconciliation_required"}
    OBVIOUS
  <2>2. /\ \/ LastOf(events, types) = 0
           \/ /\ LastOf(events, types) \in 1 .. N
              /\ events[LastOf(events, types)].type \in types
        /\ \A i \in 1 .. N : events[i].type \in types => i <= LastOf(events, types)
    BY <1>1, LastBeforeFinds DEF LastOf
  <2>3. \A type \in types : type \in Outcomes
    BY <2>1 DEF Outcomes, TerminalTypes
  <2>4. CASE e.type = "transaction.reconciliation_required"
    BY <1>1, <1>3, <2>1, <2>2, <2>4
  <2>5. CASE e.type # "transaction.reconciliation_required"
    BY <1>1, <1>2, <1>3, <2>1, <2>2, <2>3, <2>5
  <2> QED BY <2>1, <2>4, <2>5
<1>5. /\ JournalOutcome(events) = OutcomeOf(e.type)
      /\ TerminalFailureCode(events) =
            IF e.type \in {"transaction.failed", "transaction.reconciliation_required"}
            THEN e.code ELSE NoCode
  <2>1. e.type # "flow.failed"
    BY DEF TerminalTypes
  <2> QED BY <2>1, DecidedOutcome
<1>6. e.type = "transaction.failed" =>
         /\ JournalOutcome(events) \notin {"completed", "cancelled"}
         /\ TerminalFailureCode(events) = e.code
  BY <1>5 DEF OutcomeOf
<1>7. e.type \in {"transaction.completed", "transaction.cancelled"} =>
         /\ JournalOutcome(events) \in {"completed", "cancelled"}
         /\ e.type # "transaction.reconciliation_required"
  BY <1>5 DEF OutcomeOf
<1>8. e.type = "transaction.failed" => e.type # "transaction.reconciliation_required"
  OBVIOUS
<1> QED BY <1>4, <1>6, <1>7, <1>8, Zenon DEF ClassifyRecovery

\* The approval such a failure follows.
LEMMA ApprovalFound ==
    ASSUME NEW events \in Seq(Events), Decided(events),
           NEW e, e = events[Len(events)], e.type = "transaction.failed",
           e.transaction # NoTransaction,
           NEW a \in Entries(events), a.type = "host.authorization_result",
           a.code = "HOST_APPROVED", a.transaction = e.transaction
    PROVE  FailedAfterApproval(events)
<1>1. PICK N \in Nat \ {0} : N = Len(events)
  BY DEF Decided
<1>2. DecidingIndex(events) = N
  BY <1>1, DecidedByLast DEF Decided
<1>3. Failed(events, N)
  BY <1>1 DEF Failed
<1>4. {i \in 1 .. N - 1 : /\ events[i].type \in TerminalTypes
                          /\ events[i].transaction = e.transaction} = {}
  BY <1>1 DEF Decided, OnlyLast, Outcomes
<1>5. PICK i \in 1 .. N : a = events[i]
  BY <1>1 DEF Entries
<1>6. events[N] = e
  BY <1>1
<1> QED BY <1>2, <1>3, <1>4, <1>5, <1>6, Zenon DEF FailedAfterApproval

\* What is expected of a case that has such a journal.
LEMMA ExpectedPasses ==
    ASSUME NEW events \in Seq(Events), WellOrdered(events), Decided(events),
           NEW e, e = events[Len(events)], e.type \in TerminalTypes,
           PendingAuthorizationTransactions(events) = {},
           NEW expected,
           expected.status = OutcomeOf(e.type),
           expected.recovery = ClassifyRecovery(events),
           expected.failureCode \in {NoExpectation, TerminalFailureCode(events)}
    PROVE  CasePasses(expected, events, Summary(events, TRUE))
<1>1. PICK summary : summary = Summary(events, TRUE)
  OBVIOUS
<1>2. Len(events) \in Nat \ {0} /\ Len(events) \in 1 .. Len(events)
  BY DEF Decided
<1>3. e.type # "flow.failed" /\ e.type \in Outcomes
  BY DEF TerminalTypes, Outcomes
<1>4. HistorySummary(events) = summary
  <2>1. \A i \in 1 .. Len(events) : events[i].type # "flow.failed"
    BY <1>2, <1>3 DEF Decided, OnlyLast, Outcomes
  <2>2. ~Holds(events, "flow.failed")
    BY <2>1, HoldsFinds
  <2>3. (~Holds(events, "flow.failed")) = TRUE
    BY <2>2
  <2> QED BY <1>1, <2>3, Zenon DEF HistorySummary
<1>5. /\ summary.status = OutcomeOf(e.type)
      /\ summary.failureCode =
            IF e.type \in {"transaction.failed",
                           "transaction.reconciliation_required"} THEN e.code
            ELSE IF e.type = "flow.failed" THEN "FLOW_FAILED" ELSE NoCode
  BY <1>4, DecidedSummary
<1>6. /\ JournalOutcome(events) = OutcomeOf(e.type)
      /\ TerminalFailureCode(events) =
            IF e.type \in {"transaction.failed",
                           "transaction.reconciliation_required"}
            THEN e.code ELSE NoCode
  BY <1>3, DecidedOutcome
<1>7. TerminalFailureCode(events) = summary.failureCode
  BY <1>3, <1>5, <1>6
<1>8. ReplayValid(events)
  BY <1>2, OutcomeReplays
<1>9. FailedChecks(expected, events, summary) = {}
  <2>1. /\ expected.status = summary.status /\ expected.status = JournalOutcome(events)
        /\ JournalOutcome(events) = summary.status
        /\ TerminalFailureCode(events) = summary.failureCode
        /\ expected.recovery = ClassifyRecovery(events)
        /\ ~(/\ expected.failureCode # NoExpectation
             /\ expected.failureCode # TerminalFailureCode(events))
    BY <1>5, <1>6, <1>7
  <2> QED BY <1>8, <2>1, Zenon DEF FailedChecks
<1> QED BY <1>1, <1>9 DEF CasePasses

\* How a session ends that asked a device for cash, and no other.
CashEnd(k, e) ==
    /\ \A j \in CashMoves \ {k} : req[j] = "idle"
    /\ \/ /\ e.type = "transaction.completed"
          /\ req[k] = "ok" /\ accounts[account] # InitialBalance
       \/ /\ e.type = "transaction.reconciliation_required"
          /\ e.code = "ADAPTER_OUTCOME_UNKNOWN"
          /\ req[k] # "idle" /\ accounts[account] = InitialBalance
       \/ /\ e.type = "transaction.failed" /\ e.transaction = Name
          /\ e.code = req[k] /\ req[k] \in Refusals[k]
          /\ accounts[account] = InitialBalance
          /\ IF k = "dispense"
             THEN Event("host.authorization_result", Name, "HOST_APPROVED")
                     \in Entries(journal)
             ELSE req["authorize"] = "idle"

\* How a session ends that got no further than the host.
HostEnd(e) ==
    /\ \A k \in CashMoves : req[k] = "idle"
    /\ req["authorize"] # "idle"
    /\ e.type = "transaction.failed"
    /\ \/ e.code \in {"ADAPTER_TIMEOUT"} \cup LostCodes["authorize"]
       \/ e.code = req["authorize"] /\ e.code \in Refusals["authorize"]
    /\ \A x \in Entries(journal) : ~Approves(x)

EndFits(e) ==
    \/ e.type \in {"transaction.completed", "transaction.cancelled"} /\ Untouched
    \/ \E k \in CashMoves : CashEnd(k, e)
    \/ HostEnd(e)

\* The inductive invariant: the last event of a session that ran to its end fits
\* what its requests came to, and the host has answered.
Concluded ==
    /\ pc = "done" /\ transaction # UnknownTransaction =>
          EndFits(journal[Len(journal)])
    /\ pc \notin {"authorize", "failed"} => AllAnswered(journal)
    /\ pc \in Calls => req[pc] # "idle"

\* The last event of a journal that was written to.
LEMMA LastWritten ==
    ASSUME NEW s \in Seq(Events), NEW d, NEW e, NEW t,
           t = s \o <<e>> \/ t = s \o <<d, e>>
    PROVE  t[Len(t)] = e
<1> DEFINE S == Events \cup {d, e}
<1>1. s \in Seq(S) /\ <<e>> \in Seq(S) /\ <<d, e>> \in Seq(S)
  OBVIOUS
<1>2. CASE t = s \o <<e>>
  <2>1. Len(t) = Len(s) + 1 /\ t[Len(s) + 1] = e
    BY <1>1, <1>2
  <2> QED BY <2>1
<1>3. CASE t = s \o <<d, e>>
  <2>1. Len(t) = Len(s) + 2 /\ t[Len(s) + 2] = e
    BY <1>1, <1>3
  <2> QED BY <2>1
<1> QED BY <1>2, <1>3

\* What the customer ends, ends before anything was asked for.
LEMMA CustomerConcludes ==
    ASSUME TypeOK, Safe, Customer, pc' = "done", transaction' # UnknownTransaction
    PROVE  EndFits(journal[Len(journal)])'
<1> SUFFICES ASSUME TRUE
             PROVE  \E d, e : /\ journal' = journal \o <<e>> \/ journal' = journal \o <<d, e>>
                              /\ e.type \in {"transaction.completed",
                                             "transaction.cancelled"}
  <2>1. PICK d, e : /\ journal' = journal \o <<e>> \/ journal' = journal \o <<d, e>>
                    /\ e.type \in {"transaction.completed", "transaction.cancelled"}
    OBVIOUS
  <2>2. journal'[Len(journal')] = e
    BY <2>1, LastWritten DEF TypeOK
  <2>3. Untouched'
    <3>1. Untouched
      BY CustomerIsEarly DEF Safe, Phase, Before
    <3>2. req' = req
      BY CustomerAsks DEF Asks
    <3> QED BY <3>1, <3>2 DEF Untouched
  <2> QED BY <2>1, <2>2, <2>3 DEF EndFits
<1>1. ASSUME NEW goOn \in BOOLEAN, AnswerPrinterDown(goOn)
      PROVE  \E e : journal' = journal \o <<e>> /\ e.type = "transaction.cancelled"
  <2>1. PICK e : e = Event("transaction.cancelled", NoTransaction, NoCode)
    OBVIOUS
  <2>2. journal' = journal \o <<e>>
    BY <1>1, <2>1 DEF AnswerPrinterDown, AskTransaction, Log
  <2>3. e.type = "transaction.cancelled"
    BY <2>1, EventFields
  <2> QED BY <2>2, <2>3, Zenon
<1>2. ASSUME NEW t \in Transactions \cup {UnknownTransaction}, SelectTransaction(t)
      PROVE  \E d, e : journal' = journal \o <<d, e>> /\ e.type = "transaction.completed"
  <2>1. PICK d, e : /\ d = Event("transaction.selected", t, NoCode)
                    /\ e = ReportingEvent("transaction.completed", "TerminalAdmin",
                                          Report(Accounts, accounts, {cash}))
    OBVIOUS
  <2>2. journal' = journal \o Append(<<d>>, e)
    BY <1>2, <2>1 DEF SelectTransaction, ExecuteReport, Log
  <2>3. journal' = journal \o <<d, e>>
    BY <2>2
  <2>4. e.type = "transaction.completed"
    BY <2>1, ReportingEventFields
  <2> QED BY <2>3, <2>4, Zenon
<1>3. ASSUME CancelTransaction
      PROVE  \E e : journal' = journal \o <<e>> /\ e.type = "transaction.cancelled"
  <2>1. PICK e : e = Event("transaction.cancelled", transaction, NoCode)
    OBVIOUS
  <2>2. journal' = journal \o <<e>>
    BY <1>3, <2>1 DEF CancelTransaction, Log
  <2>3. e.type = "transaction.cancelled"
    BY <2>1, EventFields
  <2> QED BY <2>2, <2>3, Zenon
<1>4. ASSUME NEW display \in BOOLEAN, AnswerBalanceDisplay(display)
      PROVE  \E d, e : journal' = journal \o <<d, e>> /\ e.type = "transaction.completed"
  <2>1. PICK d, e : /\ d = Event("transaction.started", Name, NoCode)
                    /\ e = Completed(Name, accounts, Unreported)
    OBVIOUS
  <2>2. journal' = journal \o <<d, e>>
    BY <1>4, <2>1 DEF AnswerBalanceDisplay, BeginBalanceInquiry, FailFlow, Log
  <2>3. e.type = "transaction.completed"
    BY <2>1, ReportingEventFields DEF Completed
  <2> QED BY <2>2, <2>3, Zenon
<1>5. ASSUME NEW direction, NEW a, AnswerAdjustment(direction, a)
      PROVE  \E e : journal' = journal \o <<e>> /\ e.type = "transaction.completed"
  <2>1. PICK e : e = ReportingEvent("transaction.completed", "TerminalAdmin",
                                    Report({}, accounts, {cash'}))
    OBVIOUS
  <2>2. journal' = journal \o <<e>>
    BY <1>5, <2>1 DEF AnswerAdjustment, ExecuteAdjustment, FailFlow, Log
  <2>3. e.type = "transaction.completed"
    BY <2>1, ReportingEventFields
  <2> QED BY <2>2, <2>3, Zenon
<1>6. ~EnterPin /\ ~AnswerAccess /\ ~AnswerConfirm /\ ~RejectPrompt
      /\ (\A a : ~AnswerAccount(a) /\ ~AnswerAmount(a))
  BY DEF EnterPin, StartLoop, AskTransaction, AnswerAccess, AnswerConfirm, RejectPrompt,
         BeginWithdrawal, BeginDeposit, FailFlow, AnswerAccount, AnswerAmount, NextPrompt
<1>7. \/ \E e : journal' = journal \o <<e>> /\ e.type = "transaction.cancelled"
      \/ \E d, e : journal' = journal \o <<d, e>> /\ e.type = "transaction.completed"
      \/ \E e : journal' = journal \o <<e>> /\ e.type = "transaction.completed"
  BY <1>1, <1>2, <1>3, <1>4, <1>5, <1>6, Zenon DEF Customer
<1> QED BY <1>7

\* A refused movement of cash.
LEMMA RefusalConcludes ==
    ASSUME TypeOK, Safe, OwnAnswers, Concluded, NEW k \in CashMoves, pc = k,
           NEW code, Answered(k, FALSE, code), CashRefused(code)
    PROVE  EndFits(journal[Len(journal)])'
<1>1. PICK e : e = Event(IF code = "ADAPTER_OUTCOME_UNKNOWN"
                         THEN "transaction.reconciliation_required"
                         ELSE "transaction.failed", Name, code)
  OBVIOUS
<1>2. /\ e.type = IF code = "ADAPTER_OUTCOME_UNKNOWN"
                  THEN "transaction.reconciliation_required"
                  ELSE "transaction.failed"
      /\ e.transaction = Name /\ e.code = code
  BY <1>1, EventFields
<1>3. /\ journal' = journal \o <<e>>
      /\ accounts' = accounts /\ req' = req /\ account' = account
      /\ transaction' = transaction
  BY <1>1 DEF CashRefused, Log, flowVars
<1>4. journal'[Len(journal')] = e
  BY <1>3, LastWritten DEF TypeOK
<1>5. /\ \A j \in CashMoves \ {k} : req[j] = "idle"
      /\ accounts[account] = InitialBalance
      /\ k = "accept" => req["authorize"] = "idle"
  BY BookedOnce DEF Safe, Phase, CashMoves
<1>6. CASE code = "ADAPTER_OUTCOME_UNKNOWN"
  <2>1. req[k] # "idle"
    BY DEF Concluded, CashMoves, Calls
  <2> QED BY <1>2, <1>3, <1>4, <1>5, <1>6, <2>1 DEF EndFits, CashEnd
<1>7. CASE code # "ADAPTER_OUTCOME_UNKNOWN"
  <2>1. code = req[k] /\ code \notin {"idle", "open", "ok"}
    BY <1>7 DEF Answered, LostCodes, TimeoutCode, CashMoves
  <2>2. req[k] \in Refusals[k] /\ k \in Calls
    BY <2>1 DEF OwnAnswers, CashMoves, Calls
  <2>3. k = "dispense" => Event("host.authorization_result", Name, "HOST_APPROVED")
                             \in Entries(journal)
    BY <2>1 DEF Safe, DispenseAuthorized
  <2>4. Entries(journal) \subseteq Entries(journal')
    <3>1. \A i \in 1 .. Len(journal) : i \in DOMAIN journal' /\ journal'[i] = journal[i]
      <4> DEFINE S == Events \cup {e}
      <4>1. journal \in Seq(S) /\ <<e>> \in Seq(S)
        BY DEF TypeOK
      <4>2. Len(journal') = Len(journal) + 1 /\ journal' \in Seq(S)
        BY <1>3, <4>1
      <4> HIDE DEF S
      <4> QED BY <1>3, <4>1, <4>2
    <3>2. DOMAIN journal = 1 .. Len(journal)
      BY DEF TypeOK
    <3> QED BY <3>1, <3>2 DEF Entries
  <2>5. Name' = Name
    BY <1>3 DEF Name
  <2> QED BY <1>2, <1>3, <1>4, <1>5, <1>7, <2>1, <2>2, <2>3, <2>4, <2>5
          DEF EndFits, CashEnd, CashMoves
<1> QED BY <1>6, <1>7

\* A withdrawal the host did not approve, or did not answer in time.
LEMMA RefusedByHostConcludes ==
    ASSUME TypeOK, Safe, OwnAnswers, Ordered, Concluded, pc = "authorize",
           NEW code \in EventCodes, Answered("authorize", FALSE, code),
           AuthorizeSettled(FALSE, code)
    PROVE  EndFits(journal[Len(journal)])'
<1>1. PICK d, e : /\ d = Event("host.authorization_result", Name, code)
                  /\ e = Event("transaction.failed", Name, code)
  OBVIOUS
<1>2. /\ d.type = "host.authorization_result" /\ d.code = code
      /\ e.type = "transaction.failed" /\ e.code = code
  BY <1>1, EventFields
<1>3. journal' = journal \o <<d, e>> /\ req' = req
  BY <1>1 DEF AuthorizeSettled, Log
<1>4. journal'[Len(journal')] = e
  BY <1>3, LastWritten DEF TypeOK
<1>5. Entries(journal') = Entries(journal) \cup {d, e}
  <2>1. code \in SettledCodes
    BY DEF SettledCodes
  <2> QED BY <1>1, <2>1, AuthorizeStep
<1>6. /\ req["dispense"] = "idle" /\ req["accept"] = "idle"
      /\ req["authorize"] # "idle"
  BY DEF Safe, Phase, Concluded, Calls
<1>7. /\ code # "HOST_APPROVED"
      /\ \/ code \in {"ADAPTER_TIMEOUT"} \cup LostCodes["authorize"]
         \/ code = req["authorize"] /\ code \in Refusals["authorize"]
  <2>1. CASE code = req["authorize"] /\ code \notin {"idle", "open", "ok"}
    <3>1. code \in Refusals["authorize"]
      BY <2>1 DEF OwnAnswers, Calls
    <3> QED BY <2>1, <3>1 DEF Refusals
  <2>2. CASE code \in LostCodes["authorize"] \cup {TimeoutCode("authorize")}
    BY <2>2 DEF LostCodes, TimeoutCode, CashMoves
  <2> QED BY <2>1, <2>2 DEF Answered
<1>8. \A x \in Entries(journal') : ~Approves(x)
  BY <1>2, <1>5, <1>7 DEF Approves, Ordered
<1> QED BY <1>2, <1>3, <1>4, <1>6, <1>7, <1>8 DEF EndFits, HostEnd, CashMoves, Approves

\* A booked deposit.
LEMMA DepositConcludes ==
    ASSUME TypeOK, Safe, pc = "accept", req["accept"] = "ok",
           accounts' = [accounts EXCEPT ![account] = @ + amount],
           Log(<<Completed(Name, accounts', {cash})>>), UNCHANGED <<flowVars, req>>
    PROVE  EndFits(journal[Len(journal)])'
<1>1. PICK e : e = Completed(Name, accounts', {cash})
  OBVIOUS
<1>2. e.type = "transaction.completed"
  BY <1>1, ReportingEventFields DEF Completed
<1>3. journal' = journal \o <<e>> /\ req' = req /\ account' = account
  BY <1>1 DEF Log, flowVars
<1>4. journal'[Len(journal')] = e
  BY <1>3, LastWritten DEF TypeOK
<1>5. AccountsUntouched /\ req["dispense"] = "idle"
  BY DEF Safe, Phase
<1>6. accounts'[account] = InitialBalance + amount
  BY <1>5, BookedOnce
<1>7. accounts'[account] # InitialBalance
  BY <1>6, SessionAssumption DEF TypeOK
<1> QED BY <1>2, <1>3, <1>4, <1>5, <1>7 DEF EndFits, CashEnd, CashMoves

\* The receipt, or the lack of one.
LEMMA ReceiptConcludes ==
    ASSUME TypeOK, Safe, pc = "print", NEW ok \in BOOLEAN, NEW code,
           PrintSettled(ok, code)
    PROVE  EndFits(journal[Len(journal)])'
<1>1. PICK d, e, money :
         /\ d = Event("device.status_changed", Name, code)
         /\ money = IF transaction \in Withdrawals THEN {cash} ELSE Unreported
         /\ e = Completed(Name, accounts, money)
  OBVIOUS
<1>2. e.type = "transaction.completed"
  BY <1>1, ReportingEventFields DEF Completed
<1>3. journal' = journal \o <<e>> \/ journal' = journal \o <<d, e>>
  <2>1. journal' = journal \o Append(IF ok THEN <<>> ELSE <<d>>, e)
    BY <1>1 DEF PrintSettled, Log
  <2> QED BY <2>1
<1>4. journal'[Len(journal')] = e
  BY <1>3, LastWritten DEF TypeOK
<1>5. req' = req /\ accounts' = accounts /\ account' = account
  BY DEF PrintSettled, flowVars
<1>6. CASE Untouched
  BY <1>2, <1>4, <1>5, <1>6 DEF EndFits, Untouched
<1>7. CASE /\ req["dispense"] = "ok" /\ req["accept"] = "idle"
           /\ accounts = [a \in Accounts |->
                             IF a = account THEN InitialBalance - amount
                                            ELSE InitialBalance]
  <2>1. accounts[account] = InitialBalance - amount
    BY <1>7 DEF TypeOK
  <2>2. accounts[account] # InitialBalance
    BY <2>1, SessionAssumption DEF TypeOK
  <2> QED BY <1>2, <1>4, <1>5, <1>7, <2>2 DEF EndFits, CashEnd, CashMoves
<1> QED BY <1>6, <1>7 DEF Safe, Phase

LEMMA CallConcludes ==
    ASSUME TypeOK, Safe, OwnAnswers, Ordered, Concluded, NEW k \in Calls, Call(k),
           pc' = "done"
    PROVE  EndFits(journal[Len(journal)])'
<1>1. CASE k \in {"getStatus", "readCard"}
  <2>1. pc = k /\ Asks
    BY CallSettles, CallAsks
  <2>2. ASSUME NEW ok, NEW code, Settled(k, ok, code)
        PROVE  FALSE
    BY <1>1, <2>2 DEF Settled, StatusSettled, CardSettled, StartLoop, AskTransaction, FailFlow
  <2>3. ~Throws(k)
    BY <1>1 DEF Throws, StatusSettled, StartLoop, AskTransaction, FailFlow
  <2> QED BY <2>2, <2>3, CallSettles, Zenon
<1>2. CASE k \in {"authorize", "dispense", "accept", "print"} /\ Throws(k)
  <2>1. k = "print" /\ PrintSettled(FALSE, "RECEIPT_ERROR")
    BY <1>2 DEF Throws, FailFlow
  <2> QED BY <2>1, ReceiptConcludes, CallSettles
<1>3. ASSUME k \in {"authorize", "dispense", "accept", "print"}, pc = k,
             NEW ok \in BOOLEAN, NEW code \in SettledCodes,
             Settled(k, ok, code), Answered(k, ok, code)
      PROVE  EndFits(journal[Len(journal)])'
  <2>1. CASE k = "authorize" /\ AuthorizeSettled(ok, code)
    <3>1. ok = FALSE
      BY <2>1 DEF AuthorizeSettled
    <3>2. code \in EventCodes /\ Answered("authorize", FALSE, code)
          /\ AuthorizeSettled(FALSE, code) /\ pc = "authorize"
      BY <1>3, <2>1, <3>1 DEF Answered
    <3> QED BY <3>2, RefusedByHostConcludes
  <2>2. CASE k = "dispense" /\ DispenseSettled(ok, code)
    <3>1. ok = FALSE /\ CashRefused(code)
      BY <2>2 DEF DispenseSettled, FailFlow
    <3>2. k \in CashMoves /\ Answered(k, FALSE, code)
      BY <1>3, <2>2, <3>1 DEF CashMoves
    <3> QED BY <1>3, <3>1, <3>2, RefusalConcludes
  <2>3. CASE k = "accept" /\ AcceptSettled(ok, code)
    <3>1. CASE ~ok /\ CashRefused(code)
      <4>1. k \in CashMoves /\ ok = FALSE
        BY <2>3, <3>1 DEF CashMoves
      <4>2. Answered(k, FALSE, code)
        BY <1>3, <4>1
      <4> QED BY <1>3, <3>1, <4>1, <4>2, RefusalConcludes
    <3>2. CASE /\ ok
               /\ accounts' = [accounts EXCEPT ![account] = @ + amount]
               /\ Log(<<Completed(Name, accounts', {cash})>>)
               /\ pc' = "done"
               /\ UNCHANGED <<flowVars, cashVars, req>>
      <4>1. req["accept"] = "ok" /\ pc = "accept"
        BY <1>3, <2>3, <3>2 DEF Answered
      <4> QED BY <3>2, <4>1, DepositConcludes
    <3> QED BY <2>3, <3>1, <3>2, Zenon DEF AcceptSettled
  <2>4. CASE k = "print" /\ PrintSettled(ok, code)
    BY <1>3, <2>4, ReceiptConcludes
  <2> QED BY <1>3, <2>1, <2>2, <2>3, <2>4, Zenon DEF Settled
<1>4. \/ Throws(k)
      \/ \E ok \in BOOLEAN, code \in SettledCodes :
            Settled(k, ok, code) /\ Answered(k, ok, code)
  BY CallSettles, Zenon DEF Answered
<1> QED BY <1>1, <1>2, <1>3, <1>4, CallSettles DEF Calls

\* A service that decides late does not change what the session has concluded.
LEMMA ServiceConcludes ==
    ASSUME TypeOK, NEW k \in Calls, NEW result \in {"ok"} \cup Refusals[k],
           req[k] = "open", req' = [req EXCEPT ![k] = result], pc' = pc,
           UNCHANGED <<flowVars, journal, accounts>>, NEW e, EndFits(e)
    PROVE  EndFits(e)'
<1>1. /\ \A j \in Calls : req[j] # "open" => req'[j] = req[j]
      /\ \A j \in Calls : req'[j] = "idle" <=> req[j] = "idle"
  BY RefusalsDecide DEF TypeOK
<1>2. {"authorize", "dispense", "accept"} \subseteq Calls /\ CashMoves \subseteq Calls
  BY DEF Calls, CashMoves
<1>3. \A j \in Calls : req[j] \in Refusals[j] => req[j] # "open"
  BY RefusalsDecide
<1>4. Untouched => Untouched'
  BY <1>1, <1>2 DEF Untouched
<1>5. account' = account /\ Name' = Name
  BY DEF flowVars, Name
<1>6. \A j \in CashMoves : CashEnd(j, e) => CashEnd(j, e)'
  BY <1>1, <1>2, <1>3, <1>5 DEF CashEnd
<1>7. HostEnd(e) => HostEnd(e)'
  BY <1>1, <1>2, <1>3 DEF HostEnd, Approves
<1> QED BY <1>4, <1>6, <1>7 DEF EndFits

\* The events of a journal that was written to.
LEMMA EntriesGrow ==
    ASSUME NEW s \in Seq(Events), NEW t \in Seq(Events), NEW d, NEW e,
           t = s \o <<d>> \/ t = s \o <<d, e>>
    PROVE  Entries(s) \subseteq Entries(t) /\ Entries(t) \subseteq Entries(s) \cup {d, e}
<1>1. CASE t = s \o <<d>>
  <2>1. d \in Events
    <3>1. Len(t) = Len(s) + 1 /\ t[Len(s) + 1] = d
      BY <1>1
    <3> QED BY <3>1
  <2>2. <<d>> \in Seq(Events) /\ Entries(<<d>>) = {d}
    BY <2>1, EntriesOfShort
  <2>3. Entries(s \o <<d>>) = Entries(s) \cup Entries(<<d>>)
    BY <2>2, EntriesOfConcat
  <2>4. Entries(t) = Entries(s) \cup {d}
    BY <1>1, <2>2, <2>3, Zenon
  <2> QED BY <2>4
<1>2. CASE t = s \o <<d, e>>
  <2>1. d \in Events /\ e \in Events
    <3>1. Len(t) = Len(s) + 2 /\ t[Len(s) + 1] = d /\ t[Len(s) + 2] = e
      BY <1>2
    <3> QED BY <3>1
  <2>2. <<d, e>> \in Seq(Events) /\ Entries(<<d, e>>) = {d, e}
    BY <2>1, EntriesOfShort
  <2>3. Entries(s \o <<d, e>>) = Entries(s) \cup Entries(<<d, e>>)
    BY <2>2, EntriesOfConcat
  <2>4. Entries(t) = Entries(s) \cup {d, e}
    BY <1>2, <2>2, <2>3, Zenon
  <2> QED BY <2>4
<1> QED BY <1>1, <1>2

\* The host answers the request the session waits for.
LEMMA HostAnswers ==
    ASSUME TypeOK, Ordered, pc = "authorize", NEW ok \in BOOLEAN,
           NEW code \in SettledCodes, ~ok => code \in EventCodes,
           AuthorizeSettled(ok, code)
    PROVE  AllAnswered(journal')
<1>1. PICK y, f : /\ \/ y = Event("host.authorization_result", Name, "HOST_APPROVED")
                     \/ y = Event("host.authorization_result", Name, code)
                  /\ f.type = "transaction.failed"
                  /\ \/ Entries(journal') = Entries(journal) \cup {y}
                     \/ Entries(journal') = Entries(journal) \cup {y, f}
  <2>1. PICK a, d, f : /\ a = Event("host.authorization_result", Name, "HOST_APPROVED")
                       /\ d = Event("host.authorization_result", Name, code)
                       /\ f = Event("transaction.failed", Name, code)
    OBVIOUS
  <2>2. f.type = "transaction.failed"
    BY <2>1, EventFields
  <2>3. \/ Entries(journal') = Entries(journal) \cup {a}
        \/ Entries(journal') = Entries(journal) \cup {d, f}
    BY <2>1, AuthorizeStep
  <2> QED BY <2>1, <2>2, <2>3, Zenon
<1>2. y.type = "host.authorization_result" /\ y.transaction = Name
  BY <1>1, EventFields
<1>3. PICK e \in Entries(journal) : /\ e.type = "host.authorization_requested"
                                    /\ e.transaction = Name
  BY DEF Ordered
<1>4. ASSUME NEW x \in Entries(journal'), x.type = "host.authorization_requested"
      PROVE  x.transaction = y.transaction
  <2>1. x \in Entries(journal)
    BY <1>1, <1>2, <1>4
  <2>2. PICK i \in 1 .. Len(journal) : x = journal[i]
    BY <2>1 DEF Entries, TypeOK
  <2>3. PICK j \in 1 .. Len(journal) : e = journal[j]
    BY DEF Entries, TypeOK
  <2>4. i = j
    BY <1>3, <1>4, <2>2, <2>3 DEF Ordered, WellOrdered, AskedOnceRight, OnceTypes
  <2> QED BY <1>2, <1>3, <2>2, <2>3, <2>4
<1> QED BY <1>1, <1>2, <1>4 DEF AllAnswered

LEMMA AnsweredStep ==
    ASSUME TypeOK, Safe, Ordered, Concluded, [Next]_vars,
           pc' \notin {"authorize", "failed"}
    PROVE  AllAnswered(journal')
<1>1. journal \in Seq(Events) /\ journal' \in Seq(Events)
  BY TypeStep DEF TypeOK
<1>2. CASE pc \notin {"authorize", "failed"}
  <2>1. AllAnswered(journal)
    BY <1>2 DEF Concluded
  <2>2. PICK d, e : \/ journal' = journal
                    \/ journal' = journal \o <<d>> /\ Opening(d)
                    \/ journal' = journal \o <<d, e>> /\ Opening(d) /\ Following(d, e)
    BY NextWrites, Zenon DEF Writes
  <2>3. CASE journal' = journal
    BY <2>1, <2>3
  <2>4. CASE journal' = journal \o <<d>> /\ Opening(d)
    <3>1. Entries(journal) \subseteq Entries(journal')
          /\ \A x \in Entries(journal') : x \in Entries(journal) \/ x = d
      <4>1. journal' = journal \o <<d>> \/ journal' = journal \o <<d, d>>
        BY <2>4
      <4>2. /\ Entries(journal) \subseteq Entries(journal')
            /\ Entries(journal') \subseteq Entries(journal) \cup {d, d}
        BY <1>1, <4>1, EntriesGrow
      <4> QED BY <4>2
    <3>2. d.type # "host.authorization_requested"
      BY <2>4 DEF Opening
    <3> QED BY <2>1, <3>1, <3>2 DEF AllAnswered
  <2>5. CASE journal' = journal \o <<d, e>> /\ Opening(d) /\ Following(d, e)
    <3>1. /\ Entries(journal) \subseteq Entries(journal')
          /\ Entries(journal') \subseteq Entries(journal) \cup {d, e}
      BY <1>1, <2>5, EntriesGrow
    <3>2. d.type # "host.authorization_requested" /\ e.type # "host.authorization_requested"
      BY <2>5 DEF Opening, Following, OnceTypes
    <3> QED BY <2>1, <3>1, <3>2 DEF AllAnswered
  <2> QED BY <2>2, <2>3, <2>4, <2>5
<1>3. CASE pc = "failed"
  BY <1>3, EndedIsSilent DEF Ended
<1>4. CASE pc = "authorize"
  <2>1. ~Customer /\ ~LoadFails /\ \A type : ~Load(type)
    BY <1>4, CustomerIsEarly DEF Before, PromptStates, LoadFails, Load
  <2>2. pc' # pc
    BY <1>4
  <2>3. ~(Simulates \/ \E k \in Calls : Service(k)) /\ ~(UNCHANGED vars)
    BY <2>2, ServiceDecides DEF Outcome, vars
  <2>4. PICK k \in Calls : Call(k)
    BY <2>1, <2>3, Zenon DEF Next
  <2>5. k = "authorize"
    BY <1>4, <2>4, CallSettles
  <2>6. ~Throws(k)
    BY <2>5 DEF Throws, FailFlow
  <2>7. PICK ok \in BOOLEAN, code \in SettledCodes :
           Settled(k, ok, code) /\ (~ok => code \in EventCodes)
    BY <2>4, <2>6, CallSettles, Zenon
  <2>8. AuthorizeSettled(ok, code)
    BY <2>5, <2>7 DEF Settled
  <2> QED BY <1>4, <2>7, <2>8, HostAnswers
<1> QED BY <1>2, <1>3, <1>4

LEMMA ConcludedStep ==
    ASSUME TypeOK, Safe, OwnAnswers, Ordered, Concluded, [Next]_vars
    PROVE  Concluded'
<1>1. pc' \notin {"authorize", "failed"} => AllAnswered(journal')
  BY AnsweredStep
<1>2. ASSUME pc' \in Calls
      PROVE  req'[pc'] # "idle"
  <2>1. CASE UNCHANGED <<pc, req>>
    BY <1>2, <2>1 DEF Concluded
  <2>2. ASSUME pc' = pc, NEW k \in Calls, NEW result \in {"ok"} \cup Refusals[k],
               req[k] = "open", req' = [req EXCEPT ![k] = result]
        PROVE  req'[pc'] # "idle"
    <3>1. \A j \in Calls : req'[j] = "idle" <=> req[j] = "idle"
      BY <2>2, RefusalsDecide DEF TypeOK
    <3> QED BY <1>2, <2>2, <3>1 DEF Concluded
  <2>3. CASE Asks
    <3>1. req' = Opened(pc')
      BY <1>2, <2>3 DEF Asks, Calls, PromptStates
    <3> QED BY <1>2, <3>1 DEF Opened, TypeOK
  <2> QED BY <2>1, <2>2, <2>3, NextAsks
<1>3. ASSUME pc' = "done", transaction' # UnknownTransaction
      PROVE  EndFits(journal[Len(journal)])'
  <2>1. CASE Customer
    BY <1>3, <2>1, CustomerConcludes
  <2>2. ASSUME NEW k \in Calls, Call(k)
        PROVE  EndFits(journal[Len(journal)])'
    BY <1>3, <2>2, CallConcludes
  <2>3. CASE Simulates \/ \E k \in Calls : Service(k)
    <3>1. PICK k \in Calls : \E result \in {"ok"} \cup Refusals[k] : Outcome(k, result)
      BY <2>3, ServiceAnswers, Zenon
    <3>2. PICK result \in {"ok"} \cup Refusals[k] : Outcome(k, result)
      BY <3>1
    <3>3. PICK e : e = journal[Len(journal)]
      OBVIOUS
    <3>4. /\ req[k] = "open" /\ req' = [req EXCEPT ![k] = result] /\ pc' = pc
          /\ UNCHANGED <<flowVars, journal, accounts>>
      BY <3>2 DEF Outcome
    <3>5. transaction' = transaction
      BY <3>4 DEF flowVars
    <3>6. EndFits(e)
      BY <1>3, <3>3, <3>4, <3>5 DEF Concluded
    <3>7. EndFits(e)'
      BY <3>4, <3>6, ServiceConcludes
    <3> QED BY <3>3, <3>4, <3>7
  <2>4. CASE UNCHANGED vars
    <3>1. EndFits(journal[Len(journal)])
      BY <1>3, <2>4 DEF vars, flowVars, Concluded
    <3> QED BY <2>4, <3>1 DEF vars, flowVars, EndFits, Untouched, CashEnd, HostEnd, Name
  <2>5. ~LoadFails /\ \A type : ~Load(type)
    BY <1>3 DEF LoadFails, FailFlow, Load
  <2> QED BY <2>1, <2>2, <2>3, <2>4, <2>5, Zenon DEF Next
<1> QED BY <1>1, <1>2, <1>3 DEF Concluded

LEMMA SpecConcluded == Spec => []Concluded
<1>1. Init => Concluded
  <2> SUFFICES ASSUME Init PROVE Concluded
    OBVIOUS
  <2>1. PICK e : e = Event("runtime.started", NoTransaction, NoCode)
    OBVIOUS
  <2>2. e.type = "runtime.started"
    BY <2>1, EventFields
  <2>3. pc = "load" /\ Entries(journal) = {e}
    BY <2>1 DEF Init, Entries
  <2> QED BY <2>2, <2>3 DEF Concluded, AllAnswered, Calls
<1> QED BY <1>1, ConcludedStep, SpecTypeOK, SpecSafe, SpecOwnAnswers, SpecOrdered, PTL
        DEF Spec

\* The journal of a session that ran to its end.
LEMMA EndedJournal ==
    ASSUME TypeOK, Ordered, Concluded, pc = "done", NEW e, e = journal[Len(journal)],
           EndFits(e)
    PROVE  /\ journal \in Seq(Events) /\ WellOrdered(journal) /\ Decided(journal)
           /\ e \in Entries(journal) /\ e.type \in TerminalTypes
           /\ e.type = "transaction.failed" => e.transaction # NoTransaction
           /\ e.type # "transaction.failed" =>
                 \A x \in Entries(journal) : x.type # "transaction.failed"
           /\ PendingAuthorizationTransactions(journal) = {}
<1>1. journal \in Seq(Events) /\ WellOrdered(journal)
  BY DEF TypeOK, Ordered
<1>2. PICK N \in Nat \ {0} : N = Len(journal) /\ N \in 1 .. N
  BY <1>1 DEF WellOrdered, BeginsRight
<1>3. e.type \in TerminalTypes
  BY DEF EndFits, CashEnd, HostEnd, TerminalTypes
<1>4. e.type # "flow.failed" /\ e.type \in Outcomes /\ e.type # "runtime.started"
  BY <1>3 DEF TerminalTypes, Outcomes
<1>5. OnlyLast(journal)
  BY <1>1, <1>4 DEF WellOrdered, EndsRight, OnlyLast
<1>6. N # 1
  BY <1>1, <1>2, <1>4 DEF WellOrdered, BeginsRight
<1>7. Decided(journal)
  BY <1>2, <1>4, <1>5, <1>6 DEF Decided
<1>8. e \in Entries(journal)
  <2>1. N \in DOMAIN journal
    BY <1>1, <1>2
  <2> QED BY <1>2, <2>1, Zenon DEF Entries
<1>9. e.type = "transaction.failed" => e.transaction # NoTransaction
  BY <1>1, <1>2 DEF WellOrdered, NamedRight, NamingTypes, TerminalTypes
<1>10. ASSUME e.type # "transaction.failed", NEW x \in Entries(journal)
       PROVE  x.type # "transaction.failed"
  <2>1. PICK i \in 1 .. N : x = journal[i]
    BY <1>1, <1>2 DEF Entries
  <2>2. "transaction.failed" \in Outcomes
    BY DEF Outcomes, TerminalTypes
  <2> QED BY <1>2, <1>5, <1>10, <2>1, <2>2 DEF OnlyLast
<1>11. PendingAuthorizationTransactions(journal) = {}
  BY <1>1, NothingPending DEF Concluded
<1> QED BY <1>1, <1>3, <1>7, <1>8, <1>9, <1>10, <1>11

\* A session that asked no device for cash deserves to be told of no movement.
LEMMA DeservedWithoutCash ==
    ASSUME \A k \in CashMoves : req[k] = "idle"
    PROVE  /\ Untouched => Deserved =
                 {[status |-> "completed", failureCode |-> NoExpectation,
                   recovery |-> "none"],
                  [status |-> "cancelled", failureCode |-> NoExpectation,
                   recovery |-> "none"]}
           /\ ~Untouched => Deserved =
                 {[status |-> "failed", failureCode |-> code,
                   recovery |-> IF code = "HOST_DECLINED" THEN "none"
                                ELSE IF code \in RecoveryCodes THEN "safe_retry"
                                ELSE "operator_review"] :
                    code \in {req["authorize"], "ADAPTER_TIMEOUT"}
                               \cup LostCodes["authorize"]}
<1>1. \A k \in CashMoves : ToldOf(k) = "none"
  <2> SUFFICES ASSUME NEW k \in CashMoves PROVE ToldOf(k) = "none"
    OBVIOUS
  <2>1. req[k] = "idle"
    OBVIOUS
  <2> QED BY <2>1 DEF ToldOf
<1>2. /\ ~ \E k \in CashMoves : ToldOf(k) = "unknown"
      /\ ~ \E k \in CashMoves : ToldOf(k) = "moved"
      /\ ToldOf("dispense") # "refused" /\ ToldOf("accept") # "refused"
  BY <1>1 DEF CashMoves
<1>3. CASE Untouched
  BY <1>2, <1>3, Zenon DEF Deserved
<1>4. CASE ~Untouched
  <2>1. Deserved =
           {IF code = "HOST_DECLINED"
            THEN [status |-> "failed", failureCode |-> code, recovery |-> "none"]
            ELSE [status |-> "failed", failureCode |-> code,
                  recovery |-> IF code \in RecoveryCodes THEN "safe_retry"
                                                         ELSE "operator_review"] :
              code \in {req["authorize"], "ADAPTER_TIMEOUT"} \cup LostCodes["authorize"]}
    BY <1>2, <1>4, Zenon DEF Deserved
  <2> QED BY <1>4, <2>1
<1> QED BY <1>3, <1>4

\* One that asked one device for cash deserves what it was told of it.
LEMMA DeservedWithCash ==
    ASSUME pc = "done", NEW k \in CashMoves, req[k] # "idle",
           \A j \in CashMoves \ {k} : req[j] = "idle"
    PROVE  /\ accounts[account] # InitialBalance => Deserved =
                 {[status |-> "completed", failureCode |-> NoExpectation,
                   recovery |-> "none"]}
           /\ accounts[account] = InitialBalance
              /\ ~Journaled("transaction.failed", Name) => Deserved =
                 {[status |-> "failed", failureCode |-> "ADAPTER_OUTCOME_UNKNOWN",
                   recovery |-> "manual_reconciliation"]}
           /\ accounts[account] = InitialBalance
              /\ Journaled("transaction.failed", Name) => Deserved =
                 {[status |-> "failed", failureCode |-> req[k],
                   recovery |-> IF k = "dispense" THEN "reverse_authorization"
                                ELSE IF req[k] \in RecoveryCodes THEN "safe_retry"
                                ELSE "operator_review"]}
<1>1. pc # k /\ ~Untouched /\ k \in {"dispense", "accept"}
  BY DEF CashMoves, Untouched
<1>2. \A j \in CashMoves \ {k} : ToldOf(j) = "none"
  <2> SUFFICES ASSUME NEW j \in CashMoves \ {k} PROVE ToldOf(j) = "none"
    OBVIOUS
  <2>1. req[j] = "idle"
    OBVIOUS
  <2> QED BY <2>1 DEF ToldOf
<1>3. CASE accounts[account] # InitialBalance
  <2>1. ToldOf(k) = "moved"
    BY <1>1, <1>3 DEF ToldOf
  <2>2. /\ ~ \E j \in CashMoves : ToldOf(j) = "unknown"
        /\ \E j \in CashMoves : ToldOf(j) = "moved"
        /\ ToldOf("dispense") # "refused" /\ ToldOf("accept") # "refused"
    BY <1>2, <2>1 DEF CashMoves
  <2>3. Deserved = {[status |-> "completed", failureCode |-> NoExpectation,
                     recovery |-> "none"]}
    BY <1>1, <2>2, Zenon DEF Deserved
  <2> QED BY <1>3, <2>3
<1>4. CASE /\ accounts[account] = InitialBalance
           /\ ~Journaled("transaction.failed", Name)
  <2>1. ToldOf(k) = "unknown"
    BY <1>1, <1>4 DEF ToldOf
  <2>2. /\ \E j \in CashMoves : ToldOf(j) = "unknown"
        /\ ~ \E j \in CashMoves : ToldOf(j) = "moved"
        /\ ToldOf("dispense") # "refused" /\ ToldOf("accept") # "refused"
    BY <1>2, <2>1 DEF CashMoves
  <2>3. Deserved = {[status |-> "failed", failureCode |-> "ADAPTER_OUTCOME_UNKNOWN",
                     recovery |-> "manual_reconciliation"]}
    BY <1>1, <2>2, Zenon DEF Deserved
  <2> QED BY <1>4, <2>3
<1>5. CASE /\ accounts[account] = InitialBalance
           /\ Journaled("transaction.failed", Name)
  <2>1. ToldOf(k) = "refused"
    BY <1>1, <1>5 DEF ToldOf
  <2>2. /\ ~ \E j \in CashMoves : ToldOf(j) = "unknown"
        /\ ~ \E j \in CashMoves : ToldOf(j) = "moved"
        /\ ToldOf("dispense") = "refused" <=> k = "dispense"
        /\ ToldOf("accept") = "refused" <=> k = "accept"
    BY <1>1, <1>2, <2>1 DEF CashMoves
  <2>3. CASE k = "dispense"
    <3>1. ToldOf("dispense") = "refused" /\ ToldOf("accept") # "refused"
      BY <2>2, <2>3
    <3>2. Deserved = {[status |-> "failed", failureCode |-> req["dispense"],
                       recovery |-> "reverse_authorization"]}
      BY <1>1, <2>2, <3>1, Zenon DEF Deserved
    <3> QED BY <1>5, <2>3, <3>2
  <2>4. CASE k = "accept"
    <3>1. ToldOf("accept") = "refused" /\ ToldOf("dispense") # "refused"
      BY <2>2, <2>4
    <3>2. Deserved = {[status |-> "failed", failureCode |-> req["accept"],
                       recovery |-> IF req["accept"] \in RecoveryCodes
                                    THEN "safe_retry" ELSE "operator_review"]}
      BY <1>1, <2>2, <3>1, Zenon DEF Deserved
    <3> QED BY <1>5, <2>4, <3>2
  <2> QED BY <1>1, <2>3, <2>4
<1> QED BY <1>3, <1>4, <1>5

\* What a session ended with, judged by its requests, is what its readers say.
LEMMA CashEndCertifies ==
    ASSUME TypeOK, Trail, Ordered, Concluded, pc = "done",
           NEW e, e = journal[Len(journal)], NEW k \in CashMoves, CashEnd(k, e)
    PROVE  \E expected \in Deserved :
              CasePasses(expected, journal, Summary(journal, TRUE))
<1>1. /\ journal \in Seq(Events) /\ WellOrdered(journal) /\ Decided(journal)
      /\ e \in Entries(journal) /\ e.type \in TerminalTypes
      /\ e.type = "transaction.failed" => e.transaction # NoTransaction
      /\ e.type # "transaction.failed" =>
            \A x \in Entries(journal) : x.type # "transaction.failed"
      /\ PendingAuthorizationTransactions(journal) = {}
  <2>1. EndFits(e)
    BY DEF EndFits
  <2> QED BY <2>1, EndedJournal
<1>2. PICK recovery : recovery = ClassifyRecovery(journal)
  OBVIOUS
<1>3. /\ e.type \in {"transaction.completed", "transaction.cancelled"} =>
            recovery = "none"
      /\ e.type = "transaction.reconciliation_required" =>
            recovery = "manual_reconciliation"
      /\ e.type = "transaction.failed" =>
            /\ e.code # "HOST_DECLINED" /\ FailedAfterApproval(journal) =>
                  recovery = "reverse_authorization"
            /\ e.code # "HOST_DECLINED" /\ ~FailedAfterApproval(journal) =>
                  recovery = IF e.code \in RecoveryCodes THEN "safe_retry"
                                                         ELSE "operator_review"
  BY <1>1, <1>2, OutcomeRecovery
<1>4. TerminalFailureCode(journal) =
         IF e.type \in {"transaction.failed", "transaction.reconciliation_required"}
         THEN e.code ELSE NoCode
  <2>1. e.type # "flow.failed"
    BY <1>1 DEF TerminalTypes
  <2> QED BY <1>1, <2>1, DecidedOutcome
<1>5. ASSUME NEW expected \in Deserved,
             expected.status = OutcomeOf(e.type), expected.recovery = recovery,
             expected.failureCode \in {NoExpectation, TerminalFailureCode(journal)}
      PROVE  \E other \in Deserved : CasePasses(other, journal, Summary(journal, TRUE))
  BY <1>1, <1>2, <1>5, ExpectedPasses
<1>6. \A j \in CashMoves \ {k} : req[j] = "idle"
  BY DEF CashEnd
<1>7. CASE /\ e.type = "transaction.completed"
           /\ req[k] = "ok" /\ accounts[account] # InitialBalance
  <2>1. PICK expected : expected = [status |-> "completed", recovery |-> "none",
                                    failureCode |-> NoExpectation]
    OBVIOUS
  <2>2. expected \in Deserved
    BY <1>6, <1>7, <2>1, DeservedWithCash
  <2>3. /\ expected.status = "completed" /\ expected.recovery = "none"
        /\ expected.failureCode = NoExpectation
    BY <2>1
  <2>4. OutcomeOf(e.type) = "completed" /\ recovery = "none"
    BY <1>3, <1>7 DEF OutcomeOf
  <2> QED BY <1>5, <2>2, <2>3, <2>4
<1>8. CASE /\ e.type = "transaction.reconciliation_required"
           /\ e.code = "ADAPTER_OUTCOME_UNKNOWN"
           /\ req[k] # "idle" /\ accounts[account] = InitialBalance
  <2>1. PICK expected : expected = [status |-> "failed",
                                    failureCode |-> "ADAPTER_OUTCOME_UNKNOWN",
                                    recovery |-> "manual_reconciliation"]
    OBVIOUS
  <2>2. ~Journaled("transaction.failed", Name)
    BY <1>1, <1>8 DEF Journaled
  <2>3. expected \in Deserved
    BY <1>6, <1>8, <2>1, <2>2, DeservedWithCash
  <2>4. /\ expected.status = "failed" /\ expected.recovery = "manual_reconciliation"
        /\ expected.failureCode = "ADAPTER_OUTCOME_UNKNOWN"
    BY <2>1
  <2>5. /\ OutcomeOf(e.type) = "failed" /\ recovery = "manual_reconciliation"
        /\ TerminalFailureCode(journal) = "ADAPTER_OUTCOME_UNKNOWN"
    BY <1>3, <1>4, <1>8 DEF OutcomeOf
  <2> QED BY <1>5, <2>3, <2>4, <2>5
<1>9. CASE /\ e.type = "transaction.failed" /\ e.transaction = Name
           /\ e.code = req[k] /\ req[k] \in Refusals[k]
           /\ accounts[account] = InitialBalance
           /\ IF k = "dispense"
              THEN Event("host.authorization_result", Name, "HOST_APPROVED")
                      \in Entries(journal)
              ELSE req["authorize"] = "idle"
  <2>1. PICK expected :
           expected = [status |-> "failed", failureCode |-> req[k],
                       recovery |-> IF k = "dispense" THEN "reverse_authorization"
                                    ELSE IF req[k] \in RecoveryCodes THEN "safe_retry"
                                    ELSE "operator_review"]
    OBVIOUS
  <2>2. req[k] # "idle" /\ req[k] # "HOST_DECLINED"
    BY <1>9 DEF Refusals, CashMoves
  <2>3. Journaled("transaction.failed", Name)
    BY <1>1, <1>9 DEF Journaled
  <2>4. expected \in Deserved
    BY <1>6, <1>9, <2>1, <2>2, <2>3, DeservedWithCash
  <2>5. /\ expected.status = "failed" /\ expected.failureCode = req[k]
        /\ k = "dispense" => expected.recovery = "reverse_authorization"
        /\ k # "dispense" => expected.recovery = IF req[k] \in RecoveryCodes
                                                 THEN "safe_retry" ELSE "operator_review"
    BY <2>1
  <2>6. OutcomeOf(e.type) = "failed" /\ TerminalFailureCode(journal) = req[k]
    BY <1>4, <1>9 DEF OutcomeOf
  <2>7. CASE k = "dispense"
    <3>1. PICK a : a = Event("host.authorization_result", Name, "HOST_APPROVED")
      OBVIOUS
    <3>2. /\ a.type = "host.authorization_result" /\ a.transaction = Name
          /\ a.code = "HOST_APPROVED"
      BY <3>1, EventFields
    <3>3. a \in Entries(journal) /\ a.transaction = e.transaction
      BY <1>9, <2>7, <3>1, <3>2
    <3>4. FailedAfterApproval(journal)
      BY <1>1, <1>9, <3>2, <3>3, ApprovalFound
    <3>5. recovery = "reverse_authorization"
      BY <1>3, <1>9, <2>2, <3>4
    <3> QED BY <1>5, <2>4, <2>5, <2>6, <2>7, <3>5
  <2>8. CASE k # "dispense"
    <3>1. req["authorize"] # "ok"
      BY <1>9, <2>8
    <3>2. ~FailedAfterApproval(journal)
      BY <1>1, <3>1, ReversalNeedsApproval DEF Trail, Approves
    <3>3. recovery = IF req[k] \in RecoveryCodes THEN "safe_retry" ELSE "operator_review"
      BY <1>3, <1>9, <2>2, <3>2
    <3> QED BY <1>5, <2>4, <2>5, <2>6, <2>8, <3>3
  <2> QED BY <2>7, <2>8
<1> QED BY <1>7, <1>8, <1>9 DEF CashEnd

\* So with a session that asked no device for cash.
LEMMA CashlessEndCertifies ==
    ASSUME TypeOK, Trail, Ordered, Concluded, pc = "done",
           NEW e, e = journal[Len(journal)],
           \/ HostEnd(e)
           \/ e.type \in {"transaction.completed", "transaction.cancelled"} /\ Untouched
    PROVE  \E expected \in Deserved :
              CasePasses(expected, journal, Summary(journal, TRUE))
<1>1. /\ journal \in Seq(Events) /\ WellOrdered(journal) /\ Decided(journal)
      /\ e.type \in TerminalTypes
      /\ PendingAuthorizationTransactions(journal) = {}
  <2>1. EndFits(e)
    BY DEF EndFits
  <2> QED BY <2>1, EndedJournal
<1>2. PICK recovery : recovery = ClassifyRecovery(journal)
  OBVIOUS
<1>3. /\ e.type \in {"transaction.completed", "transaction.cancelled"} =>
            recovery = "none"
      /\ e.type = "transaction.failed" =>
            /\ e.code = "HOST_DECLINED" => recovery = "none"
            /\ e.code # "HOST_DECLINED" /\ ~FailedAfterApproval(journal) =>
                  recovery = IF e.code \in RecoveryCodes THEN "safe_retry"
                                                         ELSE "operator_review"
  BY <1>1, <1>2, OutcomeRecovery
<1>4. ASSUME NEW expected \in Deserved,
             expected.status = OutcomeOf(e.type), expected.recovery = recovery,
             expected.failureCode \in {NoExpectation, TerminalFailureCode(journal)}
      PROVE  \E other \in Deserved : CasePasses(other, journal, Summary(journal, TRUE))
  BY <1>1, <1>2, <1>4, ExpectedPasses
<1>5. CASE e.type \in {"transaction.completed", "transaction.cancelled"} /\ Untouched
  <2>1. PICK status \in {"completed", "cancelled"} : status = OutcomeOf(e.type)
    BY <1>5 DEF OutcomeOf
  <2>2. PICK expected : expected = [status |-> status, failureCode |-> NoExpectation,
                                    recovery |-> "none"]
    OBVIOUS
  <2>3. \A k \in CashMoves : req[k] = "idle"
    BY <1>5 DEF Untouched, CashMoves
  <2>4. expected \in Deserved
    BY <1>5, <2>1, <2>2, <2>3, DeservedWithoutCash
  <2>5. /\ expected.status = status /\ expected.recovery = "none"
        /\ expected.failureCode = NoExpectation
    BY <2>2
  <2>6. recovery = "none"
    BY <1>3, <1>5
  <2> QED BY <1>4, <2>1, <2>4, <2>5, <2>6
<1>6. CASE HostEnd(e)
  <2>1. PICK code : code = e.code
    OBVIOUS
  <2>2. /\ \A k \in CashMoves : req[k] = "idle"
        /\ ~Untouched
        /\ e.type = "transaction.failed"
        /\ code \in {req["authorize"], "ADAPTER_TIMEOUT"} \cup LostCodes["authorize"]
    BY <1>6, <2>1 DEF HostEnd, Untouched
  <2>3. PICK expected :
           expected = [status |-> "failed", failureCode |-> code,
                       recovery |-> IF code = "HOST_DECLINED" THEN "none"
                                    ELSE IF code \in RecoveryCodes THEN "safe_retry"
                                    ELSE "operator_review"]
    OBVIOUS
  <2>4. expected \in Deserved
    BY <2>2, <2>3, DeservedWithoutCash
  <2>5. /\ expected.status = "failed" /\ expected.failureCode = code
        /\ expected.recovery = IF code = "HOST_DECLINED" THEN "none"
                               ELSE IF code \in RecoveryCodes THEN "safe_retry"
                               ELSE "operator_review"
    BY <2>3
  <2>6. ~FailedAfterApproval(journal)
    BY <1>1, <1>6, ReversalNeedsApproval DEF HostEnd, Approves
  <2>7. expected.recovery = recovery
    BY <1>3, <2>1, <2>2, <2>5, <2>6
  <2>8. OutcomeOf(e.type) = "failed"
    BY <2>2 DEF OutcomeOf
  <2>9. TerminalFailureCode(journal) = code
    <3>1. e.type # "flow.failed"
      BY <2>2
    <3>2. TerminalFailureCode(journal) =
             IF e.type \in {"transaction.failed", "transaction.reconciliation_required"}
             THEN e.code ELSE NoCode
      BY <1>1, <3>1, DecidedOutcome
    <3> QED BY <2>1, <2>2, <3>2
  <2> QED BY <1>4, <2>4, <2>5, <2>7, <2>8, <2>9
<1> QED BY <1>5, <1>6

LEMMA ConcludedMeansCertified ==
    TypeOK /\ Trail /\ Ordered /\ Concluded => EndedSessionsCertify
<1> SUFFICES ASSUME TypeOK, Trail, Ordered, Concluded, pc = "done",
                    transaction # UnknownTransaction
             PROVE  \E expected \in Deserved :
                       CasePasses(expected, journal, Summary(journal, TRUE))
  BY DEF EndedSessionsCertify
<1>1. PICK e : e = journal[Len(journal)]
  OBVIOUS
<1>2. EndFits(e)
  BY <1>1 DEF Concluded
<1>3. ASSUME NEW k \in CashMoves, CashEnd(k, e)
      PROVE  \E expected \in Deserved :
                CasePasses(expected, journal, Summary(journal, TRUE))
  BY <1>1, <1>3, CashEndCertifies
<1> QED BY <1>1, <1>2, <1>3, CashlessEndCertifies DEF EndFits

\* A session that ran to its end passes the certification of what it deserves:
\* its journal replays without an error, the summary, the classifier and the
\* journal agree, and the status, the failure code and the recommended recovery
\* are those its requests call for, not only those it wrote down (runScenario's
\* checks on the journals of the Execute methods; classifyRecovery,
\* replaySessionRecords, summarizeJournal).
THEOREM SpecEndedSessionsCertify == Spec => []EndedSessionsCertify
BY ConcludedMeansCertified, SpecTypeOK, SpecTrail, SpecOrdered, SpecConcluded, PTL
=============================================================================
