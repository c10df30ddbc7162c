----------------------------- MODULE AtmSession -----------------------------
(***************************************************************************)
(* One interactive terminal session: runFlow drives the basic ATM flow,    *)
(* the flow drives the ATM modules, and the modules call the terminal      *)
(* adapters and append to the journal.                                     *)
(*                                                                         *)
(* The session is sequential code with awaits, so one action is the code   *)
(* between two awaits.  What interleaves with it is the outside world: an  *)
(* adapter request that is on the wire is acted on or refused whenever the *)
(* remote service gets to it, also after the runtime's timer has given up  *)
(* on the call.                                                            *)
(***************************************************************************)
EXTENDS Journal, CashAllocation

CONSTANTS
    Amounts,          \* amounts a customer can enter, in minor units
    FastCashAmount,   \* the fast-cash preset, in minor units
    Unit,             \* minor units per currency unit
    DispenseDenominations,  \* profile.cashManagement, a sequence of notes
    AcceptDenominations,    \* likewise, the notes a deposit may consist of
    MaxCount,         \* MAX_SIMULATOR_CASH_UNIT_COUNT, notes per denomination
    DispenseLimit,    \* profile.cashManagement.maxDispenseAmount
    DepositLimit,     \* profile.cashManagement.maxDepositAmount
    RecycleDeposits,  \* profile.cashManagement.recycleDeposits
    InitialBalance,   \* the balance of every account at the start
    InitialInventory, \* profile.cashManagement.initialInventory
    InitialCash,      \* terminal cash at the start, what it is worth
    Remote,           \* TRUE: adapters reach devices and a host over a wire
                      \* FALSE: the adapters of the built-in simulator
    FlowMayThrow,     \* TRUE: flow-supplied callbacks may throw
    DefaultAccount    \* CoreSession.CurrentAccount before one is chosen

NotesOf(denominations) == {denominations[i] : i \in DOMAIN denominations}
CashUnits == NotesOf(DispenseDenominations)

\* defineSimulatorProfile: what is demanded of a profile's cash management.
ValidProfile ==
    /\ \A ds \in {DispenseDenominations, AcceptDenominations} :
          /\ ds \in Seq(Nat \ {0}) /\ ds # <<>>
          /\ \A i, j \in DOMAIN ds : ds[i] = ds[j] => i = j
    /\ {DispenseLimit, DepositLimit} \subseteq 1 .. MaxTransactionAmount
    /\ InitialInventory \in [CashUnits -> 0 .. MaxCount]
    /\ RecycleDeposits => NotesOf(AcceptDenominations) \subseteq CashUnits

ASSUME SessionAssumption ==
    /\ Amounts \subseteq Nat \ {0}
    /\ FastCashAmount \in Nat \ {0}
    /\ Unit \in Nat \ {0}
    /\ MaxCount \in Nat
    /\ ValidProfile
    /\ InitialCash \in Nat /\ InitialCash = InventoryTotal(InitialInventory)
    /\ InitialBalance \in Int
    /\ {RecycleDeposits, Remote, FlowMayThrow} \subseteq BOOLEAN
    /\ DefaultAccount \in Accounts

VARIABLES
    pc,           \* the await the session is suspended at
    customer,     \* Customer.CustomerType
    printer,      \* the receipt printer status cached in the properties
    transaction,  \* the transaction the customer selected
    account,      \* the account of the selected transaction
    amount,       \* its amount
    prompts,      \* the prompts the flow still has to ask
    journal,      \* RuntimeJournal.events
    accounts,     \* RuntimeSimulator.accounts
    cash,         \* RuntimeSimulator.terminalCash
    notes,        \* RuntimeSimulator.cashInventory
    req           \* per adapter operation, what became of its request

flowVars == <<customer, printer, transaction, account, amount, prompts>>
cashVars == <<cash, notes>>
vars == <<pc, flowVars, journal, accounts, cashVars, req>>
-----------------------------------------------------------------------------
(***************************************************************************)
(* Adapter operations.  A request is idle, open (on its way, able to take  *)
(* effect), "ok" (it took effect) or refused with the code given (it never *)
(* takes effect).                                                          *)
(***************************************************************************)
Calls == {"getStatus", "readCard", "authorize", "dispense", "accept", "print"}

\* The operations that move physical cash.
CashMoves == {"dispense", "accept"}

\* Definitive refusals a service answers with, or the adapter itself when
\* the request never left the terminal.
Refusals ==
    [getStatus |-> {"PRINTER_UNAVAILABLE"},
     readCard  |-> {"CARD_READER_UNAVAILABLE", "CARD_READER_OFFLINE",
                    "DEVICE_GATEWAY_UNAVAILABLE"},
     authorize |-> {"HOST_UNAVAILABLE", "HOST_DECLINED",
                    "HOST_RESPONSE_ERROR", "INSUFFICIENT_FUNDS"},
     dispense  |-> {"DISPENSER_UNAVAILABLE", "DISPENSER_OFFLINE",
                    "INVALID_AMOUNT", "UNSUPPORTED_CURRENCY",
                    "DISPENSE_LIMIT_EXCEEDED", "INSUFFICIENT_TERMINAL_CASH",
                    "DENOMINATION_UNAVAILABLE", "DEVICE_GATEWAY_UNAVAILABLE"},
     accept    |-> {"ACCEPTOR_UNAVAILABLE", "ACCEPTOR_OFFLINE",
                    "INVALID_AMOUNT", "UNSUPPORTED_CURRENCY",
                    "DEPOSIT_LIMIT_EXCEEDED", "DENOMINATION_UNAVAILABLE",
                    "CASH_CAPACITY_EXCEEDED", "DEVICE_GATEWAY_UNAVAILABLE"},
     print     |-> {"PRINTER_UNAVAILABLE", "DEVICE_GATEWAY_UNAVAILABLE"}]

AllRefusals == UNION {Refusals[k] : k \in Calls}

\* What the runtime tells the module when its timer fires first: a timed-out
\* cash movement has an unknown outcome, any other timeout is a failure.
TimeoutCode(k) ==
    IF k \in CashMoves THEN "ADAPTER_OUTCOME_UNKNOWN" ELSE "ADAPTER_TIMEOUT"

\* What an adapter reports when it sent a request and cannot match it with
\* a trustworthy answer (getStatus throws instead).
LostCodes ==
    [getStatus |-> {},
     readCard  |-> {"DEVICE_GATEWAY_UNAVAILABLE", "DEVICE_OUTCOME_UNKNOWN"},
     authorize |-> {"HOST_PROTOCOL_ERROR"},
     dispense  |-> {"ADAPTER_OUTCOME_UNKNOWN"},
     accept    |-> {"ADAPTER_OUTCOME_UNKNOWN"},
     print     |-> {"DEVICE_OUTCOME_UNKNOWN"}]

\* The call the module is about to await.
Opened(k) == [req EXCEPT ![k] = "open"]
-----------------------------------------------------------------------------
(***************************************************************************)
(* The flow's transactions.                                                *)
(***************************************************************************)
Withdrawals == {"CashWithdrawal", "CardlessWithdrawal", "FastCash"}
AdminTransactions ==
    {"AdminBalanceTerminal", "AdminCashAdjustment", "AdminPrintTotals"}
Transactions ==
    Withdrawals \cup AdminTransactions \cup {"BalanceInquiry", "CashDeposit"}

\* A selection none of the flow's branches recognises.
UnknownTransaction == "Unrecognised"

CustomerTypes == {"OnUs", "TOUCH", "OperatorAdmin"}

\* The prompts each branch of OnIdle asks before it executes its module.
PromptsOf ==
    [CardlessWithdrawal   |-> <<"access", "account", "amount", "confirm">>,
     CashWithdrawal       |-> <<"account", "amount", "confirm">>,
     BalanceInquiry       |-> <<"account", "balanceDisplay">>,
     CashDeposit          |-> <<"account", "amount", "confirm">>,
     FastCash             |-> <<"account", "confirm">>,
     AdminBalanceTerminal |-> <<>>,
     AdminCashAdjustment  |-> <<"adjustment">>,
     AdminPrintTotals     |-> <<>>]

\* The name under which a module journals the transaction it executes.
ModuleName(t) ==
    CASE t = "CardlessWithdrawal"  -> "CardlessCashWithdrawal"
      [] t \in AdminTransactions   -> "TerminalAdmin"
      [] OTHER                     -> t

Name == ModuleName(transaction)
Log(events) == journal' = journal \o events

\* failFlow: an exception that leaves the flow ends the session.
FailFlow(events) ==
    /\ pc' = "failed"
    /\ Log(Append(events, Event("flow.failed", NoTransaction, NoCode)))

\* The outcome event of a module, with the account it worked on.
Completed(name, ledger, terminalCash) ==
    ReportingEvent("transaction.completed", name,
                   Report({account}, ledger, terminalCash))
-----------------------------------------------------------------------------
(***************************************************************************)
(* The simulated cash units.                                               *)
(***************************************************************************)
\* planDispense: the notes that pay an amount from the inventory.
DispensePlan(a) ==
    IF a % Unit # 0 THEN NoPlan ELSE Allocate(a, DispenseDenominations, notes)

\* The notes a deposit of an amount is taken to consist of; the inventory does
\* not matter for it.
DepositPlan(a) ==
    IF a % Unit # 0 THEN NoPlan
    ELSE Allocate(a, AcceptDenominations,
                  [d \in NotesOf(AcceptDenominations) |-> MaxCount])

PlanDispense(a) == DispensePlan(a) # NoPlan
CanAccept(a) == DepositPlan(a) # NoPlan

CanAddTerminalCash(a) ==
    /\ a % Unit = 0
    /\ RecycleDeposits =>
          /\ CanAccept(a)
          /\ \A d \in DOMAIN DepositPlan(a) : notes[d] + DepositPlan(a)[d] <= MaxCount

\* Faulty variant: the notes are taken of the largest denomination that fits.
RemoveLargestNotes(a) ==
    /\ cash' = cash - a
    /\ notes' = [d \in CashUnits |->
                    IF \A e \in CashUnits : e <= a => e <= d
                    THEN notes[d] - a \div d ELSE notes[d]]

RemoveTerminalCash(a) ==
    /\ cash' = cash - a
    /\ notes' = [d \in CashUnits |-> notes[d] - DispensePlan(a)[d]]

AddTerminalCash(a) ==
    /\ cash' = cash + a
    /\ notes' = [d \in CashUnits |->
                    IF RecycleDeposits /\ d \in DOMAIN DepositPlan(a)
                    THEN notes[d] + DepositPlan(a)[d] ELSE notes[d]]
-----------------------------------------------------------------------------
(***************************************************************************)
(* Loading the flow and identifying the customer.                          *)
(***************************************************************************)
Init ==
    /\ pc = "load"
    /\ customer = "OnUs"
    /\ printer = "up"
    /\ transaction = NoTransaction
    /\ account = DefaultAccount
    /\ amount = FastCashAmount
    /\ prompts = <<>>
    /\ journal = <<Event("runtime.started", NoTransaction, NoCode)>>
    /\ accounts = [a \in Accounts |-> InitialBalance]
    /\ cash = InitialCash
    /\ notes = InitialInventory
    /\ req = [k \in Calls |-> "idle"]

\* runFlow up to the first await of OnIdle: configure picks the customer
\* type, Idle.Execute opens the session, and the printer status is asked.
Load(type) ==
    /\ pc = "load"
    /\ customer' = type
    /\ Log(<<Event("flow.loaded", NoTransaction, NoCode),
             Event("session.started", NoTransaction, NoCode)>>)
    /\ pc' = "getStatus"
    /\ req' = Opened("getStatus")
    /\ UNCHANGED <<printer, transaction, account, amount, prompts, accounts,
                   cashVars>>

\* configure, the flow factory or OnStartOfDay throws.
LoadFails ==
    /\ pc = "load"
    /\ FlowMayThrow
    /\ FailFlow(<<Event("flow.loaded", NoTransaction, NoCode)>>)
    /\ UNCHANGED <<flowVars, accounts, cashVars, req>>

\* The loop body of OnIdle from the receipt warning on: a touch customer has
\* already chosen the cardless withdrawal.
AskTransaction ==
    IF customer = "TOUCH"
    THEN /\ pc' = "prompt"
         /\ transaction' = "CardlessWithdrawal"
         /\ prompts' = PromptsOf["CardlessWithdrawal"]
    ELSE /\ pc' = "selectTransaction"
         /\ UNCHANGED <<transaction, prompts>>

StartLoop(status) ==
    IF status = "down"
    THEN pc' = "printerDown" /\ UNCHANGED <<transaction, prompts>>
    ELSE AskTransaction

\* RefreshReceiptPrinterStatus resumes; only an OnUs customer has a card read.
StatusSettled(status, events) ==
    /\ printer' = status
    /\ Log(events)
    /\ IF customer = "OnUs"
       THEN /\ pc' = "readCard"
            /\ req' = Opened("readCard")
            /\ UNCHANGED <<transaction, prompts>>
       ELSE StartLoop(status) /\ UNCHANGED req
    /\ UNCHANGED <<customer, account, amount, accounts, cashVars>>

\* PinEntry resumes after readCard: a failed read is journaled and thrown.
CardSettled(ok, code) ==
    /\ IF ok
       THEN pc' = "pin" /\ UNCHANGED journal
       ELSE FailFlow(<<Event("transaction.failed", "CustomerIdentification",
                             code)>>)
    /\ UNCHANGED <<flowVars, accounts, cashVars, req>>

EnterPin ==
    /\ pc = "pin"
    /\ StartLoop(printer)
    /\ UNCHANGED <<customer, printer, account, amount, journal, accounts,
                   cashVars, req>>

\* OfferReceiptWarning: the customer goes on without a receipt, or leaves.
AnswerPrinterDown(goOn) ==
    /\ pc = "printerDown"
    /\ IF goOn
       THEN AskTransaction /\ UNCHANGED journal
       ELSE /\ pc' = "done"
            /\ Log(<<Event("transaction.cancelled", NoTransaction, NoCode)>>)
            /\ UNCHANGED <<transaction, prompts>>
    /\ UNCHANGED <<customer, printer, account, amount, accounts, cashVars,
                   req>>
-----------------------------------------------------------------------------
(***************************************************************************)
(* The Execute methods up to their first await.                            *)
(***************************************************************************)
\* CashWithdrawalModule.Execute asks the host.
BeginWithdrawal ==
    /\ Log(<<Event("host.authorization_requested", Name, NoCode)>>)
    /\ pc' = "authorize"
    /\ req' = Opened("authorize")
    /\ UNCHANGED <<accounts, cashVars>>

\* CashDepositModule.Execute asks the acceptor.
BeginDeposit ==
    /\ pc' = "accept"
    /\ req' = Opened("accept")
    /\ UNCHANGED <<journal, accounts, cashVars>>

\* BalanceInquiryModule.Execute: OnEndReceiptOption decides whether the
\* balance is shown (the printer is down, or the customer asked for it) or
\* printed; a handler of the flow may also throw.
BeginBalanceInquiry(display) ==
    LET started == Event("transaction.started", Name, NoCode)
    IN  /\ \/ /\ FlowMayThrow
              /\ FailFlow(<<started>>)
              /\ UNCHANGED req
           \/ /\ display \/ printer = "down"
              /\ Log(<<started, Completed(Name, accounts, Unreported)>>)
              /\ pc' = "done"
              /\ UNCHANGED req
           \/ /\ ~display /\ printer = "up"
              /\ Log(<<started>>)
              /\ pc' = "print"
              /\ req' = Opened("print")
        /\ UNCHANGED <<accounts, cashVars>>

\* AdminModule.Execute for the balance and the subtotals of terminal and bank.
ExecuteReport(events) ==
    /\ Log(Append(events, ReportingEvent("transaction.completed",
                              "TerminalAdmin", Report(Accounts, accounts, {cash}))))
    /\ pc' = "done"
    /\ UNCHANGED <<accounts, cashVars, req>>

\* AdminModule.Execute for a cash adjustment; the simulator throws when the
\* cash cannot be taken or stored.
ExecuteAdjustment(direction, a) ==
    /\ IF IF direction = "Add" THEN CanAddTerminalCash(a) ELSE PlanDispense(a)
       THEN /\ IF direction = "Add" THEN AddTerminalCash(a)
                                     ELSE RemoveTerminalCash(a)
            /\ Log(<<ReportingEvent("transaction.completed", "TerminalAdmin",
                                    Report({}, accounts, {cash'}))>>)
            /\ pc' = "done"
       ELSE FailFlow(<<>>) /\ UNCHANGED cashVars
    /\ UNCHANGED <<accounts, req>>
-----------------------------------------------------------------------------
(***************************************************************************)
(* The customer's choices.                                                 *)
(***************************************************************************)
\* A name the flow does not know is journaled and ends the session.
SelectTransaction(t) ==
    LET selected == <<Event("transaction.selected", t, NoCode)>>
    IN  /\ pc = "selectTransaction"
        /\ transaction' = t
        /\ \/ /\ t \in {"AdminBalanceTerminal", "AdminPrintTotals"}
              /\ ExecuteReport(selected)
              /\ prompts' = <<>>
           \/ /\ t \in DOMAIN PromptsOf /\ PromptsOf[t] # <<>>
              /\ pc' = "prompt"
              /\ prompts' = PromptsOf[t]
              /\ Log(selected)
              /\ UNCHANGED <<accounts, cashVars, req>>
           \/ /\ t = UnknownTransaction
              /\ pc' = "done"
              /\ prompts' = <<>>
              /\ Log(selected)
              /\ UNCHANGED <<accounts, cashVars, req>>
        /\ UNCHANGED <<customer, printer, account, amount>>

\* The prompt on the screen.
Asking(prompt) == pc = "prompt" /\ prompts # <<>> /\ Head(prompts) = prompt

NextPrompt == pc' = "prompt" /\ prompts' = Tail(prompts)

\* SelectAccount: an answer that is not offered falls back to an offered one.
AnswerAccount(a) ==
    /\ Asking("account")
    /\ account' = a
    /\ NextPrompt
    /\ UNCHANGED <<customer, printer, transaction, amount, journal, accounts,
                   cashVars, req>>

\* SelectAmount: a positive number, a preset when the answer is not one.
AnswerAmount(a) ==
    /\ Asking("amount")
    /\ amount' = a
    /\ NextPrompt
    /\ UNCHANGED <<customer, printer, transaction, account, journal, accounts,
                   cashVars, req>>

AnswerAccess ==
    /\ Asking("access")
    /\ NextPrompt
    /\ UNCHANGED <<customer, printer, transaction, account, amount, journal,
                   accounts, cashVars, req>>

\* The last confirmation before the module is executed.
AnswerConfirm ==
    /\ Asking("confirm")
    /\ prompts' = <<>>
    /\ \/ transaction \in Withdrawals /\ BeginWithdrawal
       \/ transaction = "CashDeposit" /\ BeginDeposit
    /\ UNCHANGED <<customer, printer, transaction, account, amount>>

\* The customer answers Cancel to a question that offers it.
CancelTransaction ==
    /\ Asking("access") \/ Asking("confirm")
    /\ pc' = "done"
    /\ Log(<<Event("transaction.cancelled", transaction, NoCode)>>)
    /\ UNCHANGED <<flowVars, accounts, cashVars, req>>

AnswerBalanceDisplay(display) ==
    /\ Asking("balanceDisplay") /\ transaction = "BalanceInquiry"
    /\ prompts' = <<>>
    /\ BeginBalanceInquiry(display)
    /\ UNCHANGED <<customer, printer, transaction, account, amount>>

AnswerAdjustment(direction, a) ==
    /\ Asking("adjustment")
    /\ transaction = "AdminCashAdjustment"
    /\ a % Unit = 0
    /\ prompts' = <<>>
    /\ ExecuteAdjustment(direction, a)
    /\ UNCHANGED <<customer, printer, transaction, account, amount>>

\* The session expires while a prompt is pending: the prompt is rejected and
\* the rejection leaves the flow.
RejectPrompt ==
    /\ pc \in {"pin", "printerDown", "selectTransaction", "prompt"}
    /\ FailFlow(<<>>)
    /\ UNCHANGED <<flowVars, accounts, cashVars, req>>
-----------------------------------------------------------------------------
(***************************************************************************)
(* The modules resume when an adapter call settles.                        *)
(***************************************************************************)
\* A refused cash movement failed; one of unknown outcome is reconciled.
CashRefused(code) ==
    /\ pc' = "done"
    /\ Log(<<Event(IF code = "ADAPTER_OUTCOME_UNKNOWN"
                   THEN "transaction.reconciliation_required"
                   ELSE "transaction.failed", Name, code)>>)
    /\ UNCHANGED <<flowVars, accounts, cashVars, req>>

\* Faulty variant: the return after a declined authorization is missing.
AuthorizeGoesOn(ok, code) ==
    LET result == Event("host.authorization_result", Name,
                        IF ok THEN "HOST_APPROVED" ELSE code)
    IN  /\ Log(IF ok THEN <<result>>
                     ELSE <<result, Event("transaction.failed", Name, code)>>)
        /\ pc' = "dispense"
        /\ req' = Opened("dispense")
        /\ UNCHANGED <<flowVars, accounts, cashVars>>

AuthorizeSettled(ok, code) ==
    LET result == Event("host.authorization_result", Name,
                        IF ok THEN "HOST_APPROVED" ELSE code)
    IN  /\ IF ok
           THEN /\ Log(<<result>>)
                /\ pc' = "dispense"
                /\ req' = Opened("dispense")
           ELSE /\ Log(<<result, Event("transaction.failed", Name, code)>>)
                /\ pc' = "done"
                /\ UNCHANGED req
        /\ UNCHANGED <<flowVars, accounts, cashVars>>

\* Faulty variants: a refused dispense is not noticed; the account is debited
\* before the outcome is looked at; it is debited after the receipt only.
DispenseUnchecked(ok, code) ==
    /\ accounts' = [accounts EXCEPT ![account] = @ - amount]
    /\ pc' = "print"
    /\ req' = Opened("print")
    /\ UNCHANGED <<flowVars, journal, cashVars>>

DebitsFirst(ok, code) ==
    /\ accounts' = [accounts EXCEPT ![account] = @ - amount]
    /\ \/ /\ ~ok
          /\ pc' = "done"
          /\ Log(<<Event("transaction.failed", Name, code)>>)
          /\ UNCHANGED req
       \/ /\ ok
          /\ pc' = "print"
          /\ req' = Opened("print")
          /\ UNCHANGED journal
    /\ UNCHANGED <<flowVars, cashVars>>

PrintsFirst(ok, code) ==
    \/ /\ ~ok
       /\ CashRefused(code)
    \/ /\ ok
       /\ pc' = "print"
       /\ req' = Opened("print")
       /\ UNCHANGED <<flowVars, journal, accounts, cashVars>>

\* After the cash is out the account is debited, then the receipt handler of
\* the flow runs (it may throw) and the receipt is printed.
DispenseSettled(ok, code) ==
    \/ /\ ~ok
       /\ CashRefused(code)
    \/ /\ ok
       /\ accounts' = [accounts EXCEPT ![account] = @ - amount]
       /\ \/ /\ FlowMayThrow
             /\ FailFlow(<<>>)
             /\ UNCHANGED req
          \/ /\ pc' = "print"
             /\ req' = Opened("print")
             /\ UNCHANGED journal
       /\ UNCHANGED <<flowVars, cashVars>>

\* Faulty variants: the outcome reports the balance before the credit; what
\* the acceptor says is not looked at.
ReportsOldBalance(ok, code) ==
    \/ /\ ~ok
       /\ CashRefused(code)
    \/ /\ ok
       /\ accounts' = [accounts EXCEPT ![account] = @ + amount]
       /\ Log(<<Completed(Name, accounts, {cash})>>)
       /\ pc' = "done"
       /\ UNCHANGED <<flowVars, cashVars, req>>

AcceptUnchecked(ok, code) ==
    /\ accounts' = [accounts EXCEPT ![account] = @ + amount]
    /\ Log(<<Completed(Name, accounts', {cash})>>)
    /\ pc' = "done"
    /\ UNCHANGED <<flowVars, cashVars, req>>

AcceptSettled(ok, code) ==
    \/ /\ ~ok
       /\ CashRefused(code)
    \/ /\ ok
       /\ accounts' = [accounts EXCEPT ![account] = @ + amount]
       /\ Log(<<Completed(Name, accounts', {cash})>>)
       /\ pc' = "done"
       /\ UNCHANGED <<flowVars, cashVars, req>>

\* A receipt that is not printed never fails the transaction.
PrintSettled(ok, code) ==
    LET trouble == IF ok THEN <<>>
                   ELSE <<Event("device.status_changed", Name, code)>>
        terminalCash == IF transaction \in Withdrawals THEN {cash}
                                                        ELSE Unreported
    IN  /\ Log(Append(trouble, Completed(Name, accounts, terminalCash)))
        /\ pc' = "done"
        /\ UNCHANGED <<flowVars, accounts, cashVars, req>>

Settled(k, ok, code) ==
    \/ k = "getStatus" /\ StatusSettled(IF ok THEN "up" ELSE "down", <<>>)
    \/ k = "readCard"  /\ CardSettled(ok, code)
    \/ k = "authorize" /\ AuthorizeSettled(ok, code)
    \/ k = "dispense"  /\ DispenseSettled(ok, code)
    \/ k = "accept"    /\ AcceptSettled(ok, code)
    \/ k = "print"     /\ PrintSettled(ok, code)
-----------------------------------------------------------------------------
(***************************************************************************)
(* How an adapter call settles (callAdapter: the first of answer, failure  *)
(* and timer wins, whatever comes later is ignored).                       *)
(***************************************************************************)
\* The adapter returns the outcome of its request.
Returns(k) ==
    /\ pc = k
    /\ req[k] \notin {"idle", "open"}
    /\ Settled(k, req[k] = "ok", req[k])

\* Faulty variant: the adapter sends a request again when it has lost it.
LostAndReissued(k, code) ==
    /\ Remote
    /\ pc = k
    /\ code \in LostCodes[k]
    /\ req' = Opened(k)
    /\ UNCHANGED <<pc, flowVars, journal, accounts, cashVars>>

\* The adapter gives up on a request it sent.
Lost(k, code) ==
    /\ Remote
    /\ pc = k
    /\ code \in LostCodes[k]
    /\ Settled(k, FALSE, code)

\* Faulty variant: only movements of cash are timed.
TimesOutOnCash(k) ==
    /\ Remote
    /\ pc = k
    /\ k \in CashMoves
    /\ Settled(k, FALSE, TimeoutCode(k))

\* The runtime's timer fires; the request may still take effect.
TimesOut(k) ==
    /\ Remote
    /\ pc = k
    /\ Settled(k, FALSE, TimeoutCode(k))

\* The adapter throws.  The printer's exceptions are contained, any other
\* leaves the flow.
Throws(k) ==
    /\ Remote
    /\ pc = k
    /\ \/ /\ k = "getStatus"
          /\ StatusSettled("down", <<Event("device.status_changed",
                             NoTransaction, "PRINTER_STATUS_ERROR")>>)
       \/ k = "print" /\ PrintSettled(FALSE, "RECEIPT_ERROR")
       \/ /\ k \notin {"getStatus", "print"}
          /\ FailFlow(<<>>)
          /\ UNCHANGED <<flowVars, accounts, cashVars, req>>
-----------------------------------------------------------------------------
(***************************************************************************)
(* The far end of the adapters.                                            *)
(***************************************************************************)
Outcome(k, result) ==
    /\ req[k] = "open"
    /\ req' = [req EXCEPT ![k] = result]
    /\ UNCHANGED <<pc, flowVars, journal, accounts>>

\* A remote service carries out, or refuses, a request it still holds.
ServiceActs(k) == Remote /\ Outcome(k, "ok") /\ UNCHANGED cashVars

ServiceRefuses(k, code) ==
    /\ Remote
    /\ code \in Refusals[k]
    /\ Outcome(k, code)
    /\ UNCHANGED cashVars

\* The simulated host: it only looks at the balance for a transaction whose
\* name contains "Withdrawal", which FastCash does not.
HostAuthorizes ==
    /\ \/ Outcome("authorize", "HOST_UNAVAILABLE")
       \/ Outcome("authorize", "HOST_DECLINED")
       \/ LET short == /\ Name \in {"CashWithdrawal", "CardlessCashWithdrawal"}
                       /\ amount > accounts[account]
          IN  Outcome("authorize", IF short THEN "INSUFFICIENT_FUNDS" ELSE "ok")
    /\ UNCHANGED cashVars

\* The simulated dispenser, its checks in the order the adapter makes them.
DispenserDispenses ==
    LET fault == CASE amount % Unit # 0      -> "INVALID_AMOUNT"
                   [] amount % Unit = 0 /\ amount > DispenseLimit
                                             -> "DISPENSE_LIMIT_EXCEEDED"
                   [] amount % Unit = 0 /\ amount <= DispenseLimit
                      /\ amount > cash       -> "INSUFFICIENT_TERMINAL_CASH"
                   [] OTHER                  -> "DENOMINATION_UNAVAILABLE"
        able  == amount <= DispenseLimit /\ amount <= cash /\ PlanDispense(amount)
    IN  \/ \E code \in {"DISPENSER_UNAVAILABLE", "DISPENSER_OFFLINE"} :
              Outcome("dispense", code) /\ UNCHANGED cashVars
        \/ Outcome("dispense", fault) /\ ~able /\ UNCHANGED cashVars
        \/ Outcome("dispense", "ok") /\ able /\ RemoveTerminalCash(amount)

\* The simulated acceptor, likewise.
AcceptorAccepts ==
    LET fault == CASE amount % Unit # 0      -> "INVALID_AMOUNT"
                   [] amount % Unit = 0 /\ amount > DepositLimit
                                             -> "DEPOSIT_LIMIT_EXCEEDED"
                   [] amount % Unit = 0 /\ amount <= DepositLimit
                      /\ ~CanAccept(amount)  -> "DENOMINATION_UNAVAILABLE"
                   [] OTHER                  -> "CASH_CAPACITY_EXCEEDED"
        able  == amount <= DepositLimit /\ CanAccept(amount)
                                       /\ CanAddTerminalCash(amount)
    IN  \/ \E code \in {"ACCEPTOR_UNAVAILABLE", "ACCEPTOR_OFFLINE"} :
              Outcome("accept", code) /\ UNCHANGED cashVars
        \/ Outcome("accept", fault) /\ ~able /\ UNCHANGED cashVars
        \/ Outcome("accept", "ok") /\ able /\ AddTerminalCash(amount)

\* The simulated reader and printer; the printer does not change its status.
ReaderReads ==
    /\ \E result \in {"ok", "CARD_READER_UNAVAILABLE", "CARD_READER_OFFLINE"} :
          Outcome("readCard", result)
    /\ UNCHANGED cashVars

PrinterAnswers ==
    /\ \/ Outcome("getStatus", "ok")
       \/ Outcome("getStatus", "PRINTER_UNAVAILABLE")
       \/ Outcome("print", IF printer = "up" THEN "ok" ELSE "PRINTER_UNAVAILABLE")
    /\ UNCHANGED cashVars

Simulates ==
    /\ ~Remote
    /\ \/ HostAuthorizes
       \/ DispenserDispenses
       \/ AcceptorAccepts
       \/ ReaderReads
       \/ PrinterAnswers
-----------------------------------------------------------------------------
Customer ==
    \/ EnterPin
    \/ \E goOn \in BOOLEAN : AnswerPrinterDown(goOn)
    \/ \E t \in Transactions \cup {UnknownTransaction} : SelectTransaction(t)
    \/ \E a \in Accounts : AnswerAccount(a)
    \/ \E a \in Amounts : AnswerAmount(a)
    \/ AnswerAccess
    \/ AnswerConfirm
    \/ CancelTransaction
    \/ \E display \in BOOLEAN : AnswerBalanceDisplay(display)
    \/ \E direction \in {"Add", "Remove"}, a \in Amounts :
          AnswerAdjustment(direction, a)
    \/ RejectPrompt

Call(k) ==
    \/ Returns(k)
    \/ \E code \in LostCodes[k] : Lost(k, code)
    \/ TimesOut(k)
    \/ Throws(k)

Service(k) == ServiceActs(k) \/ \E code \in Refusals[k] : ServiceRefuses(k, code)

Next ==
    \/ \E type \in CustomerTypes : Load(type)
    \/ LoadFails
    \/ Customer
    \/ \E k \in Calls : Call(k) \/ Service(k)
    \/ Simulates

\* callAdapter arms a timer for every call, and a simulated adapter answers
\* in the same turn of the event loop.  Nothing makes a customer answer or a
\* remote service act.
Fairness ==
    /\ WF_vars(Simulates)
    /\ \A k \in Calls : WF_vars(Returns(k)) /\ WF_vars(TimesOut(k))

Spec == Init /\ [][Next]_vars /\ Fairness
-----------------------------------------------------------------------------
(***************************************************************************)
(* Correctness.                                                            *)
(***************************************************************************)
Ended == pc \in {"done", "failed"}

PromptStates == {"pin", "printerDown", "selectTransaction", "prompt"}

PromptNames ==
    {"access", "account", "amount", "confirm", "balanceDisplay", "adjustment"}

\* Well-formed events: what the modules can name and report.
EventNames ==
    Transactions \cup {NoTransaction, UnknownTransaction, "TerminalAdmin",
                      "CardlessCashWithdrawal", "CustomerIdentification"}

EventCodes ==
    AllRefusals \cup (UNION {LostCodes[k] : k \in Calls}) \cup
    {NoCode, "HOST_APPROVED", "ADAPTER_OUTCOME_UNKNOWN", "ADAPTER_TIMEOUT",
     "RECEIPT_ERROR", "PRINTER_STATUS_ERROR"}

Reports ==
    [known : SUBSET Accounts, balances : [Accounts -> Int], cash : SUBSET Int]
Events ==
    {e \in [type : EventTypes, transaction : EventNames, code : EventCodes,
            report : Reports] :
        e.type # "transaction.completed" => e.report = NoReport}

\* Every variable keeps its type; the journal holds well-formed events only.
TypeOK ==
    /\ pc \in {"load", "done", "failed"} \cup PromptStates \cup Calls
    /\ customer \in CustomerTypes
    /\ printer \in {"up", "down"}
    /\ transaction \in Transactions \cup {NoTransaction, UnknownTransaction}
    /\ account \in Accounts
    /\ amount \in Nat \ {0}
    /\ prompts \in Seq(PromptNames)
    /\ journal \in Seq(Events)
    /\ accounts \in [Accounts -> Int]
    /\ cash \in Int
    /\ DOMAIN notes = CashUnits
    /\ req \in [Calls -> {"idle", "open", "ok"} \cup AllRefusals]

\* The request may have moved cash, or may still do so.
AtLarge(k) == req[k] \in {"open", "ok"}

\* Some event of the journal has the given type and transaction.
Journaled(type, name) ==
    \E e \in Entries(journal) : e.type = type /\ e.transaction = name

\* A withdrawal is journaled as completed only when the host approved it and
\* the dispenser moved the cash, and a deposit only when the acceptor took it;
\* the account has been debited or credited once (CashWithdrawalModule and
\* CashDepositModule).
CompletedMeansMoved ==
    /\ \A t \in Withdrawals : Journaled("transaction.completed", ModuleName(t)) =>
          /\ req["authorize"] = "ok" /\ req["dispense"] = "ok"
          /\ accounts[account] = InitialBalance - amount
    /\ Journaled("transaction.completed", "CashDeposit") =>
          /\ req["accept"] = "ok"
          /\ accounts[account] = InitialBalance + amount

\* A cash transaction journaled as failed never moves cash, not even when a
\* device still holds the request after the runtime's timer fired: whatever
\* can still take effect is journaled as requiring reconciliation.
FailedMeansNotMoved ==
    /\ \A t \in Withdrawals : Journaled("transaction.failed", ModuleName(t)) =>
          ~AtLarge("dispense")
    /\ Journaled("transaction.failed", "CashDeposit") => ~AtLarge("accept")

\* No authorization and no cash movement has been asked for.
Untouched == \A k \in {"authorize", "dispense", "accept"} : req[k] = "idle"

AccountsUntouched == accounts = [a \in Accounts |-> InitialBalance]

\* A customer who cancels leaves no authorization and no cash movement behind,
\* and an account only ever changes together with a cash movement.
CancelledMeansUntouched ==
    /\ \A t \in Transactions \cup {NoTransaction} :
          Journaled("transaction.cancelled", t) =>
             Untouched
    /\ ~AccountsUntouched =>
          req["dispense"] = "ok" \/ req["accept"] = "ok"

\* What the journal says of a cash transaction is true of the cash: completed,
\* failed and cancelled each mean what they say (the outcomes the Execute
\* methods journal after callAdapter has settled, timed out or lost a call).
OutcomeTruthful ==
    /\ CompletedMeansMoved
    /\ FailedMeansNotMoved
    /\ CancelledMeansUntouched

\* The dispenser is only asked after the host's approval of this very
\* transaction has been journaled.
DispenseAuthorized ==
    req["dispense"] # "idle" =>
        /\ req["authorize"] = "ok"
        /\ Event("host.authorization_result", Name, "HOST_APPROVED")
              \in Entries(journal)

\* Where a session waits tells all that has happened to money so far: until an
\* Execute method asks for it nothing has, no await follows an outcome, and a
\* receipt is printed either for a withdrawal whose cash is out and debited
\* once, or for a balance (the order of the calls in the Execute methods).
Phase ==
    /\ ~Ended => \A e \in Entries(journal) : e.type \notin TerminalTypes
    /\ pc \in {"load", "getStatus", "readCard"} \cup PromptStates =>
          Untouched /\ AccountsUntouched
    /\ pc = "authorize" =>
          /\ transaction \in Withdrawals
          /\ req["dispense"] = "idle" /\ req["accept"] = "idle"
          /\ AccountsUntouched
    /\ pc = "dispense" =>
          /\ transaction \in Withdrawals
          /\ req["authorize"] = "ok" /\ req["accept"] = "idle"
          /\ AccountsUntouched
    /\ pc = "accept" =>
          /\ transaction = "CashDeposit"
          /\ req["authorize"] = "idle" /\ req["dispense"] = "idle"
          /\ AccountsUntouched
    /\ pc = "print" =>
          \/ /\ transaction \in Withdrawals
             /\ req["authorize"] = "ok" /\ req["dispense"] = "ok"
             /\ req["accept"] = "idle"
             /\ accounts = [a \in Accounts |->
                               IF a = account THEN InitialBalance - amount
                                              ELSE InitialBalance]
          \/ transaction = "BalanceInquiry" /\ Untouched /\ AccountsUntouched

\* The amount by which the customer's requests changed terminal cash.
Moved ==
    (IF req["accept"] = "ok" THEN amount ELSE 0)
        - (IF req["dispense"] = "ok" THEN amount ELSE 0)

\* In the simulated world cash is conserved at every await but the one inside
\* which the adapter has moved the cash and the module has not yet booked it,
\* and the notes in the cash units are worth what the terminal holds (less
\* the deposits that are not recycled), each unit within its capacity.
BooksBalance ==
    /\ (~Remote /\ pc \notin CashMoves /\ transaction \notin AdminTransactions) =>
          /\ cash - InitialCash = Moved
          /\ accounts[account] - InitialBalance = Moved
          /\ \A a \in Accounts \ {account} : accounts[a] = InitialBalance
    /\ \A d \in CashUnits : 0 <= notes[d] /\ notes[d] <= MaxCount
    /\ RecycleDeposits => InventoryTotal(notes) = cash
    /\ InventoryTotal(notes) <= cash

\* A transaction has one outcome: once one is journaled the session writes
\* nothing more.
OneOutcome ==
    [][(\E e \in Entries(journal) : e.type \in TerminalTypes) =>
          UNCHANGED journal]_journal

\* What a device or host did is never undone: once a request took effect or
\* was refused the terminal cannot change that, and no request is repeated.
NoReissue ==
    [][\A k \in Calls : req'[k] # req[k] =>
          \/ req[k] = "idle" /\ req'[k] = "open" /\ pc' = k
          \/ req[k] = "open" /\ req'[k] # "idle"]_req

\* Every module that has called an adapter comes to an end: each call returns,
\* fails or is timed out by callAdapter.
ExecuteEnds ==
    pc \in {"authorize", "dispense", "accept", "print"} ~> Ended
=============================================================================
