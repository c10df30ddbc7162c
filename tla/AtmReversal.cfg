CONSTANTS
    Accounts = {Checking, Savings}
    DefaultAccount = Checking
    Amounts = {3, 4}
    FastCashAmount = 18
    Unit = 2
    DispenseDenominations <- MCDispense
    AcceptDenominations <- MCAccept
    MaxCount = 4
    MaxTransactionAmount = 40
    InitialInventory <- MCInventory
    DispenseLimit = 24
    DepositLimit = 24
    RecycleDeposits = TRUE
    InitialBalance = 14
    InitialCash = 22
    Remote = TRUE
    FlowMayThrow = FALSE
SPECIFICATION Spec
INVARIANTS
    ApprovalFailureReversed
CHECK_DEADLOCK FALSE
