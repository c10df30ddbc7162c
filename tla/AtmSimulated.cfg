CONSTANTS
    Accounts = {Checking, Savings}
    DefaultAccount = Checking
    Amounts <- MCAmounts
    FastCashAmount = 18
    Unit = 2
    DispenseDenominations <- MCDispense
    AcceptDenominations <- MCAccept
    MaxCount = 4
    MaxTransactionAmount = 40
    InitialInventory <- MCInventory
    DispenseLimit = 24
    DepositLimit = 24
    RecycleDeposits = TRUE
    InitialBalance = 14
    InitialCash = 22
    Remote = FALSE
    FlowMayThrow = TRUE
SPECIFICATION SimulatedSpec
INVARIANTS
    BooksBalance
CHECK_DEADLOCK FALSE
