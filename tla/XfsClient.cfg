CONSTANTS
    Dispense = Dispense
    Status = Status
    Commands <- MCCommands
    StateChanging <- MCStateChanging
    MaxPending = 2
    MaxAttempts = 2
    MaxSockets = 3
    MaxRounds = 2
SPECIFICATION Spec
INVARIANTS
    SentIsHeard
    ConnectNeverStuck
PROPERTIES
    DispenseIsCashRequest
CHECK_DEADLOCK FALSE
