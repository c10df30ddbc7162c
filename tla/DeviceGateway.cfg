CONSTANTS
    WireCommands <- MCRetainingCommands
    IndeterminateCommands = {"dispense", "accept", "cash-out"}
    NonIdempotentCommands = {"print", "read-retain"}
SPECIFICATION Spec
INVARIANTS
    RetriedOnlyUnsent
    ThrownOnlyUnsent
PROPERTIES
    IsCashRequest
CHECK_DEADLOCK FALSE
