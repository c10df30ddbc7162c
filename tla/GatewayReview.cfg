CONSTANTS
    WireCommands <- MCRetainingCommands
    IndeterminateCommands = {"dispense", "accept", "cash-out"}
    NonIdempotentCommands = {"print", "read-retain"}
SPECIFICATION Spec
INVARIANTS
    ReviewReported
CHECK_DEADLOCK FALSE
