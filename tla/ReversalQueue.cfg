CONSTANTS
    Callers = {p1, p2}
    r1 = r1
    r2 = r2
    Intents <- MCIntents
    MaxRecords = 2
    MaxEvents = 4
    MaxBatch = 1
SPECIFICATION Spec
SYMMETRY Symmetry
INVARIANTS
    StoreReadable
    QueuedNotLost
    SentAfterAttempt
    SendsOnlyPending
    CompletedMeansAcknowledged
CHECK_DEADLOCK FALSE
