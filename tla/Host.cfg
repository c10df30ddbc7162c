CONSTANTS
    Callers = {c1, c2, c3}
    MaxStan = 2
    MaxSerial = 3
    Calls = {a, b}
    Categories = {"approved", "declined"}
    MaxTrace = 2
    LengthBytes = 2
    MaxFrame = 2
SPECIFICATION HostSpec
INVARIANTS
    LockExclusive
    ReusedAfterCycle
    ApprovedByHost
PROPERTIES
    AuthorizeEnds
CHECK_DEADLOCK FALSE
