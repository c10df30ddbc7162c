CONSTANTS
    Accounts = {Checking}
    Sessions = {s1, s2}
    Conns = {c1}
    MaxFaults = 2
    Scripts <- MCScripts
SPECIFICATION Spec
INVARIANTS
    NoFalseAlarm
    ValidMeansFaithful
    DamageBounded
    ShownMeansPersisted
    ClosedMeansClosed
PROPERTIES
    ShutdownEnds
CHECK_DEADLOCK FALSE
