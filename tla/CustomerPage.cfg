CONSTANTS
    s1 = s1
    s2 = s2
    s3 = s3
    Sessions = {s1, s2, s3}
    PageSessions = {s1, s3}
    MaxSessions = 2
    MaxPrompts <- MCMaxPrompts
    LongWork = FALSE
    HistoryLimit = 2
    MaxEvents = 3
    MaxFaults = 1
    NoSession = none
SPECIFICATION WorldSpec
INVARIANTS
    PromptAnswerable
    AnswersInOrder
    ShownPromptIsPending
PROPERTIES
    DisplayAlone
    AbandonedEnds
    PageNeverStuck
CHECK_DEADLOCK FALSE
