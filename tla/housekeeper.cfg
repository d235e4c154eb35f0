SPECIFICATION FairSpec
CONSTANTS
    a = a  b = b  c = c
    Task = {a, b, c}
    NoTask = NoTask
    Period <- Mixed
    Rank <- Ranks
    FirstRunDelay = 2
    BackoffCap = 3
    IdleCap = 5
    FailCap = 3
INVARIANTS
    SleepsNotTooLong
    QuietAfterStop
PROPERTIES
    NotTooOften
    DueTasksRun
    StopCompletes
