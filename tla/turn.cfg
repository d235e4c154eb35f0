SPECIFICATION TurnSpec
CONSTANTS
    Batches <- MCBatches
    loopCap = 2
    staleMax = 2
    sameArgsMax = 1
    sameFailMax = 1
    maxBloatTrips = 0
    maxRubricRetries = 1
    maxReviewRetries = 1
    historyReplayCap = 3
    Budgets <- MCBudgets
INVARIANTS
    SettledAtEnd
    ReplayWellFormed
    AnswersDisclose
    HistoryMatches
    RoundsAreBounded
CHECK_DEADLOCK FALSE
