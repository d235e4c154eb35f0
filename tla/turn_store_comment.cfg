SPECIFICATION TurnSpec
CONSTANTS
    Batches <- MCBatches
    loopCap = 2
    staleMax = 2
    sameArgsMax = 1
    sameFailMax = 1
    maxBloatTrips = 0
    maxRubricRetries = 1
    maxReviewRetries = 1
    historyReplayCap = 3
    Budgets <- MCBudgets
INVARIANT ShownIsStored
CHECK_DEADLOCK FALSE
