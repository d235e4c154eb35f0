SPECIFICATION HealthSpec
CONSTANTS
    Entry = {a, b}
    KindOf <- OneKind
    Caller = {c1, c2}
    Budgets <- CallsOrShock
INVARIANTS
    DeadIsProbed
    OneHeartbeat
    OnePagePerOutage
SYMMETRY HealthSymmetry
CHECK_DEADLOCK FALSE
