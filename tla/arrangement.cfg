SPECIFICATION CrowdSpec
CONSTANTS
    m1 = m1  m2 = m2
    Arr = {a}
    Stages = 2
    Members <- AllRounder
    Slot = {s1, s2}
    MaxItems = 2
    MaxRunning = 1
    MaxPrio = 0
    MaxCalls = 3
    MaxShocks = 1
    None = None
INVARIANTS
    ClosedIsSettled
    OneWakePerMember
PROPERTIES
    ItemsSettle
CHECK_DEADLOCK FALSE
