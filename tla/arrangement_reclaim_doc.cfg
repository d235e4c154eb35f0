SPECIFICATION Spec
CONSTANTS
    m1 = m1  m2 = m2
    Arr = {a}
    Stages = 2
    Members <- Relay
    Slot = {s1, s2}
    MaxItems = 2
    MaxRunning = 1
    MaxPrio = 0
    MaxCalls = 2
    MaxShocks = 1
    None = None
PROPERTIES
    ReclaimsOnlyOrphans
CHECK_DEADLOCK FALSE
