SPECIFICATION FailoverSpec
CONSTANTS
    big = big
    mini = mini
    r1 = r1
    r2 = r2
    r3 = r3
    r4 = r4
    NoPin = NoPin
    Model = {big, mini}
    Tags <- MCTags
    Priority <- MCPriority
    Slots <- MCSlots
    queueDepthFactor = 1
    Rules <- MCRules
    Req = {r1,r2,r3,r4}
    Requires <- MCRequires
    Pinned <- MCPinned
    MaxRetries = 1
    MaxTurns = 2
INVARIANTS
    NothingLeaks
PROPERTIES
    NoSilentDowngrade
    RequestsEnd
CHECK_DEADLOCK FALSE
