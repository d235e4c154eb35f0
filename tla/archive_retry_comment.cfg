SPECIFICATION Spec
CONSTANTS
    r1 = r1  r2 = r2  a = a  b = b
    Msg = {r1, r2}
    Sid = {a}
    NoSid = NoSid
    NoRow = NoRow
    First = First
    Marker = Marker
    HistoryReplayCap = 2
    ArchiveReplayCap = 2
    BatchLimit = 1
    MaxRows = 4
    MaxFaults = 1
INVARIANTS
    RetryIsSafe
CHECK_DEADLOCK FALSE
