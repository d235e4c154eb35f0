SPECIFICATION MixSpec
CONSTANTS
    m1 = m1  m2 = m2  m3 = m3  m4 = m4
    s1 = s1  s2 = s2
    NoSid = NoSid
    Msg = {m1, m3}
    Sid = {s1, s2}
    MaxBatch = 1
    MaxRetry = 1
    MaxRestart = 1
    StoreMayFail = TRUE
    UserOf <- MixUser
    KindOf <- MixKind
    TextOf <- MixText
INVARIANTS
    OneTurnPerSession
    BusyHasTurn
    IdleIsClean
PROPERTIES
    ClosingStartsNothing
    ImplementsSerialSessions
    EveryMessageSettles
