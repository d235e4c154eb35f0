SPECIFICATION RushSpec
CONSTANTS
    m1 = m1  m2 = m2  m3 = m3  m4 = m4
    s1 = s1  s2 = s2
    NoSid = NoSid
    Msg = {m1, m2, m3, m4}
    Sid = {s1}
    MaxBatch = 2
    MaxRetry = 1
    MaxRestart = 0
    StoreMayFail = FALSE
    UserOf <- RushUser
    KindOf <- RushKind
    TextOf <- RushText
INVARIANTS
    Conservation
    WalMirrorsTurns
    SenderOrder
PROPERTIES
    OverflowAnnounced
