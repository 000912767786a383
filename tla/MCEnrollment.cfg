CONSTANTS
    m1 = m1  m2 = m2  k1 = k1  k2 = k2  t1 = t1  b1 = b1
    p1 = p1  f1 = f1  f2 = f2
    NoBatch = NoBatch  NoSerial = NoSerial  NoKey = NoKey  NoNode = NoNode
    Key = {k1, k2}
    HostKey = {f1, f2}
    Prefix = {p1}
    Node = {m1, m2}
    Token = {t1}
    Batch = {b1}
    PrefixOf <- OwnPrefix
    HostName <- Names
    Ask <- Contend
    Limit = 2
    MaxLosses = 1
    MaxEdits = 1
CHECK_DEADLOCK FALSE
SPECIFICATION FairSpec
INVARIANT TablesHold
INVARIANT AnswerIsTrue
PROPERTY NoSilentReenrollment
PROPERTY BatchServes
