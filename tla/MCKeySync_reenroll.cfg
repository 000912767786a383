CONSTANTS
    m1 = m1  m2 = m2  u1 = u1  u2 = u2  g1 = g1  g2 = g2  g3 = g3
    NoUser = NoUser  NoNode = NoNode
    Node = {m1}
    User = {u1}
    Grant = {g1, g2}
    Legacy = {}
    TTL = 1
    MaxTime = 1
    MaxLosses = 0
    MaxKeyChanges = 0
    Revocable = FALSE
    MaxReenroll = 1
CHECK_DEADLOCK FALSE
SPECIFICATION FairSpec
PROPERTY Converges
