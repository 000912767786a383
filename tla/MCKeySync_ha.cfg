CONSTANTS
    m1 = m1  m2 = m2  u1 = u1  u2 = u2  g1 = g1  g2 = g2  g3 = g3
    NoUser = NoUser  NoNode = NoNode
    Node = {m1, m2}
    User = {u1}
    Grant = {g1}
    Legacy = {u1}
    TTL = 1
    MaxTime = 2
    MaxLosses = 1
    MaxKeyChanges = 1
    Revocable = TRUE
    MaxReenroll = 0
CHECK_DEADLOCK FALSE
SPECIFICATION FairSpec
INVARIANT GenerationNamesOneBody
INVARIANT RevocationHolds
PROPERTY Converges
