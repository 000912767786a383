CONSTANTS
    m1 = m1  m2 = m2  u1 = u1  u2 = u2  g1 = g1  g2 = g2  g3 = g3
    NoUser = NoUser  NoNode = NoNode
    Node = {m1}
    User = {u1}
    Grant = {g1, g2}
    Legacy = {}
    TTL = 2
    MaxTime = 2
    MaxLosses = 1
    MaxKeyChanges = 1
    Revocable = FALSE
    MaxReenroll = 1
SYMMETRY GrantSymmetry
CHECK_DEADLOCK FALSE
SPECIFICATION Spec
INVARIANT FilesHold
PROPERTY PublicationIsCurrent
PROPERTY InstalledIsTrue
PROPERTY KeysNeverRollBack
