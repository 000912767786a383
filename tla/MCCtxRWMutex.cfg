CONSTANTS
    a = a  b = b  c = c  d = d
    Proc = {a, b, c, d}
    CanRead = {a, b, c, d}
    CanWrite = {a, b, c, d}
SPECIFICATION FairSpec
INVARIANT Counted
INVARIANT SleepersHaveCause
PROPERTY ImplementsRWLock
PROPERTY NobodyStarves
