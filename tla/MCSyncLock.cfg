CONSTANTS
    a = a  b = b  c = c
    NoProc = NoProc
    Proc = {a, b, c}
    Sites <- Sound
    MaxGen = 3
    MaxFaults = 3
CHECK_DEADLOCK FALSE
SPECIFICATION FairSpec
PROPERTY SyncNeverRollsBack
PROPERTY CatchesUp
