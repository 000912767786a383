CONSTANTS
    n1 = n1  n2 = n2  u1 = u1  u2 = u2  u3 = u3  u4 = u4
    NoId = NoId  InitToken = InitToken
    Node = {n1, n2}
    Writers = {}
    Readers = {}
    Id = {u1, u2, u3, u4}
    Starts = {"greenfield"}
    MaxCrashes = 0
    MaxFaults = 2
    MaxRestores = 0
CHECK_DEADLOCK FALSE
SPECIFICATION FairSpec
PROPERTY Settles
