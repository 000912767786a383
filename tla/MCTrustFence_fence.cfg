CONSTANTS
    n1 = n1  n2 = n2  u1 = u1  u2 = u2  u3 = u3  u4 = u4
    NoId = NoId  InitToken = InitToken
    Node = {n1, n2}
    Writers = {n1, n2}
    Readers = {n1, n2}
    Id = {u1, u2}
    Starts = {"greenfield", "established", "upgrade"}
    MaxCrashes = 1
    MaxFaults = 2
    MaxRestores = 1
SYMMETRY Symmetry
CHECK_DEADLOCK FALSE
SPECIFICATION Spec
INVARIANT PairsAgree
INVARIANT ServingIsMigrated
INVARIANT ReadsAreFresh
INVARIANT RowsAreAnchored
PROPERTY AnchorAdvances
PROPERTY ImplementsTrustedStore
