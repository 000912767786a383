CONSTANTS
    n1 = n1  n2 = n2
    NoLogin = NoLogin
    Node = {n1, n2}
    Ahead <- Apart
    MaxSids = 2
    Clients = {{"browser"}, {"ctl"}}
    Login = {l1, l2}
    l1 = l1  l2 = l2
    Req = {1, 2}
    TTL = 2
    Retention = 1
    CodeLife = 2
    MaxInterval = 2
    MaxTime = 3
    MaxFaults = 1
CHECK_DEADLOCK FALSE
SPECIFICATION FairSpec
INVARIANT RevokedNotServed
INVARIANT LogoutIsConfirmed
 
PROPERTY LoginEnds
