CONSTANTS
    MaxHosts = 2
    Slot = {1, 2}
    TTL = 1
    MaxClockSkew = 1
    CallTime = 1
    Drift <- Clocks
    Edits = {"healthy", "revoked"}
    MaxTime = 1
    MaxAdmin = 2
    MaxFaults = 1
    MaxBoots = 2
    MaxDeaths = 1
CHECK_DEADLOCK FALSE
SPECIFICATION FairSpec
INVARIANT RevokedNotAdmitted
INVARIANT ReportsTruly
PROPERTY RevocationSticks
PROPERTY FollowsTheDevice
