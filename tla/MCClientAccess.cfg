CONSTANTS
    Account = {"root", "ops"}
    AgentUser = "root"
    Policy = {p1}
    Rules <- Both
    HostRows <- Rows
    Claims <- Member
    Modes = {"ssh", "export", "config", "web"}
    Letters = {"a", "b"}
    MaxPattern = 5
    MaxName = 5
    Slot = {1}
    SSHTTL = 10
    RelayTTL = 10
    WaitTimeout = 4
    HttpTimeout = 1
    MaxRuns = 1
    MaxAdmin = 1
    MaxFaults = 1
CHECK_DEADLOCK FALSE
SPECIFICATION FairSpec
INVARIANT NothingOnADeadDevice
INVARIANT MatcherIsGlob
PROPERTY DeletionRefuses
PROPERTY FliesWithAKey
PROPERTY RunEnds
