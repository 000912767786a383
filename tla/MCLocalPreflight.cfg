CONSTANTS
    Root = {"r1", "r2"}
    Configs <- Deployments
    MaxPods = 3
    MaxSeeds = 2
    MaxCrashes = 2
    MaxWrites = 1
CHECK_DEADLOCK FALSE
SPECIFICATION FairSpec
INVARIANT ModesNeverMix
PROPERTY OpensWhatWasVerified
PROPERTY ComesUp
