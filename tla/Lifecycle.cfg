\* Safety across the ends and the starts of the daemon.
SPECIFICATION LFairSpec
CONSTANTS
    Field <- MCField
    Value <- MCValue
    NoAlias <- MCNoAlias
    MtuRange <- MCMtuRange
    Oper <- MCOper
    N = 2
    MaxLeaves = 1
    MaxFaults = 1
    MaxDeaths = 1
INVARIANTS
    LifecycleTypeOK
    InSync
PROPERTIES
    EveryTransactionConcluded
    ImplementsAcrossLives
