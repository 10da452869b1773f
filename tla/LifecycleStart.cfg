\* What a daemon that starts makes of what is stored.
SPECIFICATION LSpec
CONSTANTS
    Field <- MCField
    Value <- MCValue
    NoAlias <- MCNoAlias
    MtuRange <- MCMtuRange
    Oper <- MCOper
    N = 1
    MaxLeaves = 1
    MaxFaults = 1
    MaxDeaths = 1
PROPERTIES
    IntendedAtStart
