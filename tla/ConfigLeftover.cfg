\* What a refused transaction leaves behind.
SPECIFICATION Spec
CONSTANTS
    Field <- MCField
    Value <- MCValue
    NoAlias <- MCNoAlias
    MtuRange <- MCMtuRange
    Oper <- MCOper
    N = 1
    MaxLeaves = 2
    MaxFaults = 0
PROPERTIES
    OnlyChangesReflected
