\* An apply of an invalid object.
SPECIFICATION Spec
CONSTANTS
    Field <- MCField
    Value <- MCValue
    NoAlias <- MCNoAlias
    MtuRange <- MCMtuRange
    Oper <- MCOper
    N = 2
    MaxLeaves = 2
    MaxFaults = 0
INVARIANTS
    NeverMisused
