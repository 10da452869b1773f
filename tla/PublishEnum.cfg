\* A state of the kernel the leaf has no value for.
SPECIFICATION PSpec
CONSTANTS
    Field <- MCField
    Value <- MCValue
    NoAlias <- MCNoAlias
    MtuRange <- MCMtuRange
    Oper <- MCStackedOper
    MaxEvents = 3
    SockCap = 2
    MaxFailures = 0
INVARIANTS
    Expressible
CHECK_DEADLOCK FALSE
