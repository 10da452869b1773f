\* An administrative state that was applied is not published.
SPECIFICATION PSpec
CONSTANTS
    Field <- MCField
    Value <- MCValue
    NoAlias <- MCNoAlias
    MtuRange <- MCMtuRange
    Oper <- MCOper
    MaxEvents = 3
    SockCap = 2
    MaxFailures = 0
INVARIANTS
    AdminReflected
CHECK_DEADLOCK FALSE
