\* A state that a request brought is not published.
SPECIFICATION PSpec
CONSTANTS
    Field <- MCField
    Value <- MCValue
    NoAlias <- MCNoAlias
    MtuRange <- MCMtuRange
    Oper <- MCOper
    MaxEvents = 3
    SockCap = 2
    MaxFailures = 0
INVARIANTS
    OperPublished
CHECK_DEADLOCK FALSE
