\* A notification that a request moved to the list is not dispatched.
SPECIFICATION FairSpec
CONSTANTS
    Field <- MCUpField
    Value <- MCValue
    NoAlias <- MCNoAlias
    MtuRange <- MCMtuRange
    Oper <- MCOper
    MaxEvents = 3
    SockCap = 3
    Closed = Closed
PROPERTY OperCatchesUp
CHECK_DEADLOCK FALSE
