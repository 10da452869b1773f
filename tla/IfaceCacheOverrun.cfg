\* A notification the kernel dropped is never made up for.
SPECIFICATION Spec
CONSTANTS
    Field <- MCUpField
    Value <- MCValue
    NoAlias <- MCNoAlias
    MtuRange <- MCMtuRange
    Oper <- MCOper
    MaxEvents = 3
    SockCap = 1
    Closed = Closed
INVARIANT OperTrackedAlways
CHECK_DEADLOCK FALSE
