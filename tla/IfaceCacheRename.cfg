\* Renaming an interface that has no alias.
SPECIFICATION Spec
CONSTANTS
    Field <- MCFewFields
    Value <- MCValue
    NoAlias <- MCNoAlias
    MtuRange <- MCMtuRange
    Oper <- MCOper
    MaxEvents = 3
    SockCap = 2
    Closed = Closed
INVARIANT SetNameDefined
CHECK_DEADLOCK FALSE
