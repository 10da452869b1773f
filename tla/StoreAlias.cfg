\* A lookup by alias while one is being removed.
SPECIFICATION Spec
CONSTANTS
    Field <- MCField
    Value <- MCValue
    NoAlias <- MCNoAlias
    MtuRange <- MCMtuRange
    Oper <- MCOper
    Index = {1, 2}
    Bucket = {1, 2}
    Hash <- MCHash
    NoBucket = 0
    Nobody = Nobody
    Crash = Crash
INVARIANTS
    AliasedInTable
CHECK_DEADLOCK FALSE
