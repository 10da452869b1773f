\* A lookup by name while another interface is being renamed to it.
SPECIFICATION Spec
CONSTANTS
    Field <- MCField
    Value <- MCValue
    NoAlias <- MCNoAlias
    MtuRange <- MCMtuRange
    Oper <- MCOper
    Index = {1, 2}
    Bucket = {1, 2}
    Hash <- MCHash
    NoBucket = 0
    Nobody = Nobody
    Crash = Crash
INVARIANTS
    OwnerAnswered
CHECK_DEADLOCK FALSE
