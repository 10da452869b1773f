\* Safety of the registry: two interfaces that contend for three strings.
SPECIFICATION Spec
CONSTANTS
    Field <- MCField
    Value <- MCValue
    NoAlias <- MCNoAlias
    MtuRange <- MCMtuRange
    Oper <- MCOper
    Index = {1, 2}
    Bucket = {1, 2}
    Hash <- MCHash
    NoBucket = 0
    Nobody = Nobody
    Crash = Crash
INVARIANTS
    TypeOK
    Findable
    SoleOwner
    LookupExact
    AliasKnown
\* A store told of an object it does not hold, or an empty one, stops.
CHECK_DEADLOCK FALSE
