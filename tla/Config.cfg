\* Safety of the configuration events.
SPECIFICATION Spec
CONSTANTS
    Field <- MCField
    Value <- MCValue
    NoAlias <- MCNoAlias
    MtuRange <- MCMtuRange
    Oper <- MCOper
    N = 2
    MaxLeaves = 2
    MaxFaults = 1
INVARIANTS
    TypeOK
    ObjectsCoherent
    AcceptedIsApplied
    NothingPending
    RolledBack
    InSync
PROPERTIES
    Implements
