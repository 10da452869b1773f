\* The interface object: all interleavings of up to MaxEvents
\* changes of the link with calls of the API and dispatches.
SPECIFICATION FairSpec
CONSTANTS
    Field <- MCField
    Value <- MCValue
    NoAlias <- MCNoAlias
    MtuRange <- MCMtuRange
    Oper <- MCOper
    MaxEvents = 3
    SockCap = 2
    Closed = Closed
INVARIANTS
    TypeOK
    DirtyMask
    CacheCoherent
    WellFormed
    OperTracked
PROPERTIES
    AppliedIsWhole
    NotifKeepsPending
    DispatchCatchesUp
    ImplementsDraft
\* A program that crashed, or one with nothing to do, stops.
CHECK_DEADLOCK FALSE
