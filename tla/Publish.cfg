\* What is published while the kernel, callers and notifications interleave.
SPECIFICATION PSpec
CONSTANTS
    Field <- MCField
    Value <- MCValue
    NoAlias <- MCNoAlias
    MtuRange <- MCMtuRange
    Oper <- MCAllOper
    MaxEvents = 3
    SockCap = 2
    MaxFailures = 1
INVARIANTS
    PublishTypeOK
    PublishedCurrent
\* A daemon with no link and no caller stops.
CHECK_DEADLOCK FALSE
