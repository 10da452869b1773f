\* Every step of the daemon may fail.
SPECIFICATION DaemonSpec
CONSTANTS
    Links = 3
INVARIANTS
    TypeOK
    InOrder
    NothingLeft
PROPERTIES
    FailedEnds
\* The daemon ends.
CHECK_DEADLOCK FALSE
