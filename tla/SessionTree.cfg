\* A reset of the datastore that sysrepo refuses.
SPECIFICATION DaemonSpec
CONSTANTS
    Links = 1
INVARIANTS
    TreeFreedOnce
CHECK_DEADLOCK FALSE
