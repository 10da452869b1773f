\* Notifications that are disabled, then enabled again.
SPECIFICATION ProgramSpec
CONSTANTS
    Links = 1
INVARIANTS
    EnablesWithSubscriber
CHECK_DEADLOCK FALSE
