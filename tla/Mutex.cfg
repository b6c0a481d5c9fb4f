SPECIFICATION FairSpec
CONSTANTS
    Proc = {p1, p2, p3}
    NULL = NULL
    MAX_MUTEXES = 2
    PageReuse = FALSE
INVARIANTS
    MutualExclusion
    LockedForSomebody
    BlockedIsQueued
PROPERTIES
    ImplementsFifoLock
    WaiterIsServed
CHECK_DEADLOCK FALSE
