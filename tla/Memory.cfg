SPECIFICATION Spec
CONSTANTS
    Proc = {q1, q2, q3}
    NULL = NULL
    STACK_SIZE = 6
    MAX_PROCESSES = 2
    MAX_DATA_PAGES = 2
    MaxReserved = 2
    MaxSleeping = 1
    MaxQueued = 3
SYMMETRY Processes
INVARIANTS
    PagesHaveOneUser
    NoPageIsLost
CHECK_DEADLOCK FALSE
