SPECIFICATION Spec
CONSTANTS
    Proc = {p0, p1, p2}
    InitProc = p0
    NULL = NULL
    MAX_PROCESSES = 3
    MaxTicks = 4
    MaxQuantum = 2
    SelfKill = FALSE
PROPERTIES
    WokenWhenDue
