SPECIFICATION Spec
CONSTANTS
    Proc = {p0, p1, p2}
    InitProc = p0
    NULL = NULL
    MAX_PROCESSES = 4
    MaxTicks = 1
    MaxQuantum = 2
    SelfKill = TRUE
PROPERTIES
    KillIsFinal
