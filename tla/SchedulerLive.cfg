SPECIFICATION FairSpec
CONSTANTS
    Proc = {p0, p1, p2}
    InitProc = p0
    NULL = NULL
    MAX_PROCESSES = 3
    MaxTicks = 1
    MaxQuantum = 2
    SelfKill = FALSE
PROPERTIES
    DispatchEnds
    ReadyRuns
    ImplementsProcesses
