SPECIFICATION Spec
CONSTANTS
    Proc = {p0, p1, p2, p3}
    InitProc = p0
    NULL = NULL
    MAX_PROCESSES = 4
    MaxTicks = 2
    MaxQuantum = 2
    SelfKill = TRUE
SYMMETRY Pages
INVARIANTS
    IInv
    RingIsOneCycle
    RunnerMayRun
    SleeperWillWake
    ForegroundIsNotParked
PROPERTIES
    KilledStaysKilled
