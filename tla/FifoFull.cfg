SPECIFICATION Spec
CONSTANTS
    Proc = {p1}
    NULL = NULL
    Name = {a}
    Byte = {0, 1}
    MAX_FIFOS = 1
    MAX_FDS = 1
    INT_BITS = 32
    BUF_SIZE = 2
    MaxBytes = 2
    WriteWhenFull = TRUE
INVARIANTS
    WriteReturns
CHECK_DEADLOCK FALSE
