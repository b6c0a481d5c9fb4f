SPECIFICATION Spec
CONSTANTS
    Proc = {p1, p2, p3}
    NULL = NULL
    PageReuse = FALSE
    MAX_MUTEXES = 1
    MAX_COND_VAR = 1
    MAX_FIFOS = 1
    MAX_FDS = 1
    INT_BITS = 32
    BUF_SIZE = 2
    Name = {NULL}
    Byte = {0, 1}
    MaxBytes = 2
    WriteWhenFull = FALSE
    File = {a, b}
    MaxFiles = 2
    FileBits = 1
    BUFFSIZE = 2
    Char = {"q"}
    NoChar = {"F1"}
    MaxRead = 1
INVARIANTS
    SleeperIsQueued
    MutexSurvivesWaiting
    ReaderIsQueued
    NameHasOneFifo
    KeysInOrder
    ModifiersFollowKeys
PROPERTIES
    SignalsReachEveryone
    ImplementsByteQueues
    KeysEndARead
CHECK_DEADLOCK FALSE
