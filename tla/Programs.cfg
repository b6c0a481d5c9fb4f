SPECIFICATION Spec
CONSTANTS
    MAX_PHILOSOPHERS = 4
    BUF_SIZE = 6
    ITEM = 2
    MaxSlots = 4
    MAX_PROCESSES = 4
    Command = {f, g}
    MaxChild = 2
    NPages = 3
    Process = {0, 1}
    TableSize = 6
    MAX_COND_VAR = 1
    MAX_MUTEXES = 1
    MAX_FIFOS = 2
    HOURS = 4
    MINUTES = 3
    SECONDS = 3
    West = 2
    East = 3
    Home = 1
    Word = {1, 6}
    Light = {6, 200}
    COLUMNS = 2
    ROWS = 2
    LINE_SIZE = 3
    Char = {"a"}
    Color = {"white"}
    BLOCK = 2
    endOfKernelBinary = 2
    bss = 3
    endOfKernel = 8
    sampleCodeModuleAddress = 9
    sampleDataModuleAddress = 11
    MaxSize = 3
    Cell = {1, 2}
    LINE_BUFFER = 7
    MAX_CMD_SIZE = 6
    MAX_ARGS = 3
    MaxTyped = 7
    CommandName <- Names
INVARIANTS
    NeighboursEatApart
    HungryHasAReason
    SlotsAreConserved
    CommandRunsWhatWasAsked
    EchoIsTheLine
    ModulesAreLoaded
    CallsReachTheirHandlers
    NumbersAreWhatTheySay
    ListsShowWhatStays
    TimeShownIsNotAhead
    RegistersSurvive
    KeyboardComesBack
PROPERTIES
    MarkedLeavesUnsurprised
    NobodyIsLeftWaiting
    CommandGetsTheWords
CHECK_DEADLOCK FALSE
