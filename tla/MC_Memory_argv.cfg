SPECIFICATION MemSpec
CONSTANTS
    MemorySize <- SixtySixPages
    ReservedBytes <- ThirtyTwoPages
    Garbage <- ZeroOrOnes
    TableSize = 32
    LastDirectory = 5
    BootTables <- TablesAtBoot
    KernelTables <- TablesOfKernel
    MapFrame = 11
    UserStackBottom = 190
    UserStackTop = 192
    Paths = {"shell.bin", "fake_ai.bin"}
    Builds <- OrdinaryBuild
    Launch <- WorkerThenShell
CHECK_DEADLOCK FALSE
INVARIANTS
    ArgumentsArrive
