SPECIFICATION Spec
CONSTANTS
    Launch <- ShellAndWorker
    MaxTasks = 4
    Calls <- AllCalls
    Paths = {"shell.bin", "none"}
    ExitCodes = {0, 7}
    LineLengths = {3}
INVARIANTS
    TypeOK
    QueueOrder
    CurrentRuns
    OnlyIdleIsInterrupted
    WaitedChildIsAlive
    ReaderIsRegistered
    ExecReturnsStatus
    NeverHalted
    ContextsOK
PROPERTIES
    TerminatedForGood
    ImplementsProcesses
