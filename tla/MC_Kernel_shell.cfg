SPECIFICATION FairSpec
CONSTANTS
    Launch <- ShellOnly
    MaxTasks = 4
    Calls <- ProgramCalls
    Paths = {"fake_ai.bin"}
    ExitCodes = {0, 7}
    LineLengths = {0, 3}
PROPERTIES
    ReaderReturns
    ExecReturns
