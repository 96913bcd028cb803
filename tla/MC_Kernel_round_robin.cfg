SPECIFICATION FairSpec
CONSTANTS
    Launch <- WorkerOnly
    MaxTasks = 2
    Calls <- ProgramCalls
    Paths = {"fake_ai.bin"}
    ExitCodes = {0}
    LineLengths = {3}
PROPERTIES
    RoundRobin
