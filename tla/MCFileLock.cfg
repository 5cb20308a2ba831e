SPECIFICATION FairSpec
CONSTANTS
    timer = timer
    command = command
    cli = cli
    bot = bot
    shell = shell
    NoThread = NoThread
    NoProc = NoProc
    Threads <- MCThreads
    Procs <- MCProcs
    ProcOf <- MCProcOf
INVARIANTS
    LockHeldThroughout
    NoStaleLock
    NothingLeaked
PROPERTIES
    EveryEnterReturns
    ImplementsMutex
