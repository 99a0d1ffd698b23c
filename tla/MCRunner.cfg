SPECIFICATION FairSpec
CONSTANTS
    r1 = r1
    r2 = r2
    r3 = r3
    r4 = r4
    NoRepo = NoRepo
    Repos = {r1, r2, r3, r4}
    Archived = {r4}
    SkipArchived = TRUE
    MaxDebugRepos = 2
    Parallelism = 2
CHECK_DEADLOCK FALSE
INVARIANTS
    TypeOK
    SlotsMatchWorkers
    DebugBudget
    OneStartAfterStop
    FinishedRunIsComplete
    ImportErrorFailsRun
PROPERTIES
    Terminates
    KeepsJobPromise
