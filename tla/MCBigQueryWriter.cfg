SPECIFICATION WriterSpec
CONSTANTS
    r1 = r1
    r2 = r2
    NoRepo = NoRepo
    Repos = {r1, r2}
    Archived = {}
    SkipArchived = TRUE
    MaxDebugRepos = 2
    Parallelism = 2
    Feature_Sbom = TRUE
    Entries <- SmallEntries
SYMMETRY RepoSymmetry
CHECK_DEADLOCK FALSE
INVARIANTS
    NoOrphans
    SuccessIsWhole
