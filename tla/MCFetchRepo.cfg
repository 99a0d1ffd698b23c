SPECIFICATION FetchSpec
CONSTANTS
    r1 = r1
    r2 = r2
    d0 = d0
    d1 = d1
    m0 = m0
    l0 = l0
    m1 = m1
    l1 = l1
    k0 = k0
    x1 = x1
    NoRepo = NoRepo
    Repos = {r1, r2}
    Archived = {}
    SkipArchived = TRUE
    MaxDebugRepos = 2
    Parallelism = 2
    Feature_Sbom = TRUE
    Dockerfiles = {d0, d1}
    Manifests = {m0, l0, m1, l1, k0, x1}
    LockfilesOf <- SmallLockfilesOf
    Root = {d0, m0, l0, k0}
    Capital = {k0}
    Ignored = {x1}
    Contents <- SmallContents
SYMMETRY RepoSymmetry
CHECK_DEADLOCK FALSE
INVARIANTS
    NothingCutOffIsSaved
    NoFileTwice
    EntryIsComplete
    VerdictIsSound
