SPECIFICATION WriterSpec
CONSTANTS
    r1 = r1
    r2 = r2
    lang = lang
    pkg = pkg
    NoRepo = NoRepo
    RepoRow = RepoRow
    Repos = {r1, r2}
    Children = {lang, pkg}
    NullVersion = {pkg}
    MaxRuns = 2
CHECK_DEADLOCK FALSE
INVARIANT ConnectionHeld
PROPERTIES
    ImportsEnd
    KeepsStorePromise
