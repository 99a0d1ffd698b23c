SPECIFICATION SchemaSpec
CONSTANTS
    p1 = p1
    p2 = p2
    t1 = t1
    t2 = t2
    base = base
    new1 = new1
    new2 = new2
    Processes = {p1, p2}
    Tables = {t1, t2}
    Columns = {base, new1, new2}
    Wants <- TwoVersions
INVARIANTS
    ServingHasColumns
    NotEveryoneLoses
PROPERTY ColumnsOnlyGrow
