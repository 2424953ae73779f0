SPECIFICATION ResourceSpec
CONSTANTS
    root = root
    r = r
    k1 = k1
    k2 = k2
    k3 = k3
    k4 = k4
    v1 = v1
    v2 = v2
    t1 = t1
    t2 = t2
    c1 = c1
    c2 = c2
    p1 = p1
    None = none
    Root = root
    SeedObjects = {root}
    Values = {v1, v2, t1, t2}
    Objects <- MCObjects
    Kind <- MCKind
    FirstCommits <- MCFirstCommits
    Projectors = {p1}
    Callers = {c1, c2}
    Imported = {v1}
    Revised = {v2}
    Splits <- MCSplits
    ChunkIds <- MCChunkIds
    MaxRevisions = 2
INVARIANTS
    IngestionTypeOK
    CasFirst
    IndexedIsHistory
    IngestedWhole
    RemovedIsUnsearchable
SYMMETRY Symmetry
CHECK_DEADLOCK FALSE
