SPECIFICATION OverlaySpec
CONSTANTS
    root = root
    e = e
    f = f
    rel = rel
    l1 = l1
    l2 = l2
    m1 = m1
    r1 = r1
    v1 = v1
    v2 = v2
    main = main
    s1 = s1
    s2 = s2
    None = None
    Objects <- MCObjects
    Kind <- MCKind
    Values = {v1, v2}
    Root = root
    SeedObjects = {root, e}
    Branches = {main}
    Mutations = {l1, l2, m1}
    Resolutions = {r1}
    WriteBatches <- MCRemoteBatches
    ManualOperations <- MCManualOperations
    MaxListed = 1
    Main = main
    LocalMutations = {l1, l2}
    StageOps <- MCStageOps
    Stagers = {s1}
    TornAt = {0}
INVARIANT ConflictsReachCloud
CHECK_DEADLOCK FALSE
