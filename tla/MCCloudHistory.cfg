SPECIFICATION Spec
CONSTANTS
    root = root
    e1 = e1
    e2 = e2
    rel = rel
    eb1 = eb1
    eb2 = eb2
    m1 = m1
    m2 = m2
    m3 = m3
    m4 = m4
    r1 = r1
    r2 = r2
    v1 = v1
    v2 = v2
    main = main
    None = None
    Objects <- MCObjects
    Kind <- MCKind
    Values = {v1, v2}
    Root = root
    SeedObjects <- MCSeedObjects
    Branches = {main}
    Mutations = {m1, m2, m3}
    Resolutions = {r1, r2}
    WriteBatches <- MCWriteBatches
    ManualOperations <- MCManualOperations
    MaxListed = 2
SYMMETRY MutationSymmetry
INVARIANTS
    TypeOK
    HistoryConsistent
    NoSilentOverwrite
    OneOutcomePerMutation
    ConflictsPreserved
    ResolvedOnce
    ProjectionRebuildable
PROPERTY ResolutionMeaning
CHECK_DEADLOCK FALSE
