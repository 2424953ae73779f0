SPECIFICATION GatewaySpec
CONSTANTS
    root = root
    e0 = e0
    b0 = b0
    l = l
    h = h
    hb = hb
    hl = hl
    e1 = e1
    b1 = b1
    l1 = l1
    m1 = m1
    e2 = e2
    b2 = b2
    l2 = l2
    m2 = m2
    c1 = c1
    c2 = c2
    p1 = p1
    w1 = w1
    w1new = w1new
    w1alt = w1alt
    w2 = w2
    w2new = w2new
    w3 = w3
    f1 = f1
    f1new = f1new
    f2 = f2
    g2 = g2
    has = has
    cites = cites
    None = none
    Root = root
    SeedObjects = {root}
    Values = {w1, w1new, w1alt, w2, w2new, w3, f1, f1new, f2, g2, has, cites}
    Objects <- MCObjects
    Kind <- MCKind
    FirstCommits <- MCFirstCommits
    Projectors = {p1}
    MaxCommits = 4
    Callers = {c1, c2}
    Requests <- MCRequests
    NameOf <- MCNameOf
    Alike <- MCAlike
    Has = has
    EntityFor <- MCEntityFor
    Drawn <- MCDrawn
    Legacy = {h}
    Migrated <- MCMigrated
INVARIANTS
    GatewayTypeOK
    CaughtUpStoresAgree
    BranchesReachable
    MigratedUnlessRefused
CHECK_DEADLOCK FALSE
