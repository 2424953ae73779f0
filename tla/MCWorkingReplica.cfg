SPECIFICATION Spec
CONSTANTS
    root = root
    e = e
    f = f
    be = be
    bf = bf
    old = old
    cites = cites
    res = res
    chunk = chunk
    open = open
    amended = amended
    secret = secret
    s1 = s1
    None = None
    Objects <- MCObjects
    Kind <- MCKind
    Values = {open, amended, secret}
    Root = root
    SeedObjects = {root}
    Batches <- MCBuilding
    Incoming <- MCIncoming
    Grants <- MCGrants
    FirstGrant <- All
    Scopes <- MCScopes
    Calls = {s1}
    MaxRecords = 3
    MaxVersions = 2
INVARIANTS
    TypeOK
    ReplicaIsAuthorizedView
    ShownAsDecided
    RevisionBaseIsLatest
PROPERTIES
    ReadsAreStampedFresh
    KeepsCatchingUp
CHECK_DEADLOCK FALSE
