SPECIFICATION RbacSpec
CONSTANTS
    boss = boss
    ann = ann
    a = a
    m = m
    admin = admin
    reader = reader
    i1 = i1
    i2 = i2
    d1 = d1
    d2 = d2
    d3 = d3
    s1 = s1
    s2 = s2
    any = any
    none = none
    c1 = c1
    c2 = c2
    red = red
    blue = blue
    rel = rel
    None = none
    Actions = {"read", "assign_user_role", "revoke_user_role"}
    AdminActions = {"assign_user_role", "revoke_user_role"}
    Tags = {red, blue}
    Types = {rel}
    Ids = {}
    MaxDepth = 1
    Users = {boss, ann}
    Agents = {a, m}
    Roles = {admin, reader}
    Assignments = {i1, i2}
    Delegations = {d1, d2, d3}
    SessionIds = {s1, s2}
    AnyAgent = any
    AdminRole = admin
    Holders <- MCHolders
    Delegates <- MCDelegates
    RoleVersions <- MCRoleVersions
    Delegable <- MCDelegable
    MainAgent <- MCMainAgent
    SeedRoles <- MCSeedRoles
    SeedAgents <- MCSeedAgents
    SeedAssignments <- MCSeedAssignments
    SeedDelegations <- MCSeedDelegations
    SeedSessions <- MCSeedSessions
    Callers = {c1, c2}
    MaxDuring = 1
    Requests <- MCRequests
INVARIANTS
    RbacTypeOK
    WatermarkCoversChange
    OneChangeSeenWhole
    AgentWithinOwner
SYMMETRY Symmetry
CHECK_DEADLOCK FALSE
