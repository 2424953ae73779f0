SPECIFICATION Spec
CONSTANTS
    None = None
    Down = Down
    m1 = m1
    m2 = m2
    m3 = m3
    m4 = m4
    k = k
    v1 = v1
    v2 = v2
    p1 = p1
    p2 = p2
    c1 = c1
    c2 = c2
    MutationIds = {m1, m2, m3, m4}
    Positions = {k}
    Effects = {v1, v2}
    Commands <- MCPairCommands
    Processes = {p1, p2}
    Authorizations = {"unchanged"}
    Calls = {c1, c2}
INVARIANT ResolutionsStorable
CHECK_DEADLOCK FALSE
