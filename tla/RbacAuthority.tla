---------------------------- MODULE RbacAuthority ----------------------------
(***************************************************************************)
(* The durable authority for identities and grants                         *)
(* (adapters/libsql/rbac-authority.ts) with the administration that writes *)
(* it (admin-service.ts, onboarding in the gateway, main-agent-session.ts)  *)
(* and the requests that are authenticated and decided from it.            *)
(*                                                                         *)
(* Nothing here is a transaction: a call is a series of statements with    *)
(* other calls between them, and the process may die between any two.  A   *)
(* select that only lists whose watermark to advance is taken together     *)
(* with the statement before it.  There is one root.                       *)
(***************************************************************************)
EXTENDS PolicyEngine, Sequences

CONSTANTS
    Users, Agents, Roles, Assignments, Delegations, SessionIds,
    AnyAgent,       \* a delegation without agentId
    AdminRole,      \* role-root-admin
    Holders,        \* the users and roles an assignment id is used for
    Delegates,      \* the agents, or AnyAgent, and owners a delegation id is used for
    RoleVersions,   \* the permission lists a role is saved with
    Delegable,      \* the permission lists that are delegated
    MainAgent,      \* the agent of each user's own host, or None
    SeedAgents, SeedRoles, SeedAssignments, SeedDelegations, SeedSessions,
    Callers,        \* administrative calls, each made once
    Requests,       \* requests of sessions
    MaxDuring       \* bound: the statements that change a table during a request

VARIABLES
    user, agent, role, assignment, delegation, session, \* the tables
    watermark,  \* rbac_permission_watermarks at the root
    call,       \* the administrative calls
    request,    \* a request on its way
    versioned,  \* history: the grants when the watermark last moved
    possible,   \* history: the request could have been allowed as a whole
    changes     \* history: the statements that changed a table meanwhile

tables == <<user, agent, role, assignment, delegation, session>>
rbacVars == <<tables, watermark, call, request, versioned, possible, changes>>

Subjects == Users \cup Agents

AgentRow == [owner: Users, status: {"active", "disabled"}]
AssignmentRow == [user: Users, role: Roles, status: {"active", "revoked"}]
DelegationRow == [agent: Agents \cup {AnyAgent}, owner: Users,
                  permissions: SUBSET Permission,
                  status: {"active", "revoked"}, expired: BOOLEAN]

\* A token is named by the call that issued it.
Tokens == Callers \cup {SeedSessions[i].token : i \in {j \in SessionIds : SeedSessions[j] # None}}
SessionRow == [token: Tokens, user: Users, agent: Agents \cup {None},
               delegation: Delegations \cup {None}, revoked: BOOLEAN]

ASSUME RbacAssumption ==
    /\ AdminRole \in Roles
    /\ None \notin Users \cup Agents \cup Delegations \cup SessionRow \cup DelegationRow
    /\ AnyAgent \notin Agents
    /\ Holders \in [Assignments -> SUBSET (Users \X Roles)]
    /\ Delegates \in [Delegations -> SUBSET ((Agents \cup {AnyAgent}) \X Users)]
    /\ RoleVersions \in [Roles -> SUBSET (SUBSET Permission)]
    /\ Delegable \subseteq SUBSET Permission
    /\ MainAgent \in [Users -> Optional(Agents)]
    /\ Requests \subseteq Request
    /\ SeedAgents \in [Agents -> Optional(AgentRow)]
    /\ SeedRoles \in [Roles -> SUBSET Permission]
    /\ SeedAssignments \in [Assignments -> Optional(AssignmentRow)]
    /\ SeedDelegations \in [Delegations -> Optional(DelegationRow)]
    /\ SeedSessions \in [SessionIds -> Optional(SessionRow)]
    /\ \A i \in Assignments : SeedAssignments[i] # None =>
            <<SeedAssignments[i].user, SeedAssignments[i].role>> \in Holders[i]
    /\ \A d \in Delegations : SeedDelegations[d] # None =>
            <<SeedDelegations[d].agent, SeedDelegations[d].owner>> \in Delegates[d]
    \* The column of the tokens is unique, and a new token is a random one.
    /\ \A i, j \in SessionIds :
            SeedSessions[i] # None /\ SeedSessions[j] # None
            /\ SeedSessions[i].token = SeedSessions[j].token => i = j
    /\ \A i \in SessionIds : SeedSessions[i] # None => SeedSessions[i].token \notin Callers

\* An assignment id stays with one user and a delegation id with one agent, or
\* with one owner when it names no agent.  The tables let an id be used again
\* for somebody else: no type or assumption, a condition on who writes them.
IdsAreNotReused ==
    /\ \A i \in Assignments : \A g, h \in Holders[i] : g[1] = h[1]
    /\ \A d \in Delegations : \A g, h \in Delegates[d] :
            g[1] = h[1] /\ (g[1] = AnyAgent => g[2] = h[2])

-----------------------------------------------------------------------------
(* What the tables grant.                                                  *)

\* userPermissionsAtRoot.
AssignedRoles(u) ==
    {assignment[i].role : i \in {j \in Assignments : /\ assignment[j] # None
                                                     /\ assignment[j].user = u
                                                     /\ assignment[j].status = "active"}}

PermissionsIn(roles) ==
    UNION {{[permission |-> p, admin |-> r = AdminRole] : p \in role[r]} : r \in roles}

PermissionsOf(u) == PermissionsIn(AssignedRoles(u))

\* listAgentDelegations.
DelegationsOf(a) ==
    {d \in Delegations : delegation[d] # None /\ delegation[d].agent \in {a, AnyAgent}}

InForce(d) == delegation[d].status = "active" /\ ~delegation[d].expired

DelegatedTo(a, owner) ==
    UNION {delegation[d].permissions :
           d \in {e \in DelegationsOf(a) : InForce(e) /\ delegation[e].owner = owner}}

ActiveUser(u) == user[u] = "active"
ActiveAgent(a) == agent[a] # None /\ agent[a].status = "active"

AdminRequest(action) ==
    [action |-> action, tags |-> None, type |-> None, depth |-> None, id |-> None,
     scope |-> None]

\* requireHumanAdmin.
Admin(u, action) ==
    DecideUser(ActiveUser(u), PermissionsOf(u), AdminRequest(action)).allowed

\* What a subject may do, without its delegations' expiry, which the clock and
\* no statement brings.
GrantsOf(s) ==
    IF s \in Users
    THEN IF ActiveUser(s) THEN PermissionsOf(s) ELSE {}
    ELSE IF ~ActiveAgent(s) \/ ~ActiveUser(agent[s].owner) THEN {}
    ELSE PermissionsOf(agent[s].owner)
         \X UNION {delegation[d].permissions :
                   d \in {e \in DelegationsOf(s) : /\ delegation[e].status = "active"
                                                   /\ delegation[e].owner = agent[s].owner}}

-----------------------------------------------------------------------------
(* The histories that the properties look at.                              *)

IdleRequest == [step |-> "idle"]

RowsOf(t) == {i \in SessionIds : session[i] # None /\ session[i].token = t}

\* What the request would be answered with if all the tables were read now.
AllowedWhole ==
    LET rows == {session[i] : i \in RowsOf(request.token)}
        allowed(row) ==
            IF row.agent = None
            THEN DecideUser(ActiveUser(row.user), PermissionsOf(row.user), request.ask).allowed
            ELSE /\ ActiveUser(row.user)
                 /\ ActiveAgent(row.agent) /\ agent[row.agent].owner = row.user
                 /\ row.delegation \in DelegationsOf(row.agent) /\ InForce(row.delegation)
                 /\ DecideAgent(TRUE, PermissionsOf(row.user),
                                DelegatedTo(row.agent, row.user), request.ask).allowed
    IN  \E row \in rows : ~row.revoked /\ allowed(row)

\* What a watermark stands for, and whether the request could have been allowed
\* at one moment since it began.  Part of every action.
Witness ==
    /\ versioned' = [s \in Subjects |->
            IF watermark'[s] # watermark[s] THEN GrantsOf(s)' ELSE versioned[s]]
    /\ IF request' = IdleRequest THEN possible' = FALSE /\ changes' = 0
       ELSE /\ possible' = (possible \/ AllowedWhole')
            /\ changes' = IF tables' = tables THEN changes ELSE changes + 1

-----------------------------------------------------------------------------
(* Statements.  A call is the statements it has left, the subjects whose   *)
(* watermark it still owes an advance, and who makes it.                   *)

Put(table, id, row) == [do |-> "put", table |-> table, id |-> id, row |-> row]
RevokeRow(id, subject) == [do |-> "revoke-session", id |-> id, subject |-> subject]

\* agentIdsOwnedByUserAtRoot: only the agents a delegation names.
NamedAgents(u) ==
    {delegation[d].agent : d \in {e \in Delegations : delegation[e] # None
                                                      /\ delegation[e].owner = u}}
    \ {AnyAgent}

\* Defect: the agents of the user are left out.
UserAlone(u) == {u}

\* advanceUserAtRoot.
UserAtRoot(u) == {u} \cup NamedAgents(u)

\* rootsForUser, rootsForAgent.
UserHasRoot(u) ==
    \/ \E i \in Assignments : assignment[i] # None /\ assignment[i].user = u
    \/ \E d \in Delegations : delegation[d] # None /\ delegation[d].owner = u
AgentHasRoot(a) == DelegationsOf(a) # {}

\* Whose watermark a statement advances, by the tables after it.
Affected(s) ==
    IF s.do = "revoke-session" THEN {s.subject}
    ELSE CASE s.table = "user" -> IF UserHasRoot(s.id) THEN UserAtRoot(s.id) ELSE {}
           [] s.table = "agent" -> IF AgentHasRoot(s.id) THEN {s.id} ELSE {}
           [] s.table = "role" ->
                 UNION {UserAtRoot(assignment[i].user) :
                        i \in {j \in Assignments : assignment[j] # None
                                                   /\ assignment[j].role = s.id}}
           [] s.table = "assignment" -> UserAtRoot(s.row.user)
           [] s.table = "delegation" ->
                 IF s.row.agent = AnyAgent THEN UserAtRoot(s.row.owner) ELSE {s.row.agent}
           [] s.table = "session" ->
                 IF s.row.agent = None THEN {s.row.user} ELSE {}

Written(table, name, s) ==
    IF s.do = "put" /\ s.table = name THEN [table EXCEPT ![s.id] = s.row] ELSE table

Bounded == tables' # tables => changes < MaxDuring

\* The next statement of a call.  Onboarding checks in the middle ("vet").
Perform(c) ==
    /\ call[c].todo # <<>> /\ call[c].due = {}
    /\ \E s \in {Head(call[c].todo)} :
        /\ s.do # "vet"
        /\ user' = Written(user, "user", s)
        /\ agent' = Written(agent, "agent", s)
        /\ role' = Written(role, "role", s)
        /\ assignment' = Written(assignment, "assignment", s)
        /\ delegation' = Written(delegation, "delegation", s)
        /\ session' = IF s.do = "revoke-session"
                      THEN [session EXCEPT ![s.id].revoked = TRUE]
                      ELSE Written(session, "session", s)
        /\ Bounded
        /\ call' = [call EXCEPT ![c].todo = Tail(@), ![c].due = Affected(s)']
    /\ UNCHANGED <<watermark, request>>
    /\ Witness

\* Users are advanced before their agents.
Advance(c) ==
    \E s \in call[c].due :
        /\ call[c].due \cap Users # {} => s \in Users
        /\ watermark' = [watermark EXCEPT ![s] = @ + 1]
        /\ call' = [call EXCEPT ![c].due = @ \ {s}]
        /\ UNCHANGED <<tables, request>>
        /\ Witness

-----------------------------------------------------------------------------
(* Administrative calls: what they check and read first, and the statements *)
(* they then make with what they have read.                                *)

Unused == [state |-> "unused", actor |-> None, todo |-> <<>>, due |-> {}]
Made(u, todo) == [state |-> "made", actor |-> u, todo |-> todo, due |-> {}]

Assigned(h) == [user |-> h[1], role |-> h[2], status |-> "active"]
VetAssignment(i, h) == [do |-> "vet", what |-> "assignment", id |-> i, row |-> Assigned(h)]

\* createUser activates a user there is already; the role is assigned after.
CreateUser(by, u) ==
    IF Admin(by, "assign_user_role")
    THEN {<<Put("user", u, "active")>>}
         \cup UNION {{<<Put("user", u, "active"), VetAssignment(i, h)>> :
                        h \in {g \in Holders[i] : g[1] = u}} : i \in Assignments}
    ELSE {}

DisableUser(by, u) ==
    IF Admin(by, "revoke_user_role") THEN {<<Put("user", u, "disabled")>>} ELSE {}

DisableAgent(by, a) ==
    IF Admin(by, "revoke_user_role") /\ agent[a] # None /\ agent[a].owner = by
    THEN {<<Put("agent", a, [agent[a] EXCEPT !.status = "disabled"])>>} ELSE {}

AssignRole(by, i) ==
    IF Admin(by, "assign_user_role")
    THEN {<<Put("assignment", i, Assigned(h))>> : h \in Holders[i]}
    ELSE {}

\* Defect: the status of users and agents.
DisableAssignment(by, i) ==
    IF Admin(by, "revoke_user_role") /\ assignment[i] # None
    THEN {<<Put("assignment", i, [assignment[i] EXCEPT !.status = "disabled"])>>} ELSE {}

\* revoke reads the record, then writes it back.
RevokeRole(by, i) ==
    IF Admin(by, "revoke_user_role") /\ assignment[i] # None
    THEN {<<Put("assignment", i, [assignment[i] EXCEPT !.status = "revoked"])>>} ELSE {}

DelegationBy(by, a, permissions) ==
    [agent |-> a, owner |-> by, permissions |-> permissions, status |-> "active",
     expired |-> FALSE]

\* ownerPermissions.
Owned(u) == {rp.permission : rp \in PermissionsOf(u)}

DelegatesOf(d, by) == {h[1] : h \in {g \in Delegates[d] : g[2] = by}}

CreateDelegation(by, d) ==
    IF Admin(by, "assign_user_role")
    THEN {<<Put("delegation", d, DelegationBy(by, a, p))>> :
            a \in DelegatesOf(d, by), p \in {q \in Delegable : ValidDelegation(q, Owned(by))}}
    ELSE {}

RevokeDelegation(by, d) ==
    IF Admin(by, "revoke_user_role") /\ delegation[d] # None
    THEN {<<Put("delegation", d, [delegation[d] EXCEPT !.status = "revoked"])>>} ELSE {}

NewAgent(a, u) == Put("agent", a, [owner |-> u, status |-> "active"])
VetDelegation(d, a, permissions) ==
    [do |-> "vet", what |-> "delegation", id |-> d, agent |-> a, permissions |-> permissions]
VetSession(i, a, d) == [do |-> "vet", what |-> "session", id |-> i, agent |-> a, delegation |-> d]

\* onboardAgent: an agent, its delegation and a session for it.
Onboard(by, a) ==
    IF Admin(by, "assign_user_role")
    THEN {<<NewAgent(a, by), VetDelegation(d, a, p), VetSession(i, a, d)>> :
            d \in {e \in Delegations : a \in DelegatesOf(e, by)}, p \in Delegable,
            i \in {j \in SessionIds : session[j] = None}}
    ELSE {}

\* createMainAgentSession does the same for the agent of the user's own host;
\* it delegates what the user has and is no administrator's call.
LogInMainAgent(u) ==
    {<<NewAgent(a, u), VetDelegation(d, a, None), VetSession(i, a, d)>> :
        a \in {MainAgent[u]} \ {None},
        d \in {e \in Delegations : MainAgent[u] \in DelegatesOf(e, u)},
        i \in {j \in SessionIds : session[j] = None}}

\* createUserSessionWithPassword replaces the row of an earlier login.
LogIn(c, u) ==
    IF ActiveUser(u)
    THEN {<<Put("session", i, [token |-> c, user |-> u, agent |-> None,
                               delegation |-> None, revoked |-> FALSE])>> :
            i \in {j \in SessionIds : \/ session[j] = None
                                      \/ session[j].user = u /\ session[j].agent = None}}
    ELSE {}

RevokeSession ==
    {<<RevokeRow(i, IF session[i].agent = None THEN session[i].user ELSE session[i].agent)>> :
        i \in {j \in SessionIds : session[j] # None}}

\* The bootstrap saves the roles of the catalog.
SaveRole(r) == {<<Put("role", r, p)>> : p \in RoleVersions[r]}

Programs(c, u) ==
    UNION ({CreateUser(u, v) : v \in Users} \cup {DisableUser(u, v) : v \in Users}
        \cup {DisableAgent(u, a) : a \in Agents}
        \cup {AssignRole(u, i) : i \in Assignments} \cup {RevokeRole(u, i) : i \in Assignments}
        \cup {CreateDelegation(u, d) : d \in Delegations}
        \cup {RevokeDelegation(u, d) : d \in Delegations}
        \cup {Onboard(u, a) : a \in Agents} \cup {LogInMainAgent(u), LogIn(c, u)})

\* Calls that no user is checked for.
Unchecked == RevokeSession \cup UNION {SaveRole(r) : r \in Roles}

Start(c) ==
    /\ call[c].state = "unused"
    /\ \/ \E u \in Users : \E todo \in Programs(c, u) : call' = [call EXCEPT ![c] = Made(u, todo)]
       \/ \E todo \in Unchecked : call' = [call EXCEPT ![c] = Made(None, todo)]
    /\ UNCHANGED <<tables, watermark, request>>
    /\ Witness

\* The checks between the statements of a call: the services check the
\* administrator again, the host's own delegation is not checked, createSession
\* looks at the rows there are.  What fails leaves the statements before it.
NonAdmin(u) == {p \in Owned(u) : p.action \notin AdminActions}
DelegatedBy(by, s) == IF s.permissions = None THEN NonAdmin(by) ELSE s.permissions

Admissible(by, s) ==
    CASE s.what = "assignment" -> Admin(by, "assign_user_role")
      [] s.what = "delegation" ->
            \/ s.permissions = None
            \/ /\ Admin(by, "assign_user_role")
               /\ ValidDelegation(s.permissions, Owned(by))
      [] s.what = "session" ->
            /\ ActiveUser(by) /\ session[s.id] = None
            /\ ActiveAgent(s.agent) /\ agent[s.agent].owner = by
            /\ s.delegation \in DelegationsOf(s.agent) /\ InForce(s.delegation)

Vetted(c, by, s) ==
    CASE s.what = "assignment" -> Put("assignment", s.id, s.row)
      [] s.what = "delegation" ->
            Put("delegation", s.id, DelegationBy(by, s.agent, DelegatedBy(by, s)))
      [] s.what = "session" ->
            Put("session", s.id, [token |-> c, user |-> by, agent |-> s.agent,
                                  delegation |-> s.delegation, revoked |-> FALSE])

Vet(c) ==
    LET s == Head(call[c].todo)
        by == call[c].actor
    IN  /\ call[c].todo # <<>> /\ call[c].due = {}
        /\ s.do = "vet"
        /\ call' = [call EXCEPT ![c].todo =
                IF Admissible(by, s) THEN <<Vetted(c, by, s)>> \o Tail(@) ELSE <<>>]
        /\ UNCHANGED <<tables, watermark, request>>
        /\ Witness

\* The process dies in a call: the statements left are never made and what it
\* owes stays owed.
Die(c) ==
    /\ call[c].state = "made" /\ (call[c].todo # <<>> \/ call[c].due # {})
    /\ call' = [call EXCEPT ![c].state = "dead", ![c].todo = <<>>]
    /\ UNCHANGED <<tables, watermark, request>>
    /\ Witness

Expire(d) ==
    /\ delegation[d] # None /\ ~delegation[d].expired
    /\ delegation' = [delegation EXCEPT ![d].expired = TRUE]
    /\ UNCHANGED <<user, agent, role, assignment, session, watermark, call, request>>
    /\ Witness
    /\ Bounded

-----------------------------------------------------------------------------
(* A request: the token is authenticated and the policy engine decides, one *)
(* select after the other.  The roles of a user are read side by side, here *)
(* at once.                                                                *)

Begin(ask, t) ==
    /\ request = IdleRequest
    /\ request' = [step |-> "session", ask |-> ask, token |-> t, row |-> None,
                   roles |-> {}, permissions |-> {}]
    /\ UNCHANGED <<tables, watermark, call>>
    /\ Witness

\* Defect: a revoked session still authenticates.
AnyUsable(row) == TRUE

Usable(row) == ~row.revoked

ReadSession ==
    LET found == {session[i] : i \in RowsOf(request.token)}
        next == IF \E row \in found : Usable(row) THEN "user" ELSE "refused"
    IN  /\ request.step = "session"
        /\ request' = [request EXCEPT !.step = next,
                !.row = IF next = "user" THEN CHOOSE row \in found : TRUE ELSE None]
        /\ UNCHANGED <<tables, watermark, call>>
        /\ Witness

\* One select of a request and what it goes on with.
Select(step, holds, next) ==
    /\ request.step = step
    /\ request' = [request EXCEPT !.step = IF holds THEN next ELSE "refused"]
    /\ UNCHANGED <<tables, watermark, call>>
    /\ Witness

OwnAgent == ActiveAgent(request.row.agent) /\ agent[request.row.agent].owner = request.row.user

Authenticate ==
    \/ ReadSession
    \/ Select("user", ActiveUser(request.row.user),
              IF request.row.agent = None THEN "decide-user" ELSE "agent")
    \/ Select("agent", OwnAgent, "delegation")
    \/ Select("delegation",
              /\ request.row.delegation \in DelegationsOf(request.row.agent)
              /\ InForce(request.row.delegation), "decide-agent")

ReadAssignments ==
    /\ request.step = "assignments"
    /\ request' = [request EXCEPT !.step = "roles", !.roles = AssignedRoles(request.row.user)]
    /\ UNCHANGED <<tables, watermark, call>>
    /\ Witness

\* For a user it is the last select: the engine decides.
ReadRoles ==
    LET permissions == PermissionsIn(request.roles)
        allowed == DecideUser(TRUE, permissions, request.ask).allowed
    IN  /\ request.step = "roles"
        /\ request' = [request EXCEPT !.permissions = permissions,
                !.step = IF request.row.agent # None THEN "delegations"
                         ELSE IF allowed THEN "allowed" ELSE "refused"]
        /\ UNCHANGED <<tables, watermark, call>>
        /\ Witness

Decide ==
    \/ Select("decide-agent", OwnAgent, "decide-user")
    \/ Select("decide-user", ActiveUser(request.row.user), "assignments")
    \/ ReadAssignments
    \/ ReadRoles
    \/ Select("delegations",
              DecideAgent(TRUE, request.permissions,
                          DelegatedTo(request.row.agent, request.row.user),
                          request.ask).allowed, "allowed")

Answer ==
    /\ request.step \in {"allowed", "refused"}
    /\ request' = IdleRequest
    /\ UNCHANGED <<tables, watermark, call>>
    /\ Witness

-----------------------------------------------------------------------------
RbacInit ==
    /\ user = [u \in Users |-> "active"]
    /\ agent = SeedAgents
    /\ role = SeedRoles
    /\ assignment = SeedAssignments
    /\ delegation = SeedDelegations
    /\ session = SeedSessions
    /\ watermark = [s \in Subjects |-> 0]
    /\ call = [c \in Callers |-> Unused]
    /\ request = IdleRequest
    /\ versioned = [s \in Subjects |-> GrantsOf(s)]
    /\ possible = FALSE
    /\ changes = 0

RbacNext ==
    \/ \E c \in Callers : Start(c) \/ Perform(c) \/ Advance(c) \/ Vet(c) \/ Die(c)
    \/ \E d \in Delegations : Expire(d)
    \/ \E ask \in Requests, t \in Tokens : Begin(ask, t)
    \/ Authenticate
    \/ Decide
    \/ Answer

RbacSpec == RbacInit /\ [][RbacNext]_rbacVars

-----------------------------------------------------------------------------
(* Correctness.                                                            *)

\* A statement writes a row of its table; "vet" stands for one still to be checked.
PutStatement ==
    [do: {"put"}, table: {"user"}, id: Users, row: {"active", "disabled"}]
    \cup [do: {"put"}, table: {"agent"}, id: Agents, row: AgentRow]
    \cup [do: {"put"}, table: {"role"}, id: Roles, row: SUBSET Permission]
    \cup [do: {"put"}, table: {"assignment"}, id: Assignments, row: AssignmentRow]
    \cup [do: {"put"}, table: {"delegation"}, id: Delegations, row: DelegationRow]
    \cup [do: {"put"}, table: {"session"}, id: SessionIds, row: SessionRow]
    \cup [do: {"revoke-session"}, id: SessionIds, subject: Subjects]

VetStatement ==
    [do: {"vet"}, what: {"assignment"}, id: Assignments, row: AssignmentRow]
    \cup [do: {"vet"}, what: {"delegation"}, id: Delegations, agent: Agents,
          permissions: Optional(SUBSET Permission)]
    \cup [do: {"vet"}, what: {"session"}, id: SessionIds, agent: Agents,
          delegation: Delegations]

\* Only a call of a user has statements to check.
Call ==
    [state: {"unused", "made", "dead"}, actor: Users,
     todo: Seq(PutStatement \cup VetStatement), due: SUBSET Subjects]
    \cup [state: {"unused", "made", "dead"}, actor: {None},
          todo: Seq(PutStatement), due: SUBSET Subjects]

RequestInFlight ==
    [step: {"session", "user", "agent", "delegation", "decide-agent", "decide-user",
            "assignments", "roles", "delegations", "allowed", "refused"},
     ask: Requests, token: Tokens, row: Optional(SessionRow), roles: SUBSET Roles,
     permissions: SUBSET [permission: Permission, admin: BOOLEAN]]

RbacTypeOK ==
    /\ user \in [Users -> {"active", "disabled", None}]
    /\ role \in [Roles -> SUBSET Permission]
    /\ agent \in [Agents -> Optional(AgentRow)]
    /\ assignment \in [Assignments -> Optional(AssignmentRow)]
    /\ delegation \in [Delegations -> Optional(DelegationRow)]
    /\ session \in [SessionIds -> Optional(SessionRow)]
    /\ watermark \in [Subjects -> Nat]
    /\ call \in [Callers -> Call]
    /\ request \in {IdleRequest} \cup RequestInFlight

\* No call owes the subject an advance of its watermark.
Settled(s) == \A c \in Callers : s \notin call[c].due

\* An agent that a delegation of its owner names.
Named(s) == agent[s] # None /\ s \in NamedAgents(agent[s].owner)

\* Whatever statement changes what a subject may do, of the subject, its owner,
\* their roles, assignments or delegations, and however calls overlap, the
\* watermark of the subject moves after it, unless the process dies before
\* (advanceUserAtRoot and its callers): a replica that compares watermarks learns
\* of it.  Only agents that a delegation names are told (NamedAgents).
WatermarkCoversChange ==
    \A s \in Subjects :
        Settled(s) /\ (s \in Users \/ Named(s)) => GrantsOf(s) = versioned[s]

\* A request whose selects a single statement of an administrator comes between
\* is answered as before or as after it: no mixture of the two is allowed what
\* neither is (authenticate, decide).
OneChangeSeenWhole ==
    request.step = "allowed" /\ changes < 2 => possible

\* Of any tables: an agent is allowed nothing its owner is not, and within
\* constraints no wider (decideAgent).
AgentWithinOwner ==
    \A a \in Agents, ask \in Requests :
        LET owner == agent[a].owner
            theirs == DecideAgent(ActiveUser(owner), PermissionsOf(owner),
                                  DelegatedTo(a, owner), ask)
            owners == DecideUser(ActiveUser(owner), PermissionsOf(owner), ask)
        IN  agent[a] # None /\ theirs.allowed =>
                /\ owners.allowed
                /\ ConstraintsAreSubset(theirs.constraints, owners.constraints)
==============================================================================
