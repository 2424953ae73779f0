----------------------------- MODULE PolicyEngine -----------------------------
(***************************************************************************)
(* The policy engine (rbac/policy-engine.ts) with the normalisation and    *)
(* the validation of permissions (rbac/permissions.ts, rbac/validation.ts):*)
(* what a request may do, from the roles of a user, the delegations to an   *)
(* agent and the task scope of the session.                                *)
(*                                                                         *)
(* Operators only: module RbacAuthority reads the tables they work on.     *)
(* Lists are sets here, an undefined field is None.  There is one root.    *)
(***************************************************************************)
EXTENDS Naturals, FiniteSets

CONSTANTS
    None,
    Actions,        \* the actions of requests, administrative ones included
    AdminActions,   \* isAdminMemoryAction
    Tags,
    Types,          \* relation types
    Ids,            \* entities and resources a request may name
    MaxDepth        \* of the expansion of relations

ASSUME PolicyEngineAssumption ==
    /\ AdminActions \subseteq Actions
    /\ MaxDepth \in Nat
    /\ None \notin Actions /\ None \notin Types /\ None \notin Ids /\ None \notin 0..MaxDepth
    /\ \A S \in {Tags, Types, Ids} : \A V \in SUBSET S : V # None

Optional(S) == {None} \cup S
Depth == 0..MaxDepth

\* An action stands for the action with its resource kind.
Permission ==
    [action: Actions, tagsAny: Optional(SUBSET Tags), tagsAll: Optional(SUBSET Tags),
     relationTypes: Optional(SUBSET Types), taskScope: Optional(SUBSET Tags)]

Constraint ==
    [allowedTags: Optional(SUBSET Tags), requiredTags: SUBSET Tags,
     deniedTags: SUBSET Tags, allowedTypes: Optional(SUBSET Types),
     depth: Optional(Depth), root: BOOLEAN]

TaskScope ==
    [allowedTags: Optional(SUBSET Tags), deniedTags: SUBSET Tags,
     allowedTypes: Optional(SUBSET Types), depth: Optional(Depth),
     allowedIds: Optional(SUBSET Ids), deniedIds: SUBSET Ids]

\* What is asked, of the root or of one object, under a task scope.
Request ==
    [action: Actions, tags: Optional(SUBSET Tags), type: Optional(Types),
     depth: Optional(Depth), id: Optional(Ids), scope: Optional(TaskScope)]

-----------------------------------------------------------------------------
(* Constraints.  An absent list of required or denied tags is an empty one; *)
(* no permission or scope yields denied relation types or an approval.     *)

Intersection(left, right) ==
    IF left = None THEN right ELSE IF right = None THEN left ELSE left \cap right

Lower(left, right) ==
    IF left = None THEN right ELSE IF right = None THEN left
    ELSE IF left < right THEN left ELSE right

IntersectConstraints(left, right) ==
    [allowedTags |-> Intersection(left.allowedTags, right.allowedTags),
     requiredTags |-> left.requiredTags \cup right.requiredTags,
     deniedTags |-> left.deniedTags \cup right.deniedTags,
     allowedTypes |-> Intersection(left.allowedTypes, right.allowedTypes),
     depth |-> Lower(left.depth, right.depth),
     root |-> left.root /\ right.root]

\* combineAlternativeGrants, field by field over all the grants.
CombineAlternativeGrants(grants) ==
    LET widest(values) == IF None \in values THEN None ELSE UNION values
        common(values) == {t \in Tags : \A v \in values : t \in v}
        highest(values) == IF None \in values THEN None
                           ELSE CHOOSE d \in values : \A c \in values : c <= d
    IN  [allowedTags |-> widest({g.allowedTags : g \in grants}),
         requiredTags |-> common({g.requiredTags : g \in grants}),
         deniedTags |-> common({g.deniedTags : g \in grants}),
         allowedTypes |-> widest({g.allowedTypes : g \in grants}),
         depth |-> highest({g.depth : g \in grants}),
         root |-> \E g \in grants : g.root]

\* normalizePermissionConstraints: a taskScope takes the place of tagsAny.
NormalizePermissionConstraints(p, root) ==
    [allowedTags |-> IF p.taskScope # None THEN p.taskScope ELSE p.tagsAny,
     requiredTags |-> IF p.tagsAll = None THEN {} ELSE p.tagsAll,
     deniedTags |-> {},
     allowedTypes |-> p.relationTypes,
     depth |-> None,
     root |-> root]

TaskScopeConstraints(scope) ==
    [allowedTags |-> scope.allowedTags, requiredTags |-> {},
     deniedTags |-> scope.deniedTags, allowedTypes |-> scope.allowedTypes,
     depth |-> scope.depth, root |-> FALSE]

-----------------------------------------------------------------------------
(* Requests.  tags, relationType, relationDepth and id may be left out.    *)

Within(values, allowed) == values = None \/ allowed = None \/ values \subseteq allowed

RequestWithinConstraints(request, c) ==
    /\ request.action \in AdminActions => c.root
    /\ Within(request.tags, c.allowedTags)
    /\ c.requiredTags # {} => request.tags # None /\ c.requiredTags \subseteq request.tags
    /\ request.tags # None => request.tags \cap c.deniedTags = {}
    /\ request.type # None => Within({request.type}, c.allowedTypes)
    /\ request.depth # None /\ c.depth # None => request.depth <= c.depth

RequestWithinTaskScope(request, scope) ==
    /\ request.id # None =>
        /\ scope.allowedIds # None => request.id \in scope.allowedIds
        /\ request.id \notin scope.deniedIds
    /\ RequestWithinConstraints(request, TaskScopeConstraints(scope))

-----------------------------------------------------------------------------
(* Decisions.  permissions are the [permission, admin] pairs of the user's  *)
(* roles in force, admin for role-root-admin; delegated the permissions of  *)
(* the delegations in force.                                                *)

Denied == [allowed |-> FALSE]
Allowed(grants) == [allowed |-> TRUE, constraints |-> CombineAlternativeGrants(grants)]

RolePermissionConstraints(rp) == NormalizePermissionConstraints(rp.permission, rp.admin)

RoleGrants(permissions, request) ==
    {RolePermissionConstraints(rp) :
        rp \in {q \in permissions : q.permission.action = request.action}}

DelegatedGrants(delegated, request) ==
    {NormalizePermissionConstraints(p, FALSE) :
        p \in {q \in delegated : q.action = request.action}}

\* decideUncached for a user, after the tables have been read.
DecideUser(active, permissions, request) ==
    LET grants == {c \in RoleGrants(permissions, request) :
                    RequestWithinConstraints(request, c)}
        scoped(d) == IF request.scope = None THEN d
                     ELSE [d EXCEPT !.constraints = IntersectConstraints(@,
                                        TaskScopeConstraints(request.scope))]
    IN  IF /\ active
           /\ request.scope # None => RequestWithinTaskScope(request, request.scope)
           /\ grants # {}
        THEN scoped(Allowed(grants))
        ELSE Denied

EffectiveGrants(permissions, delegated, request) ==
    {IntersectConstraints(IntersectConstraints(r, d), TaskScopeConstraints(request.scope)) :
        r \in RoleGrants(permissions, request), d \in DelegatedGrants(delegated, request)}

\* Defect: the delegated permission alone decides.
DecideByDelegation(active, permissions, delegated, request) ==
    LET grants == {c \in DelegatedGrants(delegated, request) :
                    RequestWithinConstraints(request, c)}
    IN  IF active /\ request.scope # None /\ request.action \notin AdminActions
           /\ grants # {}
        THEN Allowed(grants) ELSE Denied

\* decideAgent, after the tables have been read; active is both the agent,
\* owned by the user it claims, and its owner.
DecideAgent(active, permissions, delegated, request) ==
    LET grants == {c \in EffectiveGrants(permissions, delegated, request) :
                    RequestWithinConstraints(request, c)}
    IN  IF /\ active
           /\ request.action \notin AdminActions
           /\ request.scope # None
           /\ RequestWithinTaskScope(request, request.scope)
           /\ grants # {}
        THEN Allowed(grants)
        ELSE Denied

-----------------------------------------------------------------------------
(* validateAgentDelegation.                                                *)

ConstraintsAreSubset(candidate, owner) ==
    LET narrower(c, o) == o # None => c # None /\ c \subseteq o
    IN  /\ candidate.root => owner.root
        /\ narrower(candidate.allowedTags, owner.allowedTags)
        /\ narrower(candidate.allowedTypes, owner.allowedTypes)
        /\ owner.requiredTags \subseteq candidate.requiredTags
        /\ owner.deniedTags \subseteq candidate.deniedTags
        /\ owner.depth # None => candidate.depth # None /\ candidate.depth <= owner.depth

\* Each delegated permission lies within the owner's first one of its action;
\* which is first is the order of the tables, here any.
ValidDelegation(delegated, owned) ==
    /\ delegated # {}
    /\ \A p \in delegated : \E q \in owned :
        /\ q.action = p.action
        /\ ConstraintsAreSubset(NormalizePermissionConstraints(p, FALSE),
                                NormalizePermissionConstraints(q, FALSE))
==============================================================================
