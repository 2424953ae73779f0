------------------------------ MODULE RbacProofs ------------------------------
(***************************************************************************)
(* Proofs about the policy engine and the durable authority.               *)
(*                                                                         *)
(* The constraints of a decision are typed, intersecting them narrows what *)
(* a request may do, and so an agent never gets past its owner: first for  *)
(* all permissions, then for every state the tables can reach.  The         *)
(* watermark of a subject moves after whatever changes its grants, and a    *)
(* request that one change overtakes is answered as before or as after it.  *)
(***************************************************************************)
EXTENDS RbacAuthority, TLAPS

RolePermission == [permission: Permission, admin: BOOLEAN]

-----------------------------------------------------------------------------
(* Constraints.                                                            *)

\* None is no set of tags or types, and no depth.
LEMMA NoneIsNoValue ==
    /\ \A V \in SUBSET Tags : V # None
    /\ \A V \in SUBSET Types : V # None
    /\ None \notin Depth /\ Depth \subseteq Nat
BY PolicyEngineAssumption DEF Depth

\* The intersection of two optional lists is one.
LEMMA IntersectionType ==
    ASSUME NEW S, NEW x \in Optional(SUBSET S), NEW y \in Optional(SUBSET S)
    PROVE  Intersection(x, y) \in Optional(SUBSET S)
BY DEF Intersection, Optional

\* A lower bound of depths is typed,
LEMMA LowerType ==
    ASSUME NEW x \in Optional(Depth), NEW y \in Optional(Depth)
    PROVE  Lower(x, y) \in Optional(Depth)
BY DEF Lower, Optional

\* Whatever list is within an intersection is within both lists.
LEMMA IntersectionNarrows ==
    ASSUME NEW S, \A V \in SUBSET S : V # None,
           NEW x \in Optional(SUBSET S), NEW y \in Optional(SUBSET S)
    PROVE  /\ x # None => Intersection(x, y) # None /\ Intersection(x, y) \subseteq x
           /\ y # None => Intersection(x, y) # None /\ Intersection(x, y) \subseteq y
BY DEF Intersection, Optional

\* and below both.
LEMMA LowerNarrows ==
    ASSUME NEW x \in Optional(Depth), NEW y \in Optional(Depth)
    PROVE  /\ x # None => Lower(x, y) # None /\ Lower(x, y) <= x
           /\ y # None => Lower(x, y) # None /\ Lower(x, y) <= y
<1>1. (x # None => x \in Nat) /\ (y # None => y \in Nat)
  BY NoneIsNoValue DEF Optional
<1>2. CASE x = None \/ y = None
  BY <1>1, <1>2 DEF Lower
<1>3. CASE x # None /\ y # None
  BY <1>1, <1>3 DEF Lower
<1> QED BY <1>2, <1>3

\* Intersected constraints are constraints.
LEMMA IntersectConstraintsType ==
    ASSUME NEW x \in Constraint, NEW y \in Constraint
    PROVE  IntersectConstraints(x, y) \in Constraint
<1>1. Intersection(x.allowedTags, y.allowedTags) \in Optional(SUBSET Tags)
  BY IntersectionType DEF Constraint
<1>2. Intersection(x.allowedTypes, y.allowedTypes) \in Optional(SUBSET Types)
  BY IntersectionType DEF Constraint
<1>3. Lower(x.depth, y.depth) \in Optional(Depth)
  BY LowerType DEF Constraint
<1> QED BY <1>1, <1>2, <1>3 DEF IntersectConstraints, Constraint

\* So are those of a permission,
LEMMA NormalizedType ==
    ASSUME NEW p \in Permission, NEW root \in BOOLEAN
    PROVE  NormalizePermissionConstraints(p, root) \in Constraint
BY DEF NormalizePermissionConstraints, Permission, Constraint, Optional

\* those a role grants,
LEMMA RoleGrantType ==
    ASSUME NEW permissions \in SUBSET RolePermission, NEW ask,
           NEW c \in RoleGrants(permissions, ask)
    PROVE  c \in Constraint /\ c.deniedTags = {} /\ c.depth = None
<1>1. PICK rp \in permissions : c = NormalizePermissionConstraints(rp.permission, rp.admin)
  BY DEF RoleGrants, RolePermissionConstraints
<1>2. rp.permission \in Permission /\ rp.admin \in BOOLEAN
  BY DEF RolePermission
<1> QED BY <1>1, <1>2, NormalizedType DEF NormalizePermissionConstraints

\* those a delegation grants,
LEMMA DelegatedGrantType ==
    ASSUME NEW delegated \in SUBSET Permission, NEW ask,
           NEW c \in DelegatedGrants(delegated, ask)
    PROVE  c \in Constraint /\ c.depth = None /\ c.root = FALSE
<1>1. PICK p \in delegated : c = NormalizePermissionConstraints(p, FALSE)
  BY DEF DelegatedGrants
<1> QED BY <1>1, NormalizedType DEF NormalizePermissionConstraints

\* and those of a task.
LEMMA TaskScopeType ==
    ASSUME NEW scope \in TaskScope
    PROVE  TaskScopeConstraints(scope) \in Constraint
BY DEF TaskScopeConstraints, TaskScope, Constraint, Optional

\* What intersectConstraints returns lies within both its arguments.
LEMMA IntersectionIsSubset ==
    ASSUME NEW x \in Constraint, NEW y \in Constraint
    PROVE  /\ ConstraintsAreSubset(IntersectConstraints(x, y), x)
           /\ ConstraintsAreSubset(IntersectConstraints(x, y), y)
<1> DEFINE z == IntersectConstraints(x, y)
<1>1. /\ z.allowedTags = Intersection(x.allowedTags, y.allowedTags)
      /\ z.allowedTypes = Intersection(x.allowedTypes, y.allowedTypes)
      /\ z.depth = Lower(x.depth, y.depth)
      /\ z.requiredTags = x.requiredTags \cup y.requiredTags
      /\ z.deniedTags = x.deniedTags \cup y.deniedTags
      /\ z.root = (x.root /\ y.root)
  BY DEF IntersectConstraints
<1>2. /\ x.allowedTags \in Optional(SUBSET Tags) /\ y.allowedTags \in Optional(SUBSET Tags)
      /\ x.allowedTypes \in Optional(SUBSET Types) /\ y.allowedTypes \in Optional(SUBSET Types)
      /\ x.depth \in Optional(Depth) /\ y.depth \in Optional(Depth)
  BY DEF Constraint
<1> HIDE DEF z
<1>3. /\ x.allowedTags # None => z.allowedTags # None /\ z.allowedTags \subseteq x.allowedTags
      /\ y.allowedTags # None => z.allowedTags # None /\ z.allowedTags \subseteq y.allowedTags
  <2>1. \A V \in SUBSET Tags : V # None
    BY NoneIsNoValue
  <2> QED BY <1>1, <1>2, <2>1, IntersectionNarrows
<1>4. /\ x.allowedTypes # None => z.allowedTypes # None /\ z.allowedTypes \subseteq x.allowedTypes
      /\ y.allowedTypes # None => z.allowedTypes # None /\ z.allowedTypes \subseteq y.allowedTypes
  <2>1. \A V \in SUBSET Types : V # None
    BY NoneIsNoValue
  <2> QED BY <1>1, <1>2, <2>1, IntersectionNarrows
<1>5. /\ x.depth # None => z.depth # None /\ z.depth <= x.depth
      /\ y.depth # None => z.depth # None /\ z.depth <= y.depth
  BY <1>1, <1>2, LowerNarrows
<1>6. /\ x.requiredTags \subseteq z.requiredTags /\ y.requiredTags \subseteq z.requiredTags
      /\ x.deniedTags \subseteq z.deniedTags /\ y.deniedTags \subseteq z.deniedTags
      /\ z.root => x.root /\ y.root
  BY <1>1
<1>7. ConstraintsAreSubset(z, x) /\ ConstraintsAreSubset(z, y)
  BY <1>3, <1>4, <1>5, <1>6 DEF ConstraintsAreSubset
<1> QED BY <1>7 DEF z

\* Being narrower is transitive.
LEMMA SubsetTransitive ==
    ASSUME NEW x \in Constraint, NEW y \in Constraint, NEW z \in Constraint,
           ConstraintsAreSubset(x, y), ConstraintsAreSubset(y, z)
    PROVE  ConstraintsAreSubset(x, z)
<1>1. z.depth # None => x.depth # None /\ x.depth <= z.depth
  <2> SUFFICES ASSUME z.depth # None
               PROVE  x.depth # None /\ x.depth <= z.depth
    OBVIOUS
  <2>1. y.depth # None /\ y.depth <= z.depth
    BY DEF ConstraintsAreSubset
  <2>2. x.depth # None /\ x.depth <= y.depth
    BY <2>1 DEF ConstraintsAreSubset
  <2>3. x.depth \in Nat /\ y.depth \in Nat /\ z.depth \in Nat
    BY <2>1, <2>2, NoneIsNoValue DEF Constraint, Optional
  <2> QED BY <2>1, <2>2, <2>3
<1> QED BY <1>1 DEF ConstraintsAreSubset

\* A request within the narrower of two constraints is within the wider one
\* (requestWithinConstraints).
LEMMA WithinSubset ==
    ASSUME NEW x \in Constraint, NEW y \in Constraint, NEW ask \in Request,
           ConstraintsAreSubset(x, y), RequestWithinConstraints(ask, x)
    PROVE  RequestWithinConstraints(ask, y)
<1>1. /\ Within(ask.tags, x.allowedTags)
      /\ x.requiredTags # {} => ask.tags # None /\ x.requiredTags \subseteq ask.tags
      /\ ask.tags # None => ask.tags \cap x.deniedTags = {}
      /\ ask.type # None => Within({ask.type}, x.allowedTypes)
      /\ ask.action \in AdminActions => x.root
  BY DEF RequestWithinConstraints
<1>2. /\ y.allowedTags # None => x.allowedTags # None /\ x.allowedTags \subseteq y.allowedTags
      /\ y.allowedTypes # None => x.allowedTypes # None /\ x.allowedTypes \subseteq y.allowedTypes
      /\ y.requiredTags \subseteq x.requiredTags
      /\ y.deniedTags \subseteq x.deniedTags
      /\ x.root => y.root
  BY DEF ConstraintsAreSubset
<1>3. Within(ask.tags, y.allowedTags)
  BY <1>1, <1>2 DEF Within
<1>4. ask.type # None => Within({ask.type}, y.allowedTypes)
  <2> SUFFICES ASSUME ask.type # None, {ask.type} # None, y.allowedTypes # None
               PROVE  {ask.type} \subseteq y.allowedTypes
    BY DEF Within
  <2>1. {ask.type} \subseteq x.allowedTypes
    BY <1>1, <1>2 DEF Within
  <2> QED BY <1>2, <2>1
<1>5. ask.depth # None /\ y.depth # None => ask.depth <= y.depth
  <2> SUFFICES ASSUME ask.depth # None, y.depth # None
               PROVE  ask.depth <= y.depth
    OBVIOUS
  <2>1. x.depth # None /\ x.depth <= y.depth
    BY DEF ConstraintsAreSubset
  <2>2. ask.depth <= x.depth
    BY <2>1 DEF RequestWithinConstraints
  <2>3. ask.depth \in Nat /\ x.depth \in Nat /\ y.depth \in Nat
    BY <2>1, NoneIsNoValue DEF Request, Constraint, Optional
  <2> QED BY <2>1, <2>2, <2>3
<1>6. y.requiredTags # {} => ask.tags # None /\ y.requiredTags \subseteq ask.tags
  BY <1>1, <1>2
<1>7. ask.tags # None => ask.tags \cap y.deniedTags = {}
  BY <1>1, <1>2
<1> QED BY <1>1, <1>2, <1>3, <1>4, <1>5, <1>6, <1>7 DEF RequestWithinConstraints

-----------------------------------------------------------------------------
(* Decisions.                                                              *)

\* What an effective grant of an agent keeps of the grant of its owner it was
\* made from, and of the task scope (decideAgent).
LEMMA EffectiveGrant ==
    ASSUME NEW permissions \in SUBSET RolePermission, NEW delegated \in SUBSET Permission,
           NEW ask \in Request, ask.scope # None,
           NEW e \in EffectiveGrants(permissions, delegated, ask)
    PROVE  /\ e \in Constraint
           /\ ~e.root
           /\ e.depth = ask.scope.depth
           /\ ConstraintsAreSubset(e, TaskScopeConstraints(ask.scope))
           /\ \E R \in RoleGrants(permissions, ask) : ConstraintsAreSubset(e, R)
<1>1. PICK R \in RoleGrants(permissions, ask), N \in DelegatedGrants(delegated, ask) :
        e = IntersectConstraints(IntersectConstraints(R, N), TaskScopeConstraints(ask.scope))
  BY DEF EffectiveGrants
<1> DEFINE T == TaskScopeConstraints(ask.scope)
           RN == IntersectConstraints(R, N)
<1>2. /\ R \in Constraint /\ N \in Constraint /\ T \in Constraint
  <2>1. ask.scope \in TaskScope
    BY DEF Request, Optional
  <2> QED BY <2>1, RoleGrantType, DelegatedGrantType, TaskScopeType
<1>3. /\ R.depth = None /\ N.depth = None /\ T.depth = ask.scope.depth
      /\ N.root = FALSE
  BY RoleGrantType, DelegatedGrantType DEF TaskScopeConstraints
<1>4. /\ RN \in Constraint
      /\ RN.depth = None
      /\ ConstraintsAreSubset(RN, R) /\ ConstraintsAreSubset(RN, N)
  <2>1. RN.depth = Lower(R.depth, N.depth)
    BY DEF IntersectConstraints
  <2> QED BY <1>2, <1>3, <2>1, IntersectConstraintsType, IntersectionIsSubset DEF Lower
<1>5. e = IntersectConstraints(RN, T)
  BY <1>1
<1> HIDE DEF T, RN
<1>6. /\ e \in Constraint
      /\ ConstraintsAreSubset(e, RN) /\ ConstraintsAreSubset(e, T)
  BY <1>2, <1>4, <1>5, IntersectConstraintsType, IntersectionIsSubset
<1>7. e.depth = ask.scope.depth
  <2>1. e.depth = Lower(RN.depth, T.depth)
    BY <1>5 DEF IntersectConstraints
  <2> QED BY <1>3, <1>4, <2>1 DEF Lower
<1>8. ConstraintsAreSubset(e, R) /\ ConstraintsAreSubset(e, N)
  BY <1>2, <1>4, <1>6, SubsetTransitive
<1>9. ~e.root
  BY <1>3, <1>8 DEF ConstraintsAreSubset
<1> QED BY <1>1, <1>6, <1>7, <1>8, <1>9 DEF T

\* Narrower grants combine to narrower constraints: the combination of the
\* effective grants against that of the owner's under the task scope
\* (combineAlternativeGrants).
LEMMA CombinedIsSubset ==
    ASSUME NEW G \in SUBSET Constraint, NEW E \in SUBSET Constraint, NEW scope \in TaskScope,
           G # {}, E # {},
           \A g \in G : g.deniedTags = {} /\ g.depth = None,
           \A e \in E : /\ ~e.root
                        /\ e.depth = scope.depth
                        /\ ConstraintsAreSubset(e, TaskScopeConstraints(scope))
                        /\ \E g \in G : ConstraintsAreSubset(e, g)
    PROVE  ConstraintsAreSubset(
                CombineAlternativeGrants(E),
                IntersectConstraints(CombineAlternativeGrants(G), TaskScopeConstraints(scope)))
<1> DEFINE CE == CombineAlternativeGrants(E)
           CG == CombineAlternativeGrants(G)
           T == TaskScopeConstraints(scope)
           O == IntersectConstraints(CG, T)
<1>1. CE.root = FALSE
  BY DEF CombineAlternativeGrants
<1>2. O.allowedTags # None => CE.allowedTags # None /\ CE.allowedTags \subseteq O.allowedTags
  <2> DEFINE VE == {g.allowedTags : g \in E}
             VG == {g.allowedTags : g \in G}
  <2>1. /\ CE.allowedTags = IF None \in VE THEN None ELSE UNION VE
        /\ CG.allowedTags = IF None \in VG THEN None ELSE UNION VG
        /\ O.allowedTags = Intersection(CG.allowedTags, T.allowedTags)
    BY DEF CombineAlternativeGrants, IntersectConstraints
  <2>2. \A e \in E : /\ e.allowedTags \in Optional(SUBSET Tags)
                     /\ T.allowedTags # None
                        => e.allowedTags # None /\ e.allowedTags \subseteq T.allowedTags
                     /\ \E g \in G : g.allowedTags # None
                        => e.allowedTags # None /\ e.allowedTags \subseteq g.allowedTags
    BY ZenonT(60) DEF Constraint, ConstraintsAreSubset
  <2>3. T.allowedTags # None => None \notin VE /\ UNION VE \subseteq T.allowedTags
    BY <2>2
  <2>4. None \notin VG => None \notin VE /\ UNION VE \subseteq UNION VG
    BY <2>2
  <2>5. None \notin VE => UNION VE \in SUBSET Tags
    BY <2>2 DEF Optional
  <2>6. None \notin VE => UNION VE # None
    BY <2>5, NoneIsNoValue
  <2> HIDE DEF VE, VG, CE, CG, T, O
  <2> QED BY <2>1, <2>3, <2>4, <2>6 DEF Intersection
<1>3. O.allowedTypes # None => CE.allowedTypes # None /\ CE.allowedTypes \subseteq O.allowedTypes
  <2> DEFINE VE == {g.allowedTypes : g \in E}
             VG == {g.allowedTypes : g \in G}
  <2>1. /\ CE.allowedTypes = IF None \in VE THEN None ELSE UNION VE
        /\ CG.allowedTypes = IF None \in VG THEN None ELSE UNION VG
        /\ O.allowedTypes = Intersection(CG.allowedTypes, T.allowedTypes)
    BY DEF CombineAlternativeGrants, IntersectConstraints
  <2>2. \A e \in E : /\ e.allowedTypes \in Optional(SUBSET Types)
                     /\ T.allowedTypes # None
                        => e.allowedTypes # None /\ e.allowedTypes \subseteq T.allowedTypes
                     /\ \E g \in G : g.allowedTypes # None
                        => e.allowedTypes # None /\ e.allowedTypes \subseteq g.allowedTypes
    BY ZenonT(60) DEF Constraint, ConstraintsAreSubset
  <2>3. T.allowedTypes # None => None \notin VE /\ UNION VE \subseteq T.allowedTypes
    BY <2>2
  <2>4. None \notin VG => None \notin VE /\ UNION VE \subseteq UNION VG
    BY <2>2
  <2>5. None \notin VE => UNION VE \in SUBSET Types
    BY <2>2 DEF Optional
  <2>6. None \notin VE => UNION VE # None
    BY <2>5, NoneIsNoValue
  <2> HIDE DEF VE, VG, CE, CG, T, O
  <2> QED BY <2>1, <2>3, <2>4, <2>6 DEF Intersection
<1>4. O.requiredTags \subseteq CE.requiredTags
  <2>1. /\ O.requiredTags = CG.requiredTags
        /\ CG.requiredTags = {t \in Tags : \A V \in {g.requiredTags : g \in G} : t \in V}
        /\ CE.requiredTags = {t \in Tags : \A V \in {g.requiredTags : g \in E} : t \in V}
    BY DEF CombineAlternativeGrants, IntersectConstraints, TaskScopeConstraints
  <2>2. \A e \in E : \E g \in G : g.requiredTags \subseteq e.requiredTags
    BY DEF ConstraintsAreSubset
  <2> QED BY <2>1, <2>2
<1>5. O.deniedTags \subseteq CE.deniedTags
  <2>1. /\ O.deniedTags = CG.deniedTags \cup T.deniedTags
        /\ CG.deniedTags = {t \in Tags : \A V \in {g.deniedTags : g \in G} : t \in V}
        /\ CE.deniedTags = {t \in Tags : \A V \in {g.deniedTags : g \in E} : t \in V}
    BY DEF CombineAlternativeGrants, IntersectConstraints
  <2>2. CG.deniedTags = {}
    BY <2>1
  <2>3. \A e \in E : T.deniedTags \subseteq e.deniedTags
    BY DEF ConstraintsAreSubset
  <2>4. T.deniedTags \subseteq Tags
    BY TaskScopeType DEF Constraint
  <2> QED BY <2>1, <2>2, <2>3, <2>4
<1>6. O.depth # None => CE.depth # None /\ CE.depth <= O.depth
  <2> SUFFICES ASSUME O.depth # None
               PROVE  CE.depth # None /\ CE.depth <= O.depth
    OBVIOUS
  <2> DEFINE VE == {g.depth : g \in E}
             VG == {g.depth : g \in G}
  <2>1. /\ CE.depth = IF None \in VE THEN None ELSE CHOOSE d \in VE : \A c \in VE : c <= d
        /\ CG.depth = IF None \in VG THEN None ELSE CHOOSE d \in VG : \A c \in VG : c <= d
        /\ O.depth = Lower(CG.depth, T.depth)
    BY DEF CombineAlternativeGrants, IntersectConstraints
  <2>2. None \in VG
    OBVIOUS
  <2>3. O.depth = scope.depth
    <3>1. CG.depth = None
      BY <2>1, <2>2
    <3>2. T.depth = scope.depth
      BY DEF TaskScopeConstraints
    <3> HIDE DEF CG, T, O
    <3> QED BY <2>1, <3>1, <3>2 DEF Lower
  <2>4. scope.depth \in Nat /\ scope.depth # None
    BY <2>3, NoneIsNoValue DEF TaskScope, Optional
  <2>5. VE = {scope.depth}
    OBVIOUS
  <2>6. CE.depth = scope.depth
    <3>1. None \notin VE
      BY <2>4, <2>5
    <3>2. \E d \in VE : \A c \in VE : c <= d
      BY <2>4, <2>5
    <3>3. (CHOOSE d \in VE : \A c \in VE : c <= d) \in VE
      BY <3>2
    <3> HIDE DEF VE, VG, CE, CG
    <3> QED BY <2>1, <2>5, <3>1, <3>3
  <2> QED BY <2>3, <2>4, <2>6
<1> HIDE DEF CE, O
<1>7. ConstraintsAreSubset(CE, O)
  BY <1>1, <1>2, <1>3, <1>4, <1>5, <1>6 DEF ConstraintsAreSubset
<1> QED BY <1>7 DEF CE, O, CG, T

\* For any permissions of an owner and any delegated permissions, an agent that
\* is allowed a request acts within what its owner is allowed of it
\* (decideAgent against decide).
THEOREM AgentDecision ==
    ASSUME NEW permissions \in SUBSET RolePermission, NEW delegated \in SUBSET Permission,
           NEW ask \in Request, NEW active \in BOOLEAN,
           DecideAgent(active, permissions, delegated, ask).allowed
    PROVE  /\ DecideUser(active, permissions, ask).allowed
           /\ ConstraintsAreSubset(
                DecideAgent(active, permissions, delegated, ask).constraints,
                DecideUser(active, permissions, ask).constraints)
<1> DEFINE G == {c \in RoleGrants(permissions, ask) : RequestWithinConstraints(ask, c)}
           E == {c \in EffectiveGrants(permissions, delegated, ask) :
                    RequestWithinConstraints(ask, c)}
           T == TaskScopeConstraints(ask.scope)
<1>1. /\ active
      /\ ask.action \notin AdminActions
      /\ ask.scope # None
      /\ RequestWithinTaskScope(ask, ask.scope)
      /\ E # {}
      /\ DecideAgent(active, permissions, delegated, ask) = Allowed(E)
  BY DEF DecideAgent, Denied
<1>2. ask.scope \in TaskScope
  BY <1>1 DEF Request, Optional
<1>3. \A g \in G : g \in Constraint /\ g.deniedTags = {} /\ g.depth = None
  BY RoleGrantType
<1>4. \A e \in E :
        /\ e \in Constraint
        /\ ~e.root
        /\ e.depth = ask.scope.depth
        /\ ConstraintsAreSubset(e, T)
        /\ \E g \in G : ConstraintsAreSubset(e, g)
  <2> SUFFICES ASSUME NEW e \in E
               PROVE  /\ e \in Constraint
                      /\ ~e.root
                      /\ e.depth = ask.scope.depth
                      /\ ConstraintsAreSubset(e, T)
                      /\ \E g \in G : ConstraintsAreSubset(e, g)
    OBVIOUS
  <2>1. /\ e \in EffectiveGrants(permissions, delegated, ask)
        /\ RequestWithinConstraints(ask, e)
    OBVIOUS
  <2>2. /\ e \in Constraint
        /\ ~e.root
        /\ e.depth = ask.scope.depth
        /\ ConstraintsAreSubset(e, T)
        /\ \E R \in RoleGrants(permissions, ask) : ConstraintsAreSubset(e, R)
    BY <1>1, <2>1, EffectiveGrant
  <2>3. PICK R \in RoleGrants(permissions, ask) : ConstraintsAreSubset(e, R)
    BY <2>2
  <2>4. R \in Constraint
    BY RoleGrantType
  <2>5. RequestWithinConstraints(ask, R)
    BY <2>1, <2>2, <2>3, <2>4, WithinSubset
  <2>6. R \in G
    BY <2>5
  <2> QED BY <2>2, <2>3, <2>6
<1>5. G # {}
  BY <1>1, <1>4
<1>6. DecideUser(active, permissions, ask)
        = [Allowed(G) EXCEPT !.constraints = IntersectConstraints(@, T)]
  BY <1>1, <1>5 DEF DecideUser
<1>7. /\ DecideUser(active, permissions, ask).allowed
      /\ DecideUser(active, permissions, ask).constraints
            = IntersectConstraints(CombineAlternativeGrants(G), T)
  BY <1>6 DEF Allowed
<1>8. DecideAgent(active, permissions, delegated, ask).constraints = CombineAlternativeGrants(E)
  <2>1. Allowed(E).constraints = CombineAlternativeGrants(E)
    BY DEF Allowed
  <2>2. DecideAgent(active, permissions, delegated, ask) = Allowed(E)
    BY <1>1
  <2> QED BY <2>1, <2>2, Zenon
<1> HIDE DEF G, E
<1>9. ConstraintsAreSubset(CombineAlternativeGrants(E),
                           IntersectConstraints(CombineAlternativeGrants(G), T))
  BY <1>1, <1>2, <1>3, <1>4, <1>5, CombinedIsSubset
<1> QED BY <1>7, <1>8, <1>9

-----------------------------------------------------------------------------
(* States.                                                                 *)

\* Typed tables grant typed permissions.
LEMMA GrantsTyped ==
    ASSUME RbacTypeOK
    PROVE  /\ \A u : PermissionsOf(u) \in SUBSET RolePermission
           /\ \A u : AssignedRoles(u) \in SUBSET Roles
           /\ \A a, u : DelegatedTo(a, u) \in SUBSET Permission
           /\ \A roles \in SUBSET Roles : PermissionsIn(roles) \in SUBSET RolePermission
<1>1. \A roles \in SUBSET Roles : PermissionsIn(roles) \in SUBSET RolePermission
  <2> SUFFICES ASSUME NEW roles \in SUBSET Roles, NEW rp \in PermissionsIn(roles)
               PROVE  rp \in RolePermission
    OBVIOUS
  <2>1. PICK r \in roles : rp \in {[permission |-> p, admin |-> r = AdminRole] : p \in role[r]}
    BY DEF PermissionsIn
  <2>2. PICK p \in role[r] : rp = [permission |-> p, admin |-> r = AdminRole]
    BY <2>1
  <2>3. role[r] \subseteq Permission
    BY DEF RbacTypeOK
  <2> QED BY <2>2, <2>3 DEF RolePermission
<1>2. \A u : AssignedRoles(u) \in SUBSET Roles
  BY DEF AssignedRoles, RbacTypeOK, AssignmentRow, Optional
<1>3. \A a, u : DelegatedTo(a, u) \in SUBSET Permission
  <2> SUFFICES ASSUME NEW a, NEW u, NEW p \in DelegatedTo(a, u)
               PROVE  p \in Permission
    OBVIOUS
  <2>1. PICK d \in DelegationsOf(a) : p \in delegation[d].permissions
    BY DEF DelegatedTo
  <2>2. d \in Delegations /\ delegation[d] # None
    BY DEF DelegationsOf
  <2>3. delegation[d] \in DelegationRow
    BY <2>2 DEF RbacTypeOK, Optional
  <2> QED BY <2>1, <2>3 DEF DelegationRow
<1> QED BY <1>1, <1>2, <1>3 DEF PermissionsOf

\* In every typed state an agent acts within its owner.
LEMMA TypedAgentWithinOwner == RbacTypeOK => AgentWithinOwner
<1> SUFFICES ASSUME RbacTypeOK, NEW a \in Agents, NEW ask \in Requests,
                    DecideAgent(ActiveUser(agent[a].owner), PermissionsOf(agent[a].owner),
                                DelegatedTo(a, agent[a].owner), ask).allowed
             PROVE  /\ DecideUser(ActiveUser(agent[a].owner), PermissionsOf(agent[a].owner),
                                  ask).allowed
                    /\ ConstraintsAreSubset(
                        DecideAgent(ActiveUser(agent[a].owner), PermissionsOf(agent[a].owner),
                                    DelegatedTo(a, agent[a].owner), ask).constraints,
                        DecideUser(ActiveUser(agent[a].owner), PermissionsOf(agent[a].owner),
                                   ask).constraints)
  BY DEF AgentWithinOwner
<1> DEFINE owner == agent[a].owner
<1>1. ask \in Request
  BY RbacAssumption
<1>2. /\ PermissionsOf(owner) \in SUBSET RolePermission
      /\ DelegatedTo(a, owner) \in SUBSET Permission
  BY GrantsTyped
<1>3. ActiveUser(owner) \in BOOLEAN
  BY DEF ActiveUser
<1> HIDE DEF owner
<1>4. DecideAgent(ActiveUser(owner), PermissionsOf(owner), DelegatedTo(a, owner), ask).allowed
  BY DEF owner
<1>5. /\ DecideUser(ActiveUser(owner), PermissionsOf(owner), ask).allowed
      /\ ConstraintsAreSubset(
            DecideAgent(ActiveUser(owner), PermissionsOf(owner), DelegatedTo(a, owner),
                        ask).constraints,
            DecideUser(ActiveUser(owner), PermissionsOf(owner), ask).constraints)
  BY <1>1, <1>2, <1>3, <1>4, AgentDecision
<1> QED BY <1>5 DEF owner

-----------------------------------------------------------------------------
(* Statements and calls.                                                   *)

Statement == PutStatement \cup VetStatement

TablesOK ==
    /\ user \in [Users -> {"active", "disabled", None}]
    /\ role \in [Roles -> SUBSET Permission]
    /\ agent \in [Agents -> Optional(AgentRow)]
    /\ assignment \in [Assignments -> Optional(AssignmentRow)]
    /\ delegation \in [Delegations -> Optional(DelegationRow)]
    /\ session \in [SessionIds -> Optional(SessionRow)]

\* A session is revoked by its id: the row a statement names has been there
\* since it was read, for no statement deletes one.
Doable == {s \in Statement : s.do = "revoke-session" => session[s.id] # None}

RbacInv ==
    /\ RbacTypeOK
    /\ \A c \in Callers : call[c].todo \in Seq(Doable)

\* What the fields of a typed statement are, table by table.
LEMMA StatementFields ==
    /\ \A s \in PutStatement :
        /\ s.do \in {"put", "revoke-session"}
        /\ s.do = "put" =>
            /\ s.table \in {"user", "agent", "role", "assignment", "delegation", "session"}
            /\ s.table = "user" => s.id \in Users /\ s.row \in {"active", "disabled"}
            /\ s.table = "agent" => s.id \in Agents /\ s.row \in AgentRow
            /\ s.table = "role" => s.id \in Roles /\ s.row \in SUBSET Permission
            /\ s.table = "assignment" => s.id \in Assignments /\ s.row \in AssignmentRow
            /\ s.table = "delegation" => s.id \in Delegations /\ s.row \in DelegationRow
            /\ s.table = "session" => s.id \in SessionIds /\ s.row \in SessionRow
        /\ s.do = "revoke-session" => s.id \in SessionIds /\ s.subject \in Subjects
    /\ \A s \in VetStatement :
        /\ s.do = "vet" /\ s.what \in {"assignment", "delegation", "session"}
        /\ s.what = "assignment" => s.id \in Assignments /\ s.row \in AssignmentRow
        /\ s.what = "delegation" =>
            /\ s.id \in Delegations /\ s.agent \in Agents
            /\ s.permissions \in Optional(SUBSET Permission)
        /\ s.what = "session" =>
            s.id \in SessionIds /\ s.agent \in Agents /\ s.delegation \in Delegations
BY DEF PutStatement, VetStatement

\* Typed rows make typed statements.
LEMMA PutTyped ==
    /\ \A id \in Users, row \in {"active", "disabled"} : Put("user", id, row) \in PutStatement
    /\ \A id \in Agents, row \in AgentRow : Put("agent", id, row) \in PutStatement
    /\ \A id \in Roles, row \in SUBSET Permission : Put("role", id, row) \in PutStatement
    /\ \A id \in Assignments, row \in AssignmentRow : Put("assignment", id, row) \in PutStatement
    /\ \A id \in Delegations, row \in DelegationRow : Put("delegation", id, row) \in PutStatement
    /\ \A id \in SessionIds, row \in SessionRow : Put("session", id, row) \in PutStatement
    /\ \A id \in SessionIds, s \in Subjects : RevokeRow(id, s) \in PutStatement
BY DEF Put, RevokeRow, PutStatement

\* A step of a call keeps its kind.
LEMMA CallStep ==
    ASSUME NEW k \in Call, NEW todo, NEW due \in SUBSET Subjects,
           todo \in Seq(Statement),
           k.actor \notin Users => todo \in Seq(PutStatement)
    PROVE  /\ [k EXCEPT !.todo = todo, !.due = due] \in Call
           /\ [k EXCEPT !.todo = todo] \in Call
BY RbacAssumption DEF Call, Statement

\* Whose watermarks a statement advances, whatever the tables.
AffectsSubjects == \A s \in PutStatement : Affected(s) \in SUBSET Subjects

\* The subjects of a statement are users and agents.
LEMMA AffectedTyped == TablesOK => AffectsSubjects
<1> SUFFICES ASSUME TablesOK, NEW s \in PutStatement
             PROVE  Affected(s) \in SUBSET Subjects
  BY DEF AffectsSubjects
<1>1. \A u \in Users : UserAtRoot(u) \in SUBSET Subjects
  BY DEF UserAtRoot, NamedAgents, TablesOK, DelegationRow, Optional, Subjects
<1>2. CASE s.do = "revoke-session"
  BY <1>2, StatementFields DEF Affected
<1>3. CASE s.do = "put" /\ s.table = "user"
  BY <1>1, <1>3, StatementFields DEF Affected
<1>4. CASE s.do = "put" /\ s.table = "agent"
  BY <1>4, StatementFields DEF Affected, Subjects
<1>5. CASE s.do = "put" /\ s.table = "role"
  <2>1. Affected(s) = UNION {UserAtRoot(assignment[i].user) :
                              i \in {j \in Assignments : /\ assignment[j] # None
                                                         /\ assignment[j].role = s.id}}
    BY <1>5 DEF Affected
  <2>2. \A j \in Assignments : assignment[j] # None => assignment[j].user \in Users
    BY DEF TablesOK, AssignmentRow, Optional
  <2> QED BY <1>1, <2>1, <2>2
<1>6. CASE s.do = "put" /\ s.table = "assignment"
  <2>1. s.row.user \in Users
    BY <1>6, StatementFields DEF AssignmentRow
  <2> QED BY <1>1, <1>6, <2>1 DEF Affected
<1>7. CASE s.do = "put" /\ s.table = "delegation"
  <2>1. s.row.owner \in Users /\ s.row.agent \in Agents \cup {AnyAgent}
    BY <1>7, StatementFields DEF DelegationRow
  <2> QED BY <1>1, <1>7, <2>1 DEF Affected, Subjects
<1>8. CASE s.do = "put" /\ s.table = "session"
  <2>1. s.row.user \in Users
    BY <1>8, StatementFields DEF SessionRow
  <2> QED BY <1>8, <2>1 DEF Affected, Subjects
<1> QED BY <1>2, <1>3, <1>4, <1>5, <1>6, <1>7, <1>8, StatementFields

\* The statements of every call are typed, and those of a call that no user is
\* checked for are not checked either.
LEMMA ProgramsTyped ==
    ASSUME RbacTypeOK, NEW c \in Callers, NEW u \in Users
    PROVE  Programs(c, u) \in SUBSET Seq({s \in Statement : s.do # "revoke-session"})
<1> DEFINE S == {s \in Statement : s.do # "revoke-session"}
<1>1. /\ \A id \in Users, row \in {"active", "disabled"} : Put("user", id, row) \in S
      /\ \A id \in Agents, row \in AgentRow : Put("agent", id, row) \in S
      /\ \A id \in Assignments, row \in AssignmentRow : Put("assignment", id, row) \in S
      /\ \A id \in Delegations, row \in DelegationRow : Put("delegation", id, row) \in S
      /\ \A id \in SessionIds, row \in SessionRow : Put("session", id, row) \in S
  BY PutTyped DEF Put, Statement
<1>2. /\ \A i \in Assignments, h \in Users \X Roles : VetAssignment(i, h) \in S
      /\ \A d \in Delegations, a \in Agents, p \in Optional(SUBSET Permission) :
            VetDelegation(d, a, p) \in S
      /\ \A i \in SessionIds, a \in Agents, d \in Delegations : VetSession(i, a, d) \in S
  BY DEF VetAssignment, VetDelegation, VetSession, VetStatement, Statement, Assigned, AssignmentRow
<1> HIDE DEF S
<1>3. \A v \in Users : CreateUser(u, v) \in SUBSET Seq(S)
  <2> SUFFICES ASSUME NEW v \in Users, NEW todo \in CreateUser(u, v)
               PROVE  todo \in Seq(S)
    OBVIOUS
  <2>1. Put("user", v, "active") \in S
    BY <1>1
  <2>2. CASE todo = <<Put("user", v, "active")>>
    BY <2>1, <2>2
  <2>3. CASE todo # <<Put("user", v, "active")>>
    <3>1. PICK i \in Assignments : \E h \in Holders[i] :
                todo = <<Put("user", v, "active"), VetAssignment(i, h)>>
      BY <2>3 DEF CreateUser
    <3>2. PICK h \in Holders[i] : todo = <<Put("user", v, "active"), VetAssignment(i, h)>>
      BY <3>1
    <3>3. VetAssignment(i, h) \in S
      BY <1>2, RbacAssumption
    <3> QED BY <2>1, <3>2, <3>3
  <2> QED BY <2>2, <2>3
<1>4. \A v \in Users : DisableUser(u, v) \in SUBSET Seq(S)
  BY <1>1 DEF DisableUser
<1>5. \A a \in Agents : DisableAgent(u, a) \in SUBSET Seq(S)
  <2> SUFFICES ASSUME NEW a \in Agents, agent[a] # None
               PROVE  [agent[a] EXCEPT !.status = "disabled"] \in AgentRow
    BY <1>1 DEF DisableAgent
  <2> QED BY DEF RbacTypeOK, AgentRow, Optional
<1>6. \A i \in Assignments : AssignRole(u, i) \in SUBSET Seq(S)
  <2>1. \A i \in Assignments : \A h \in Holders[i] : Assigned(h) \in AssignmentRow
    BY RbacAssumption DEF Assigned, AssignmentRow
  <2> SUFFICES ASSUME NEW i \in Assignments, NEW todo \in AssignRole(u, i)
               PROVE  todo \in Seq(S)
    OBVIOUS
  <2>2. PICK h \in Holders[i] : todo = <<Put("assignment", i, Assigned(h))>>
    BY DEF AssignRole
  <2> QED BY <1>1, <2>1, <2>2
<1>7. \A i \in Assignments : RevokeRole(u, i) \in SUBSET Seq(S)
  <2> SUFFICES ASSUME NEW i \in Assignments, assignment[i] # None
               PROVE  [assignment[i] EXCEPT !.status = "revoked"] \in AssignmentRow
    BY <1>1 DEF RevokeRole
  <2> QED BY DEF RbacTypeOK, AssignmentRow, Optional
<1>8. \A d \in Delegations : CreateDelegation(u, d) \in SUBSET Seq(S)
  <2> SUFFICES ASSUME NEW d \in Delegations, NEW todo \in CreateDelegation(u, d)
               PROVE  todo \in Seq(S)
    OBVIOUS
  <2>1. PICK a \in DelegatesOf(d, u), p \in Delegable :
            todo = <<Put("delegation", d, DelegationBy(u, a, p))>>
    BY DEF CreateDelegation
  <2>2. a \in Agents \cup {AnyAgent}
    BY RbacAssumption DEF DelegatesOf
  <2>3. DelegationBy(u, a, p) \in DelegationRow
    BY <2>2, RbacAssumption DEF DelegationBy, DelegationRow
  <2> QED BY <1>1, <2>1, <2>3
<1>9. \A d \in Delegations : RevokeDelegation(u, d) \in SUBSET Seq(S)
  <2> SUFFICES ASSUME NEW d \in Delegations, delegation[d] # None
               PROVE  [delegation[d] EXCEPT !.status = "revoked"] \in DelegationRow
    BY <1>1 DEF RevokeDelegation
  <2> QED BY DEF RbacTypeOK, DelegationRow, Optional
<1>10. \A a \in Agents : NewAgent(a, u) \in S
  BY <1>1 DEF NewAgent, AgentRow
<1>11. \A a \in Agents : Onboard(u, a) \in SUBSET Seq(S)
  <2> SUFFICES ASSUME NEW a \in Agents, NEW todo \in Onboard(u, a)
               PROVE  todo \in Seq(S)
    OBVIOUS
  <2>1. PICK d \in Delegations, p \in Delegable, i \in SessionIds :
            todo = <<NewAgent(a, u), VetDelegation(d, a, p), VetSession(i, a, d)>>
    BY DEF Onboard
  <2>2. p \in Optional(SUBSET Permission)
    BY RbacAssumption DEF Optional
  <2>3. NewAgent(a, u) \in S /\ VetDelegation(d, a, p) \in S /\ VetSession(i, a, d) \in S
    BY <1>2, <1>10, <2>2
  <2> QED BY <2>1, <2>3
<1>12. LogInMainAgent(u) \in SUBSET Seq(S)
  <2> SUFFICES ASSUME NEW todo \in LogInMainAgent(u)
               PROVE  todo \in Seq(S)
    OBVIOUS
  <2>1. PICK a \in {MainAgent[u]} \ {None}, d \in Delegations, i \in SessionIds :
            todo = <<NewAgent(a, u), VetDelegation(d, a, None), VetSession(i, a, d)>>
    BY DEF LogInMainAgent
  <2>2. a \in Agents /\ None \in Optional(SUBSET Permission)
    BY RbacAssumption DEF Optional
  <2>3. NewAgent(a, u) \in S /\ VetDelegation(d, a, None) \in S /\ VetSession(i, a, d) \in S
    BY <1>2, <1>10, <2>2
  <2> QED BY <2>1, <2>3
<1>13. LogIn(c, u) \in SUBSET Seq(S)
  <2> DEFINE row == [token |-> c, user |-> u, agent |-> None, delegation |-> None, revoked |-> FALSE]
  <2>1. row \in SessionRow
    BY DEF SessionRow, Tokens
  <2> HIDE DEF row
  <2>2. \A i \in SessionIds : Put("session", i, row) \in S
    BY <1>1, <2>1
  <2> SUFFICES ASSUME NEW todo \in LogIn(c, u)
               PROVE  todo \in Seq(S)
    OBVIOUS
  <2>3. PICK i \in SessionIds : todo = <<Put("session", i, row)>>
    BY DEF LogIn, row
  <2> QED BY <2>2, <2>3
<1> SUFFICES ASSUME NEW todo \in Programs(c, u)
             PROVE  todo \in Seq(S)
  BY DEF S
<1>14. \/ \E v \in Users : todo \in CreateUser(u, v) \/ todo \in DisableUser(u, v)
       \/ \E a \in Agents : todo \in DisableAgent(u, a) \/ todo \in Onboard(u, a)
       \/ \E i \in Assignments : todo \in AssignRole(u, i) \/ todo \in RevokeRole(u, i)
       \/ \E d \in Delegations : todo \in CreateDelegation(u, d) \/ todo \in RevokeDelegation(u, d)
       \/ todo \in LogInMainAgent(u)
       \/ todo \in LogIn(c, u)
  BY DEF Programs
<1> QED BY <1>3, <1>4, <1>5, <1>6, <1>7, <1>8, <1>9, <1>11, <1>12, <1>13, <1>14

\* The calls without a check make statements that can be performed.
LEMMA UncheckedTyped ==
    ASSUME RbacTypeOK
    PROVE  Unchecked \in SUBSET Seq(PutStatement \cap Doable)
<1> SUFFICES ASSUME NEW todo \in Unchecked
             PROVE  todo \in Seq(PutStatement \cap Doable)
  OBVIOUS
<1>1. CASE \E r \in Roles : todo \in SaveRole(r)
  <2> PICK r \in Roles : todo \in SaveRole(r)
    BY <1>1
  <2>1. PICK p \in RoleVersions[r] : todo = <<Put("role", r, p)>>
    BY DEF SaveRole
  <2>2. p \in SUBSET Permission
    BY RbacAssumption
  <2>3. Put("role", r, p) \in PutStatement
    BY <2>2, PutTyped
  <2>4. Put("role", r, p).do # "revoke-session"
    BY DEF Put
  <2>5. Put("role", r, p) \in PutStatement \cap Doable
    BY <2>3, <2>4 DEF Doable, Statement
  <2> QED BY <2>1, <2>5
<1>2. CASE todo \in RevokeSession
  <2>1. PICK i \in SessionIds :
            /\ session[i] # None
            /\ todo = <<RevokeRow(i, IF session[i].agent = None THEN session[i].user
                                     ELSE session[i].agent)>>
    BY <1>2 DEF RevokeSession
  <2> DEFINE subject == IF session[i].agent = None THEN session[i].user ELSE session[i].agent
  <2>2. session[i] \in SessionRow
    BY <2>1 DEF RbacTypeOK, Optional
  <2>3. subject \in Subjects
    BY <2>2 DEF SessionRow, Subjects
  <2> HIDE DEF subject
  <2>4. RevokeRow(i, subject) \in PutStatement
    BY <2>3, PutTyped
  <2>5. RevokeRow(i, subject).id = i
    BY DEF RevokeRow
  <2>6. RevokeRow(i, subject) \in PutStatement \cap Doable
    BY <2>1, <2>4, <2>5 DEF Doable, Statement
  <2> QED BY <2>1, <2>6 DEF subject
<1> QED BY <1>1, <1>2 DEF Unchecked

-----------------------------------------------------------------------------
(* Every step keeps the types.                                             *)

\* The empty list,
LEMMA EmptyList ==
    ASSUME NEW S
    PROVE  <<>> \in Seq(S)
OBVIOUS

\* the head and the tail of a list are typed.
LEMMA HeadAndTail ==
    ASSUME NEW S, NEW q \in Seq(S), q # <<>>
    PROVE  Head(q) \in S /\ Tail(q) \in Seq(S)
OBVIOUS

\* What a call has left to do may be done in any state that has its sessions.
LEMMA DoableStays ==
    ASSUME \A i \in SessionIds : session[i] # None => session'[i] # None,
           NEW q \in Seq(Doable)
    PROVE  q \in Seq(Doable')
<1>1. Doable \subseteq Doable'
  BY StatementFields DEF Doable, Statement
<1> QED BY <1>1

\* A call starts.
LEMMA StartInv ==
    ASSUME RbacInv, NEW c \in Callers, Start(c)
    PROVE  RbacInv'
<1>1. UNCHANGED <<tables, watermark, request>>
  BY DEF Start
<1>2. PICK k \in Call : call' = [call EXCEPT ![c] = k] /\ k.todo \in Seq(Doable)
  <2>1. CASE \E u \in Users : \E todo \in Programs(c, u) :
                call' = [call EXCEPT ![c] = Made(u, todo)]
    <3>1. PICK u \in Users : \E todo \in Programs(c, u) :
                call' = [call EXCEPT ![c] = Made(u, todo)]
      BY <2>1
    <3>2. PICK todo \in Programs(c, u) : call' = [call EXCEPT ![c] = Made(u, todo)]
      BY <3>1
    <3>3. todo \in Seq({s \in Statement : s.do # "revoke-session"})
      BY ProgramsTyped DEF RbacInv
    <3>4. todo \in Seq(Doable) /\ todo \in Seq(Statement)
      <4>1. {s \in Statement : s.do # "revoke-session"} \subseteq Doable
        BY DEF Doable
      <4>2. {s \in Statement : s.do # "revoke-session"} \subseteq Statement
        OBVIOUS
      <4> QED BY <3>3, <4>1, <4>2
    <3>5. Made(u, todo) \in Call
      BY <3>4 DEF Made, Call, Statement
    <3>6. Made(u, todo).todo = todo
      BY DEF Made
    <3> QED BY <3>2, <3>4, <3>5, <3>6
  <2>2. CASE \E todo \in Unchecked : call' = [call EXCEPT ![c] = Made(None, todo)]
    <3>1. PICK todo \in Unchecked : call' = [call EXCEPT ![c] = Made(None, todo)]
      BY <2>2
    <3>2. todo \in Seq(PutStatement \cap Doable)
      BY UncheckedTyped DEF RbacInv
    <3>3. todo \in Seq(Doable) /\ todo \in Seq(PutStatement)
      BY <3>2
    <3>4. Made(None, todo) \in Call
      BY <3>3 DEF Made, Call
    <3>5. Made(None, todo).todo = todo
      BY DEF Made
    <3> QED BY <3>1, <3>3, <3>4, <3>5
  <2> QED BY <2>1, <2>2 DEF Start
<1>3. call' \in [Callers -> Call]
  BY <1>2 DEF RbacInv, RbacTypeOK
<1>4. Doable' = Doable
  BY <1>1 DEF Doable, tables
<1>5. \A d \in Callers : call'[d].todo \in Seq(Doable)
  BY <1>2 DEF RbacInv, RbacTypeOK
<1>6. RbacTypeOK'
  BY <1>1, <1>3 DEF RbacInv, RbacTypeOK, tables
<1> QED BY <1>4, <1>5, <1>6 DEF RbacInv

\* One table after a statement.
LEMMA WrittenTyped ==
    ASSUME NEW table, NEW name, NEW Ids0, NEW Rows, NEW s,
           table \in [Ids0 -> Rows],
           s.do = "put" /\ s.table = name => s.id \in Ids0 /\ s.row \in Rows
    PROVE  Written(table, name, s) \in [Ids0 -> Rows]
BY DEF Written

\* A call makes a statement.
LEMMA PerformInv ==
    ASSUME RbacInv, NEW c \in Callers, Perform(c)
    PROVE  RbacInv'
<1>1. call[c].todo # <<>> /\ UNCHANGED <<watermark, request>>
  BY DEF Perform
<1>2. PICK s \in {Head(call[c].todo)} :
        /\ s.do # "vet"
        /\ user' = Written(user, "user", s)
        /\ agent' = Written(agent, "agent", s)
        /\ role' = Written(role, "role", s)
        /\ assignment' = Written(assignment, "assignment", s)
        /\ delegation' = Written(delegation, "delegation", s)
        /\ session' = IF s.do = "revoke-session" THEN [session EXCEPT ![s.id].revoked = TRUE]
                      ELSE Written(session, "session", s)
        /\ call' = [call EXCEPT ![c].todo = Tail(@), ![c].due = Affected(s)']
  BY DEF Perform
<1>3. call[c] \in Call /\ call[c].todo \in Seq(Doable) /\ call[c].todo \in Seq(Statement)
  <2>1. Doable \subseteq Statement
    BY DEF Doable
  <2> QED BY <2>1 DEF RbacInv, RbacTypeOK
<1>4. s \in Doable /\ Tail(call[c].todo) \in Seq(Doable) /\ Tail(call[c].todo) \in Seq(Statement)
  BY <1>1, <1>2, <1>3, HeadAndTail
<1>5. s \in PutStatement
  BY <1>2, <1>4, StatementFields DEF Doable, Statement
<1>6. TablesOK'
  <2>1. user' \in [Users -> {"active", "disabled", None}]
    BY <1>2, <1>5, StatementFields DEF Written, RbacInv, RbacTypeOK
  <2>2. role' \in [Roles -> SUBSET Permission]
    BY <1>2, <1>5, StatementFields DEF Written, RbacInv, RbacTypeOK
  <2>3. agent' \in [Agents -> Optional(AgentRow)]
    BY <1>2, <1>5, StatementFields DEF Written, RbacInv, RbacTypeOK, Optional
  <2>4. assignment' \in [Assignments -> Optional(AssignmentRow)]
    BY <1>2, <1>5, StatementFields DEF Written, RbacInv, RbacTypeOK, Optional
  <2>5. delegation' \in [Delegations -> Optional(DelegationRow)]
    BY <1>2, <1>5, StatementFields DEF Written, RbacInv, RbacTypeOK, Optional
  <2>6. session' \in [SessionIds -> Optional(SessionRow)]
    <3>1. CASE s.do = "revoke-session"
      <4>1. s.id \in SessionIds /\ session[s.id] # None
        BY <1>4, <1>5, <3>1, StatementFields DEF Doable
      <4>2. session[s.id] \in SessionRow
        BY <4>1 DEF RbacInv, RbacTypeOK, Optional
      <4>3. [session[s.id] EXCEPT !.revoked = TRUE] \in SessionRow
        BY <4>2 DEF SessionRow
      <4> QED BY <1>2, <3>1, <4>1, <4>3 DEF RbacInv, RbacTypeOK, Optional
    <3>2. CASE s.do # "revoke-session"
      BY <1>2, <1>5, <3>2, StatementFields DEF Written, RbacInv, RbacTypeOK, Optional
    <3> QED BY <3>1, <3>2
  <2> QED BY <2>1, <2>2, <2>3, <2>4, <2>5, <2>6 DEF TablesOK
<1>7. \A i \in SessionIds : session[i] # None => session'[i] # None
  <2>1. session \in [SessionIds -> Optional(SessionRow)]
    BY DEF RbacInv, RbacTypeOK
  <2>2. CASE s.do = "revoke-session"
    <3>1. s.id \in SessionIds /\ session[s.id] \in SessionRow
      BY <1>4, <1>5, <2>1, <2>2, StatementFields DEF Doable, Optional
    <3>2. [session[s.id] EXCEPT !.revoked = TRUE] \in SessionRow
      BY <3>1 DEF SessionRow
    <3> QED BY <1>2, <2>1, <2>2, <3>1, <3>2, RbacAssumption
  <2>3. CASE s.do # "revoke-session"
    <3>1. s.do = "put" /\ s.table = "session" => s.id \in SessionIds /\ s.row # None
      BY <1>5, StatementFields, RbacAssumption
    <3> QED BY <1>2, <2>1, <2>3, <3>1 DEF Written
  <2> QED BY <2>2, <2>3
<1>8. Affected(s)' \in SUBSET Subjects
  <2>1. AffectsSubjects'
    BY <1>6, AffectedTyped, PTL
  <2> QED BY <1>5, <2>1 DEF AffectsSubjects
<1>9. call' \in [Callers -> Call]
  <2>1. call[c].actor \notin Users => Tail(call[c].todo) \in Seq(PutStatement)
    BY <1>1, <1>3, HeadAndTail DEF Call
  <2>2. [call[c] EXCEPT !.todo = Tail(call[c].todo), !.due = Affected(s)'] \in Call
    BY <1>3, <1>4, <1>8, <2>1, CallStep
  <2>3. call' = [call EXCEPT ![c] = [call[c] EXCEPT !.todo = Tail(call[c].todo),
                                                    !.due = Affected(s)']]
    BY <1>2 DEF RbacInv, RbacTypeOK
  <2> QED BY <2>2, <2>3 DEF RbacInv, RbacTypeOK
<1>10. \A d \in Callers : call'[d].todo \in Seq(Doable)
  <2>1. call'[c].todo = Tail(call[c].todo)
    BY <1>2, <1>3 DEF RbacInv, RbacTypeOK, Call
  <2>2. \A d \in Callers \ {c} : call'[d] = call[d]
    BY <1>2 DEF RbacInv, RbacTypeOK
  <2> QED BY <1>4, <2>1, <2>2 DEF RbacInv
<1>11. \A d \in Callers : call'[d].todo \in Seq(Doable')
  BY <1>7, <1>10, DoableStays
<1>12. RbacTypeOK'
  BY <1>1, <1>6, <1>9 DEF TablesOK, RbacInv, RbacTypeOK
<1> QED BY <1>11, <1>12 DEF RbacInv

\* A step that only moves one call on.
LEMMA CallMoves ==
    ASSUME RbacInv, NEW c \in Callers, NEW k \in Call, k.todo \in Seq(Doable),
           call' = [call EXCEPT ![c] = k],
           UNCHANGED tables, watermark' \in [Subjects -> Nat], UNCHANGED request
    PROVE  RbacInv'
<1>1. Doable' = Doable
  BY DEF Doable, tables
<1>2. call' \in [Callers -> Call]
  BY DEF RbacInv, RbacTypeOK
<1>3. \A d \in Callers : call'[d].todo \in Seq(Doable)
  BY DEF RbacInv, RbacTypeOK
<1>4. RbacTypeOK'
  BY <1>2 DEF RbacInv, RbacTypeOK, tables
<1> QED BY <1>1, <1>3, <1>4 DEF RbacInv

\* A call moves a watermark.
LEMMA AdvanceInv ==
    ASSUME RbacInv, NEW c \in Callers, Advance(c)
    PROVE  RbacInv'
<1>1. PICK s \in call[c].due :
        /\ watermark' = [watermark EXCEPT ![s] = @ + 1]
        /\ call' = [call EXCEPT ![c].due = @ \ {s}]
        /\ UNCHANGED <<tables, request>>
  BY DEF Advance
<1>2. call[c] \in Call /\ call[c].todo \in Seq(Doable)
  BY DEF RbacInv, RbacTypeOK
<1> DEFINE k == [call[c] EXCEPT !.due = @ \ {s}]
<1>3. k \in Call /\ k.todo = call[c].todo
  BY <1>2 DEF Call
<1>4. call' = [call EXCEPT ![c] = k]
  BY <1>1 DEF RbacInv, RbacTypeOK
<1>5. watermark' \in [Subjects -> Nat]
  <2>1. s \in Subjects
    BY <1>2 DEF Call
  <2> QED BY <1>1, <2>1 DEF RbacInv, RbacTypeOK
<1> HIDE DEF k
<1> QED BY <1>1, <1>2, <1>3, <1>4, <1>5, CallMoves

\* A call makes a check between its statements.
LEMMA VetInv ==
    ASSUME RbacInv, NEW c \in Callers, Vet(c)
    PROVE  RbacInv'
<1> DEFINE s == Head(call[c].todo)
           by == call[c].actor
           rest == Tail(call[c].todo)
           todo == IF Admissible(by, s) THEN <<Vetted(c, by, s)>> \o rest ELSE <<>>
           k == [call[c] EXCEPT !.todo = todo]
<1>1. /\ call[c].todo # <<>> /\ s.do = "vet"
      /\ call' = [call EXCEPT ![c].todo = todo]
      /\ UNCHANGED <<tables, watermark, request>>
  BY DEF Vet
<1>2. call[c] \in Call /\ call[c].todo \in Seq(Doable) /\ call[c].todo \in Seq(Statement)
  <2>1. Doable \subseteq Statement
    BY DEF Doable
  <2> QED BY <2>1 DEF RbacInv, RbacTypeOK
<1>3. s \in Doable /\ rest \in Seq(Doable) /\ rest \in Seq(Statement)
  BY <1>1, <1>2, HeadAndTail
<1>4. s \in VetStatement
  BY <1>1, <1>3, StatementFields DEF Doable, Statement
<1>5. by \in Users
  <2> SUFFICES ASSUME by \notin Users
               PROVE  FALSE
    OBVIOUS
  <2>1. call[c].todo \in Seq(PutStatement)
    BY <1>2 DEF Call
  <2>2. s \in PutStatement
    BY <1>1, <2>1, HeadAndTail
  <2> QED BY <1>1, <2>2, StatementFields
<1>6. Vetted(c, by, s) \in PutStatement /\ Vetted(c, by, s).do = "put"
  <2> HIDE DEF s, by
  <2>1. CASE s.what = "assignment"
    <3>1. Vetted(c, by, s) = Put("assignment", s.id, s.row)
      BY <2>1 DEF Vetted
    <3> QED BY <1>4, <2>1, <3>1, StatementFields, PutTyped DEF Put
  <2>2. CASE s.what = "delegation"
    <3> DEFINE row == DelegationBy(by, s.agent, DelegatedBy(by, s))
    <3>1. Vetted(c, by, s) = Put("delegation", s.id, row)
      BY <2>2 DEF Vetted
    <3>2. Owned(by) \in SUBSET Permission
      <4>1. PermissionsOf(by) \in SUBSET RolePermission
        BY GrantsTyped DEF RbacInv
      <4> QED BY <4>1 DEF Owned, RolePermission
    <3>3. DelegatedBy(by, s) \in SUBSET Permission
      BY <1>4, <2>2, <3>2, StatementFields DEF DelegatedBy, NonAdmin, Optional
    <3>4. row \in DelegationRow
      BY <1>4, <1>5, <2>2, <3>3, StatementFields DEF DelegationBy, DelegationRow
    <3> HIDE DEF row
    <3> QED BY <1>4, <2>2, <3>1, <3>4, StatementFields, PutTyped DEF Put
  <2>3. CASE s.what = "session"
    <3> DEFINE row == [token |-> c, user |-> by, agent |-> s.agent,
                       delegation |-> s.delegation, revoked |-> FALSE]
    <3>1. Vetted(c, by, s) = Put("session", s.id, row)
      BY <2>3 DEF Vetted
    <3>2. row \in SessionRow
      BY <1>4, <1>5, <2>3, StatementFields DEF SessionRow, Tokens
    <3> HIDE DEF row
    <3> QED BY <1>4, <2>3, <3>1, <3>2, StatementFields, PutTyped DEF Put
  <2> QED BY <1>4, <2>1, <2>2, <2>3, StatementFields
<1>7. todo \in Seq(Doable) /\ todo \in Seq(Statement)
  <2>1. Vetted(c, by, s) \in Doable /\ Vetted(c, by, s) \in Statement
    BY <1>6 DEF Doable, Statement
  <2> HIDE DEF s, by, rest
  <2> QED BY <1>3, <2>1
<1> HIDE DEF s, by, rest, todo
<1>8. k \in Call /\ k.todo = todo
  <2>1. call[c].actor \in Users
    BY <1>5 DEF by
  <2>2. {} \in SUBSET Subjects
    OBVIOUS
  <2>3. k \in Call
    BY <1>2, <1>7, <2>1, <2>2, CallStep
  <2> QED BY <1>2, <2>3 DEF Call
<1>9. call' = [call EXCEPT ![c] = k]
  BY <1>1 DEF RbacInv, RbacTypeOK
<1>10. watermark' \in [Subjects -> Nat]
  BY <1>1 DEF RbacInv, RbacTypeOK
<1> HIDE DEF k
<1> QED BY <1>1, <1>7, <1>8, <1>9, <1>10, CallMoves

\* A process dies in the middle of a call.
LEMMA DieInv ==
    ASSUME RbacInv, NEW c \in Callers, Die(c)
    PROVE  RbacInv'
<1> DEFINE k == [call[c] EXCEPT !.state = "dead", !.todo = <<>>]
<1>1. /\ call' = [call EXCEPT ![c].state = "dead", ![c].todo = <<>>]
      /\ UNCHANGED <<tables, watermark, request>>
  BY DEF Die
<1>2. call[c] \in Call
  BY DEF RbacInv, RbacTypeOK
<1>3. k \in Call /\ k.todo = <<>>
  <2>1. <<>> \in Seq(PutStatement) /\ <<>> \in Seq(PutStatement \cup VetStatement)
    BY EmptyList
  <2> QED BY <1>2, <2>1 DEF Call
<1>4. call' = [call EXCEPT ![c] = k]
  BY <1>1 DEF RbacInv, RbacTypeOK
<1>5. watermark' \in [Subjects -> Nat]
  BY <1>1 DEF RbacInv, RbacTypeOK
<1> HIDE DEF k
<1>6. k.todo \in Seq(Doable)
  BY <1>3, EmptyList
<1> QED BY <1>1, <1>3, <1>4, <1>5, <1>6, CallMoves

\* The clock passes an expiry.
LEMMA ExpireInv ==
    ASSUME RbacInv, NEW d \in Delegations, Expire(d)
    PROVE  RbacInv'
<1>1. /\ delegation[d] # None
      /\ delegation' = [delegation EXCEPT ![d].expired = TRUE]
      /\ UNCHANGED <<user, agent, role, assignment, session, watermark, call, request>>
  BY DEF Expire
<1>2. [delegation[d] EXCEPT !.expired = TRUE] \in DelegationRow
  BY <1>1 DEF RbacInv, RbacTypeOK, DelegationRow, Optional
<1>3. delegation' \in [Delegations -> Optional(DelegationRow)]
  BY <1>1, <1>2 DEF RbacInv, RbacTypeOK, Optional
<1>4. RbacTypeOK'
  BY <1>1, <1>3 DEF RbacInv, RbacTypeOK
<1>5. Doable' = Doable
  BY <1>1 DEF Doable
<1> QED BY <1>1, <1>4, <1>5 DEF RbacInv

\* A step of the request.
LEMMA RequestMoves ==
    ASSUME RbacInv, request' \in {IdleRequest} \cup RequestInFlight,
           UNCHANGED <<tables, watermark, call>>
    PROVE  RbacInv'
<1>1. RbacTypeOK'
  BY DEF RbacInv, RbacTypeOK, tables
<1>2. Doable' = Doable
  BY DEF Doable, tables
<1> QED BY <1>1, <1>2 DEF RbacInv

\* A read of a request fills in one field of it.
LEMMA SelectInv ==
    ASSUME RbacInv, NEW step, NEW holds, NEW next, Select(step, holds, next),
           step # "idle",
           next \in {"session", "user", "agent", "delegation", "decide-agent", "decide-user",
                     "assignments", "roles", "delegations", "allowed", "refused"}
    PROVE  RbacInv'
<1>1. /\ request.step = step
      /\ request' = [request EXCEPT !.step = IF holds THEN next ELSE "refused"]
      /\ UNCHANGED <<tables, watermark, call>>
  BY DEF Select
<1>2. request \in RequestInFlight
  BY <1>1 DEF RbacInv, RbacTypeOK, IdleRequest
<1>3. request' \in RequestInFlight
  BY <1>1, <1>2 DEF RequestInFlight
<1> QED BY <1>1, <1>3, RequestMoves

\* A request is started, authenticated, decided or ended.
LEMMA RequestInv ==
    ASSUME RbacInv,
           \/ \E ask \in Requests, t \in Tokens : Begin(ask, t)
           \/ Authenticate
           \/ Decide
           \/ Answer
    PROVE  RbacInv'
<1>1. CASE \E ask \in Requests, t \in Tokens : Begin(ask, t)
  <2>1. PICK ask \in Requests, t \in Tokens : Begin(ask, t)
    BY <1>1
  <2>2. request' \in RequestInFlight
    BY <2>1 DEF Begin, RequestInFlight, Optional
  <2> QED BY <2>1, <2>2, RequestMoves DEF Begin
<1>2. CASE ReadSession
  <2> DEFINE found == {session[i] : i \in RowsOf(request.token)}
             next == IF \E row \in found : Usable(row) THEN "user" ELSE "refused"
             chosen == IF next = "user" THEN CHOOSE row \in found : TRUE ELSE None
  <2>1. /\ request.step = "session"
        /\ request' = [request EXCEPT !.step = next, !.row = chosen]
        /\ UNCHANGED <<tables, watermark, call>>
    BY <1>2 DEF ReadSession
  <2>2. request \in RequestInFlight
    BY <2>1 DEF RbacInv, RbacTypeOK, IdleRequest
  <2>3. found \in SUBSET SessionRow
    BY DEF RowsOf, RbacInv, RbacTypeOK, Optional
  <2> HIDE DEF found
  <2>4. chosen \in Optional(SessionRow)
    BY <2>3 DEF Optional
  <2>5. next \in {"user", "refused"}
    OBVIOUS
  <2> HIDE DEF next, chosen
  <2>6. request' \in RequestInFlight
    BY <2>1, <2>2, <2>4, <2>5 DEF RequestInFlight
  <2> QED BY <2>1, <2>6, RequestMoves
<1>3. CASE Authenticate
  <2>1. CASE Select("user", ActiveUser(request.row.user),
                    IF request.row.agent = None THEN "decide-user" ELSE "agent")
    BY <2>1, SelectInv
  <2>2. CASE Select("agent", OwnAgent, "delegation")
    BY <2>2, SelectInv
  <2>3. CASE Select("delegation",
                    /\ request.row.delegation \in DelegationsOf(request.row.agent)
                    /\ InForce(request.row.delegation), "decide-agent")
    BY <2>3, SelectInv
  <2> QED BY <1>2, <1>3, <2>1, <2>2, <2>3 DEF Authenticate
<1>4. CASE ReadAssignments
  <2>1. /\ request.step = "assignments"
        /\ request' = [request EXCEPT !.step = "roles", !.roles = AssignedRoles(request.row.user)]
        /\ UNCHANGED <<tables, watermark, call>>
    BY <1>4 DEF ReadAssignments
  <2>2. request \in RequestInFlight
    BY <2>1 DEF RbacInv, RbacTypeOK, IdleRequest
  <2>3. AssignedRoles(request.row.user) \in SUBSET Roles
    BY GrantsTyped DEF RbacInv
  <2>4. request' \in RequestInFlight
    BY <2>1, <2>2, <2>3 DEF RequestInFlight
  <2> QED BY <2>1, <2>4, RequestMoves
<1>5. CASE ReadRoles
  <2> DEFINE permissions == PermissionsIn(request.roles)
             next == IF request.row.agent # None THEN "delegations"
                     ELSE IF DecideUser(TRUE, permissions, request.ask).allowed
                     THEN "allowed" ELSE "refused"
  <2>1. /\ request.step = "roles"
        /\ request' = [request EXCEPT !.permissions = permissions, !.step = next]
        /\ UNCHANGED <<tables, watermark, call>>
    BY <1>5 DEF ReadRoles
  <2>2. request \in RequestInFlight
    BY <2>1 DEF RbacInv, RbacTypeOK, IdleRequest
  <2>3. permissions \in SUBSET [permission: Permission, admin: BOOLEAN]
    <3>1. request.roles \in SUBSET Roles
      BY <2>2 DEF RequestInFlight
    <3> QED BY <3>1, GrantsTyped DEF RbacInv, RolePermission
  <2>4. next \in {"delegations", "allowed", "refused"}
    OBVIOUS
  <2> HIDE DEF permissions, next
  <2>5. request' \in RequestInFlight
    BY <2>1, <2>2, <2>3, <2>4 DEF RequestInFlight
  <2> QED BY <2>1, <2>5, RequestMoves
<1>6. CASE Decide
  <2>1. CASE Select("decide-agent", OwnAgent, "decide-user")
    BY <2>1, SelectInv
  <2>2. CASE Select("decide-user", ActiveUser(request.row.user), "assignments")
    BY <2>2, SelectInv
  <2>3. CASE Select("delegations",
                    DecideAgent(TRUE, request.permissions,
                                DelegatedTo(request.row.agent, request.row.user),
                                request.ask).allowed, "allowed")
    BY <2>3, SelectInv
  <2> QED BY <1>4, <1>5, <1>6, <2>1, <2>2, <2>3 DEF Decide
<1>7. CASE Answer
  BY <1>7, RequestMoves DEF Answer
<1> QED BY <1>1, <1>3, <1>6, <1>7

-----------------------------------------------------------------------------
(* The theorems.                                                           *)

\* The seeds satisfy the invariant.
LEMMA InitInv == RbacInit => RbacInv
<1> SUFFICES ASSUME RbacInit
             PROVE  RbacInv
  OBVIOUS
<1>1. Unused \in Call /\ Unused.todo = <<>>
  BY DEF Unused, Call
<1>2. call = [c \in Callers |-> Unused]
  BY DEF RbacInit
<1>3. call \in [Callers -> Call] /\ \A c \in Callers : call[c].todo = <<>>
  BY <1>1, <1>2
<1>4. RbacTypeOK
  BY <1>3, RbacAssumption DEF RbacInit, RbacTypeOK
<1> QED BY <1>3, <1>4, EmptyList DEF RbacInv

\* The invariant is inductive: one case for each action.
LEMMA NextInv == RbacInv /\ [RbacNext]_rbacVars => RbacInv'
<1> SUFFICES ASSUME RbacInv, [RbacNext]_rbacVars
             PROVE  RbacInv'
  OBVIOUS
<1>1. CASE \E c \in Callers : Start(c) \/ Perform(c) \/ Advance(c) \/ Vet(c) \/ Die(c)
  BY <1>1, StartInv, PerformInv, AdvanceInv, VetInv, DieInv
<1>2. CASE \E d \in Delegations : Expire(d)
  BY <1>2, ExpireInv
<1>3. CASE \/ \E ask \in Requests, t \in Tokens : Begin(ask, t)
           \/ Authenticate
           \/ Decide
           \/ Answer
  BY <1>3, RequestInv
<1>4. CASE UNCHANGED rbacVars
  <2>1. UNCHANGED <<tables, watermark, call>> /\ UNCHANGED request
    BY <1>4 DEF rbacVars
  <2>2. request' \in {IdleRequest} \cup RequestInFlight
    BY <2>1 DEF RbacInv, RbacTypeOK
  <2> QED BY <2>1, <2>2, RequestMoves
<1> QED BY <1>1, <1>2, <1>3, <1>4 DEF RbacNext

\* Rows, statements, calls and requests keep their types however calls of
\* administrators, their deaths and requests overlap (rbac-authority.ts).
THEOREM RbacTypeCorrect == RbacSpec => []RbacTypeOK
<1>1. RbacInv => RbacTypeOK
  BY DEF RbacInv
<1> QED BY <1>1, InitInv, NextInv, PTL DEF RbacSpec

\* Whatever roles are saved, assigned, delegated and revoked, an agent is
\* allowed nothing that its owner is not (decideAgent on every state of the
\* tables).
THEOREM AgentsStayWithinOwners == RbacSpec => []AgentWithinOwner
<1> QED BY RbacTypeCorrect, TypedAgentWithinOwner, PTL

-----------------------------------------------------------------------------
(* Watermarks.                                                             *)

\* A statement writes an id for nobody it is not used for; one that is still
\* to be checked writes for the caller.
StatementKeeps(s, by) ==
    /\ s.do = "put" /\ s.table = "assignment" => <<s.row.user, s.row.role>> \in Holders[s.id]
    /\ s.do = "put" /\ s.table = "delegation" => <<s.row.agent, s.row.owner>> \in Delegates[s.id]
    /\ s.do = "vet" /\ s.what = "assignment" => <<s.row.user, s.row.role>> \in Holders[s.id]
    /\ s.do = "vet" /\ s.what = "delegation" => <<s.agent, by>> \in Delegates[s.id]

ListKeeps(todo, by) == \A j \in 1..Len(todo) : StatementKeeps(todo[j], by)

AssignmentsKeep ==
    \A i \in Assignments : assignment[i] # None =>
        <<assignment[i].user, assignment[i].role>> \in Holders[i]

DelegationsKeep ==
    \A d \in Delegations : delegation[d] # None =>
        <<delegation[d].agent, delegation[d].owner>> \in Delegates[d]

CallsKeep == \A c \in Callers : ListKeeps(call[c].todo, call[c].actor)

UnusedOwesNothing ==
    \A c \in Callers : call[c].state = "unused" => call[c].todo = <<>> /\ call[c].due = {}

WatermarkInv ==
    /\ IdsAreNotReused
    /\ RbacInv
    /\ AssignmentsKeep
    /\ DelegationsKeep
    /\ CallsKeep
    /\ UnusedOwesNothing
    /\ WatermarkCoversChange

\* The lists that calls are made of.
LEMMA ShortListsKeep ==
    ASSUME NEW by
    PROVE  /\ ListKeeps(<<>>, by)
           /\ \A a : StatementKeeps(a, by) => ListKeeps(<<a>>, by)
           /\ \A a, b : StatementKeeps(a, by) /\ StatementKeeps(b, by) => ListKeeps(<<a, b>>, by)
           /\ \A a, b, e : StatementKeeps(a, by) /\ StatementKeeps(b, by) /\ StatementKeeps(e, by)
                => ListKeeps(<<a, b, e>>, by)
<1>1. ListKeeps(<<>>, by)
  BY DEF ListKeeps
<1>2. ASSUME NEW a, StatementKeeps(a, by) PROVE ListKeeps(<<a>>, by)
  <2>1. Len(<<a>>) = 1 /\ <<a>>[1] = a
    OBVIOUS
  <2> QED BY <1>2, <2>1 DEF ListKeeps
<1>3. ASSUME NEW a, NEW b, StatementKeeps(a, by), StatementKeeps(b, by)
      PROVE  ListKeeps(<<a, b>>, by)
  <2>1. Len(<<a, b>>) = 2 /\ <<a, b>>[1] = a /\ <<a, b>>[2] = b
    OBVIOUS
  <2>2. \A j \in 1..2 : j = 1 \/ j = 2
    OBVIOUS
  <2> QED BY <1>3, <2>1, <2>2 DEF ListKeeps
<1>4. ASSUME NEW a, NEW b, NEW e, StatementKeeps(a, by), StatementKeeps(b, by),
             StatementKeeps(e, by)
      PROVE  ListKeeps(<<a, b, e>>, by)
  <2>1. /\ Len(<<a, b, e>>) = 3
        /\ <<a, b, e>>[1] = a /\ <<a, b, e>>[2] = b /\ <<a, b, e>>[3] = e
    OBVIOUS
  <2>2. \A j \in 1..3 : j = 1 \/ j = 2 \/ j = 3
    OBVIOUS
  <2> QED BY <1>4, <2>1, <2>2 DEF ListKeeps
<1> QED BY <1>1, <1>2, <1>3, <1>4

\* The head and the tail of a list that keeps the ids keep them,
LEMMA HeadAndTailKeep ==
    ASSUME NEW q \in Seq(Statement), q # <<>>, NEW by, ListKeeps(q, by)
    PROVE  StatementKeeps(Head(q), by) /\ ListKeeps(Tail(q), by)
<1>1. /\ Head(q) = q[1] /\ 1 \in 1..Len(q)
      /\ Len(Tail(q)) = Len(q) - 1
      /\ \A j \in 1..(Len(q) - 1) : Tail(q)[j] = q[j + 1] /\ j + 1 \in 1..Len(q)
  OBVIOUS
<1> QED BY <1>1 DEF ListKeeps

\* and so does a statement that keeps them before such a list.
LEMMA PushKeeps ==
    ASSUME NEW q \in Seq(Statement), NEW s, NEW by,
           StatementKeeps(s, by), ListKeeps(q, by)
    PROVE  ListKeeps(<<s>> \o q, by)
<1> DEFINE S == Statement \cup {s}
<1>0. q \in Seq(S) /\ s \in S
  OBVIOUS
<1> HIDE DEF S
<1>1. /\ Len(<<s>> \o q) = Len(q) + 1
      /\ (<<s>> \o q)[1] = s
      /\ \A j \in 1..(Len(q) + 1) : j = 1 \/ (j - 1 \in 1..Len(q) /\ (<<s>> \o q)[j] = q[j - 1])
  BY <1>0
<1> QED BY <1>1 DEF ListKeeps

\* Every call that is started writes ids only for those they are used for.
LEMMA ProgramsKeep ==
    ASSUME RbacTypeOK, AssignmentsKeep, DelegationsKeep, NEW c \in Callers, NEW u \in Users,
           NEW todo \in Programs(c, u)
    PROVE  ListKeeps(todo, u)
<1>1. /\ \A id, row : StatementKeeps(Put("user", id, row), u)
      /\ \A id, row : StatementKeeps(Put("agent", id, row), u)
      /\ \A id, row : StatementKeeps(Put("session", id, row), u)
      /\ \A a : StatementKeeps(NewAgent(a, u), u)
      /\ \A i, a, d : StatementKeeps(VetSession(i, a, d), u)
  BY DEF StatementKeeps, Put, NewAgent, VetSession
<1>2. /\ \A i \in Assignments : \A h \in Holders[i] :
            /\ StatementKeeps(Put("assignment", i, Assigned(h)), u)
            /\ StatementKeeps(VetAssignment(i, h), u)
      /\ \A d \in Delegations : \A a \in DelegatesOf(d, u) :
            /\ \A p : StatementKeeps(Put("delegation", d, DelegationBy(u, a, p)), u)
            /\ \A p : StatementKeeps(VetDelegation(d, a, p), u)
  <2>1. ASSUME NEW i \in Assignments, NEW h \in Holders[i]
        PROVE  /\ StatementKeeps(Put("assignment", i, Assigned(h)), u)
               /\ StatementKeeps(VetAssignment(i, h), u)
    <3>1. h = <<h[1], h[2]>>
      BY RbacAssumption
    <3> QED BY <3>1 DEF StatementKeeps, Put, VetAssignment, Assigned
  <2>2. ASSUME NEW d \in Delegations, NEW a \in DelegatesOf(d, u), NEW p
        PROVE  /\ StatementKeeps(Put("delegation", d, DelegationBy(u, a, p)), u)
               /\ StatementKeeps(VetDelegation(d, a, p), u)
    <3>1. PICK h \in Delegates[d] : h[1] = a /\ h[2] = u
      BY DEF DelegatesOf
    <3>2. h = <<h[1], h[2]>>
      BY RbacAssumption
    <3>3. <<a, u>> \in Delegates[d]
      BY <3>1, <3>2
    <3> QED BY <3>3 DEF StatementKeeps, Put, VetDelegation, DelegationBy
  <2> QED BY <2>1, <2>2
<1>3. ASSUME NEW v \in Users, todo \in CreateUser(u, v) PROVE ListKeeps(todo, u)
  <2>1. CASE todo = <<Put("user", v, "active")>>
    BY <1>1, <2>1, ShortListsKeep
  <2>2. CASE todo # <<Put("user", v, "active")>>
    <3>1. PICK i \in Assignments : \E h \in Holders[i] :
                todo = <<Put("user", v, "active"), VetAssignment(i, h)>>
      BY <1>3, <2>2 DEF CreateUser
    <3>2. PICK h \in Holders[i] : todo = <<Put("user", v, "active"), VetAssignment(i, h)>>
      BY <3>1
    <3> QED BY <1>1, <1>2, <3>2, ShortListsKeep
  <2> QED BY <2>1, <2>2
<1>4. ASSUME NEW v \in Users, todo \in DisableUser(u, v) PROVE ListKeeps(todo, u)
  <2>1. todo = <<Put("user", v, "disabled")>>
    BY <1>4 DEF DisableUser
  <2> QED BY <1>1, <2>1, ShortListsKeep
<1>5. ASSUME NEW a \in Agents, todo \in DisableAgent(u, a) PROVE ListKeeps(todo, u)
  <2>1. todo = <<Put("agent", a, [agent[a] EXCEPT !.status = "disabled"])>>
    BY <1>5 DEF DisableAgent
  <2> QED BY <1>1, <2>1, ShortListsKeep
<1>6. ASSUME NEW i \in Assignments, todo \in AssignRole(u, i) PROVE ListKeeps(todo, u)
  <2>1. PICK h \in Holders[i] : todo = <<Put("assignment", i, Assigned(h))>>
    BY <1>6 DEF AssignRole
  <2> QED BY <1>2, <2>1, ShortListsKeep
<1>7. ASSUME NEW i \in Assignments, todo \in RevokeRole(u, i) PROVE ListKeeps(todo, u)
  <2> DEFINE row == [assignment[i] EXCEPT !.status = "revoked"]
  <2>1. assignment[i] # None /\ todo = <<Put("assignment", i, row)>>
    BY <1>7 DEF RevokeRole
  <2>2. row.user = assignment[i].user /\ row.role = assignment[i].role
    BY <2>1 DEF RbacTypeOK, AssignmentRow, Optional
  <2>3. StatementKeeps(Put("assignment", i, row), u)
    BY <2>1, <2>2 DEF StatementKeeps, Put, AssignmentsKeep
  <2> QED BY <2>1, <2>3, ShortListsKeep
<1>8. ASSUME NEW d \in Delegations, todo \in CreateDelegation(u, d) PROVE ListKeeps(todo, u)
  <2>1. PICK a \in DelegatesOf(d, u), p \in Delegable :
            todo = <<Put("delegation", d, DelegationBy(u, a, p))>>
    BY <1>8 DEF CreateDelegation
  <2> QED BY <1>2, <2>1, ShortListsKeep
<1>9. ASSUME NEW d \in Delegations, todo \in RevokeDelegation(u, d) PROVE ListKeeps(todo, u)
  <2> DEFINE row == [delegation[d] EXCEPT !.status = "revoked"]
  <2>1. delegation[d] # None /\ todo = <<Put("delegation", d, row)>>
    BY <1>9 DEF RevokeDelegation
  <2>2. row.agent = delegation[d].agent /\ row.owner = delegation[d].owner
    BY <2>1 DEF RbacTypeOK, DelegationRow, Optional
  <2>3. StatementKeeps(Put("delegation", d, row), u)
    BY <2>1, <2>2 DEF StatementKeeps, Put, DelegationsKeep
  <2> QED BY <2>1, <2>3, ShortListsKeep
<1>10. ASSUME NEW a \in Agents, todo \in Onboard(u, a) PROVE ListKeeps(todo, u)
  <2>1. PICK d \in {e \in Delegations : a \in DelegatesOf(e, u)}, p \in Delegable,
             i \in SessionIds :
            todo = <<NewAgent(a, u), VetDelegation(d, a, p), VetSession(i, a, d)>>
    BY <1>10 DEF Onboard
  <2> QED BY <1>1, <1>2, <2>1, ShortListsKeep
<1>11. ASSUME todo \in LogInMainAgent(u) PROVE ListKeeps(todo, u)
  <2>1. PICK a \in {MainAgent[u]} \ {None},
             d \in {e \in Delegations : MainAgent[u] \in DelegatesOf(e, u)}, i \in SessionIds :
            todo = <<NewAgent(a, u), VetDelegation(d, a, None), VetSession(i, a, d)>>
    BY <1>11 DEF LogInMainAgent
  <2> QED BY <1>1, <1>2, <2>1, ShortListsKeep
<1>12. ASSUME todo \in LogIn(c, u) PROVE ListKeeps(todo, u)
  <2>1. PICK i \in SessionIds, row \in SessionRow : todo = <<Put("session", i, row)>>
    BY <1>12 DEF LogIn, SessionRow, Tokens
  <2> QED BY <1>1, <2>1, ShortListsKeep
<1>13. \/ \E v \in Users : todo \in CreateUser(u, v) \/ todo \in DisableUser(u, v)
       \/ \E a \in Agents : todo \in DisableAgent(u, a) \/ todo \in Onboard(u, a)
       \/ \E i \in Assignments : todo \in AssignRole(u, i) \/ todo \in RevokeRole(u, i)
       \/ \E d \in Delegations : todo \in CreateDelegation(u, d) \/ todo \in RevokeDelegation(u, d)
       \/ todo \in LogInMainAgent(u)
       \/ todo \in LogIn(c, u)
  BY DEF Programs
<1> QED BY <1>3, <1>4, <1>5, <1>6, <1>7, <1>8, <1>9, <1>10, <1>11, <1>12, <1>13

\* Calls without a check keep the ids.
LEMMA UncheckedKeep ==
    ASSUME NEW todo \in Unchecked, NEW by
    PROVE  ListKeeps(todo, by)
<1>1. \/ \E r, p : todo = <<Put("role", r, p)>>
      \/ \E i, x : todo = <<RevokeRow(i, x)>>
  BY DEF Unchecked, SaveRole, RevokeSession
<1>2. /\ \A r, p : StatementKeeps(Put("role", r, p), by)
      /\ \A i, x : StatementKeeps(RevokeRow(i, x), by)
  BY DEF StatementKeeps, Put, RevokeRow
<1> QED BY <1>1, <1>2, ShortListsKeep


\* What the tables a subject's grants are read from have to say of it.
Base(x) == IF x \in Users THEN x ELSE agent[x].owner

DelegatedAlike(a, o) ==
    UNION {delegation[d].permissions :
           d \in {e \in DelegationsOf(a) : /\ delegation[e].status = "active"
                                           /\ delegation[e].owner = o}}

\* A step leaves the grants of a subject alone that leaves its own row, those
\* of the user behind it and its delegations alone.
LEMMA GrantsStay ==
    ASSUME NEW x \in Subjects,
           x \notin Users => agent'[x] = agent[x],
           x \in Users \/ agent[x] # None =>
                /\ ActiveUser(Base(x))' = ActiveUser(Base(x))
                /\ PermissionsOf(Base(x))' = PermissionsOf(Base(x)),
           x \notin Users => DelegatedAlike(x, Base(x))' = DelegatedAlike(x, Base(x))
    PROVE  GrantsOf(x)' = GrantsOf(x)
<1>1. CASE x \in Users
  <2>1. GrantsOf(x) = IF ActiveUser(x) THEN PermissionsOf(x) ELSE {}
    BY <1>1 DEF GrantsOf
  <2>2. GrantsOf(x)' = IF ActiveUser(x)' THEN PermissionsOf(x)' ELSE {}
    BY <1>1 DEF GrantsOf
  <2>3. ActiveUser(x)' = ActiveUser(x) /\ PermissionsOf(x)' = PermissionsOf(x)
    BY <1>1 DEF Base
  <2> QED BY <2>1, <2>2, <2>3
<1>2. CASE x \notin Users /\ agent[x] = None
  BY <1>2 DEF GrantsOf, ActiveAgent
<1>3. CASE x \notin Users /\ agent[x] # None
  <2> DEFINE o == agent[x].owner
  <2>1. GrantsOf(x) = IF ~ActiveAgent(x) \/ ~ActiveUser(o) THEN {}
                      ELSE PermissionsOf(o) \X DelegatedAlike(x, o)
    BY <1>3 DEF GrantsOf, DelegatedAlike
  <2>2. GrantsOf(x)' = IF ~ActiveAgent(x)' \/ ~ActiveUser(o)' THEN {}
                       ELSE PermissionsOf(o)' \X DelegatedAlike(x, o)'
    BY <1>3 DEF GrantsOf, DelegatedAlike
  <2>3. ActiveAgent(x)' = ActiveAgent(x)
    BY <1>3 DEF ActiveAgent
  <2>4. ActiveUser(o)' = ActiveUser(o) /\ PermissionsOf(o)' = PermissionsOf(o)
        /\ DelegatedAlike(x, o)' = DelegatedAlike(x, o)
    BY <1>3 DEF Base
  <2> HIDE DEF o
  <2> QED BY <2>1, <2>2, <2>3, <2>4
<1> QED BY <1>1, <1>2, <1>3

\* A step that leaves the assignments to a user and the roles assigned alone.
LEMMA PermissionsStay ==
    ASSUME NEW u,
           \A i \in Assignments : /\ assignment[i] # None /\ assignment[i].user = u
                                        => assignment'[i] = assignment[i]
                                  /\ assignment'[i] # None /\ assignment'[i].user = u
                                        => assignment'[i] = assignment[i],
           \A i \in Assignments : assignment[i] # None /\ assignment[i].user = u
                => role'[assignment[i].role] = role[assignment[i].role]
    PROVE  PermissionsOf(u)' = PermissionsOf(u)
<1>1. AssignedRoles(u)' = AssignedRoles(u)
  BY DEF AssignedRoles
<1>2. \A r \in AssignedRoles(u) : role'[r] = role[r]
  BY DEF AssignedRoles
<1>3. PermissionsOf(u)' = UNION {{[permission |-> p, admin |-> r = AdminRole] : p \in role'[r]} :
                                 r \in AssignedRoles(u)'}
  BY DEF PermissionsOf, PermissionsIn
<1>4. PermissionsOf(u) = UNION {{[permission |-> p, admin |-> r = AdminRole] : p \in role[r]} :
                                r \in AssignedRoles(u)}
  BY DEF PermissionsOf, PermissionsIn
<1> HIDE DEF AssignedRoles
<1> QED BY <1>1, <1>2, <1>3, <1>4

\* A step that leaves the delegations an agent has of an owner alone.
LEMMA DelegatedStays ==
    ASSUME NEW a, NEW o,
           \A d \in Delegations :
                /\ delegation[d] # None /\ delegation[d].agent \in {a, AnyAgent}
                   /\ delegation[d].owner = o => delegation'[d] = delegation[d]
                /\ delegation'[d] # None /\ delegation'[d].agent \in {a, AnyAgent}
                   /\ delegation'[d].owner = o => delegation'[d] = delegation[d]
    PROVE  UNION {delegation'[d].permissions :
                  d \in {e \in DelegationsOf(a)' : /\ delegation'[e].status = "active"
                                                   /\ delegation'[e].owner = o}}
           = DelegatedAlike(a, o)
<1> DEFINE old == {e \in DelegationsOf(a) : /\ delegation[e].status = "active"
                                            /\ delegation[e].owner = o}
           new == {e \in DelegationsOf(a)' : /\ delegation'[e].status = "active"
                                             /\ delegation'[e].owner = o}
<1>1. old = new
  BY DEF DelegationsOf
<1>2. \A d \in old : delegation'[d] = delegation[d]
  BY DEF DelegationsOf
<1> HIDE DEF old, new
<1>3. UNION {delegation'[d].permissions : d \in new} = UNION {delegation[d].permissions : d \in old}
  BY <1>1, <1>2
<1> QED BY <1>3 DEF DelegatedAlike, old, new


\* A subject that is told of changes, before or after a step.
Told(x) == x \in Users \/ Named(x)

\* Who was told of a change before the statement was made.
LEMMA ToldBase ==
    ASSUME TablesOK, NEW x \in Subjects, Told(x)
    PROVE  /\ Base(x) \in Users
           /\ x \in UserAtRoot(Base(x))
           /\ x \notin Users => /\ agent[x] # None
                                /\ \E d \in Delegations : /\ delegation[d] # None
                                                          /\ delegation[d].owner = Base(x)
                                                          /\ delegation[d].agent = x
<1>1. CASE x \in Users
  BY <1>1 DEF Base, UserAtRoot
<1>2. CASE x \notin Users
  <2>1. agent[x] # None /\ x \in NamedAgents(agent[x].owner) /\ Base(x) = agent[x].owner
    BY <1>2 DEF Told, Named, Base
  <2>2. x \in Agents
    BY <1>2 DEF Subjects
  <2>3. agent[x] \in AgentRow
    BY <2>1, <2>2 DEF TablesOK, Optional
  <2>4. agent[x].owner \in Users
    BY <2>3 DEF AgentRow
  <2>5. \E d \in Delegations : /\ delegation[d] # None
                               /\ delegation[d].owner = agent[x].owner
                               /\ delegation[d].agent = x
    BY <2>1 DEF NamedAgents
  <2> QED BY <2>1, <2>4, <2>5 DEF UserAtRoot
<1> QED BY <1>1, <1>2

\* What a statement on one table does to a subject whose watermark it does not
\* advance.
Unaffected(s, x) == x \notin Affected(s)' /\ Told(x)'
LeftAlone(x) == Told(x) /\ GrantsOf(x)' = GrantsOf(x)

\* A statement changes the grants of no subject outside Affected: a session,
LEMMA SessionCovered ==
    ASSUME NEW x \in Subjects, Told(x)',
           UNCHANGED <<user, agent, role, assignment, delegation>>
    PROVE  LeftAlone(x)
<1>1. Told(x)
  BY DEF Told, Named, NamedAgents
<1>2. GrantsOf(x)' = GrantsOf(x)
  BY DEF GrantsOf, ActiveUser, ActiveAgent, PermissionsOf, PermissionsIn, AssignedRoles,
         DelegationsOf
<1> QED BY <1>1, <1>2 DEF LeftAlone

\* a user,
LEMMA UserCovered ==
    ASSUME TablesOK, TablesOK', NEW s, NEW x \in Subjects, Unaffected(s, x),
           s.do = "put", s.table = "user", s.id \in Users,
           user' = [user EXCEPT ![s.id] = s.row],
           UNCHANGED <<agent, role, assignment, delegation>>
    PROVE  LeftAlone(x)
<1> DEFINE u == s.id
<1>1. Told(x)
  BY DEF Unaffected, Told, Named, NamedAgents
<1>2. /\ Base(x) \in Users /\ x \in UserAtRoot(Base(x))
      /\ x \notin Users => /\ agent[x] # None
                           /\ \E d \in Delegations : /\ delegation[d] # None
                                                     /\ delegation[d].owner = Base(x)
                                                     /\ delegation[d].agent = x
  BY <1>1, ToldBase
<1>3. /\ \A y : PermissionsOf(y)' = PermissionsOf(y)
      /\ DelegatedAlike(x, Base(x))' = DelegatedAlike(x, Base(x))
      /\ UserAtRoot(u)' = UserAtRoot(u) /\ UserHasRoot(u)' = UserHasRoot(u)
  BY DEF PermissionsOf, PermissionsIn, AssignedRoles, DelegatedAlike, DelegationsOf, Base,
         UserAtRoot, NamedAgents, UserHasRoot
<1>4. x \notin (IF UserHasRoot(u) THEN UserAtRoot(u) ELSE {})
  BY <1>3 DEF Unaffected, Affected
<1>5. CASE Base(x) # u
  <2>1. ActiveUser(Base(x))' = ActiveUser(Base(x))
    BY <1>2, <1>5 DEF ActiveUser, TablesOK, Base
  <2>2. PermissionsOf(Base(x))' = PermissionsOf(Base(x))
    BY <1>3 DEF Base
  <2>3. x \notin Users => agent'[x] = agent[x]
    OBVIOUS
  <2>4. GrantsOf(x)' = GrantsOf(x)
    BY <1>3, <2>1, <2>2, <2>3, GrantsStay
  <2> QED BY <1>1, <2>4 DEF LeftAlone
<1>6. CASE Base(x) = u
  <2>1. ~UserHasRoot(u)
    BY <1>2, <1>4, <1>6
  <2>2. x \in Users /\ x = u
    BY <1>2, <1>6, <2>1 DEF UserHasRoot, Base
  <2>3. PermissionsOf(x) = {}
    BY <2>1, <2>2 DEF UserHasRoot, PermissionsOf, PermissionsIn, AssignedRoles
  <2>4. PermissionsOf(x)' = {}
    BY <1>3, <2>3
  <2>5. GrantsOf(x) = {}
    BY <2>2, <2>3 DEF GrantsOf
  <2>6. GrantsOf(x)' = {}
    BY <2>2, <2>4 DEF GrantsOf
  <2> QED BY <1>1, <2>5, <2>6 DEF LeftAlone
<1> QED BY <1>5, <1>6

\* an agent,
LEMMA AgentCovered ==
    ASSUME TablesOK, TablesOK', NEW s, NEW x \in Subjects, Unaffected(s, x),
           s.do = "put", s.table = "agent", s.id \in Agents,
           agent' = [agent EXCEPT ![s.id] = s.row],
           UNCHANGED <<user, role, assignment, delegation>>
    PROVE  LeftAlone(x)
<1>1. x \notin Users => agent'[x] = agent[x]
  <2> SUFFICES ASSUME x \notin Users, x = s.id
               PROVE  FALSE
    BY DEF TablesOK
  <2>1. x \in NamedAgents(agent[x].owner)'
    BY DEF Unaffected, Told, Named
  <2>2. AgentHasRoot(x)'
    BY <2>1 DEF NamedAgents, AgentHasRoot, DelegationsOf
  <2>3. x \in Affected(s)'
    BY <2>2 DEF Affected
  <2> QED BY <2>3 DEF Unaffected
<1>2. Base(x)' = Base(x)
  BY <1>1 DEF Base
<1>3. Told(x)
  BY <1>1 DEF Unaffected, Told, Named, NamedAgents
<1>4. ActiveUser(Base(x))' = ActiveUser(Base(x))
  BY <1>2 DEF ActiveUser
<1>5. PermissionsOf(Base(x))' = PermissionsOf(Base(x))
  BY <1>2 DEF PermissionsOf, PermissionsIn, AssignedRoles
<1>6. DelegatedAlike(x, Base(x))' = DelegatedAlike(x, Base(x))
  BY <1>2 DEF DelegatedAlike, DelegationsOf
<1>7. GrantsOf(x)' = GrantsOf(x)
  BY <1>1, <1>4, <1>5, <1>6, GrantsStay
<1> QED BY <1>3, <1>7 DEF LeftAlone

\* a role,
LEMMA RoleCovered ==
    ASSUME TablesOK, TablesOK', NEW s, NEW x \in Subjects, Unaffected(s, x),
           s.do = "put", s.table = "role", s.id \in Roles,
           role' = [role EXCEPT ![s.id] = s.row],
           UNCHANGED <<user, agent, assignment, delegation>>
    PROVE  LeftAlone(x)
<1>1. Told(x)
  BY DEF Unaffected, Told, Named, NamedAgents
<1>2. Base(x) \in Users /\ x \in UserAtRoot(Base(x))
  BY <1>1, ToldBase
<1>3. \A i \in Assignments : assignment[i] # None /\ assignment[i].user = Base(x)
            => role'[assignment[i].role] = role[assignment[i].role]
  <2> SUFFICES ASSUME NEW i \in Assignments, assignment[i] # None, assignment[i].user = Base(x),
                      assignment[i].role = s.id
               PROVE  FALSE
    BY DEF TablesOK, Optional, AssignmentRow
  <2>1. Affected(s)' = UNION {UserAtRoot(assignment[j].user)' :
                              j \in {k \in Assignments : /\ assignment[k] # None
                                                         /\ assignment[k].role = s.id}}
    BY DEF Affected
  <2>2. UserAtRoot(Base(x))' = UserAtRoot(Base(x))
    BY DEF UserAtRoot, NamedAgents, Base
  <2>3. UserAtRoot(assignment[i].user)' = UserAtRoot(Base(x))
    BY DEF UserAtRoot, NamedAgents
  <2>4. x \in Affected(s)'
    BY <1>2, <2>1, <2>3
  <2> QED BY <2>4 DEF Unaffected
<1>4. Base(x)' = Base(x)
  BY DEF Base
<1>5. PermissionsOf(Base(x))' = PermissionsOf(Base(x))
  <2> DEFINE u == Base(x)
  <2>1. u' = u
    BY <1>4
  <2> HIDE DEF u
  <2>2. \A i \in Assignments : assignment[i] # None /\ assignment[i].user = u
            => role'[assignment[i].role] = role[assignment[i].role]
    BY <1>3 DEF u
  <2>3. PICK v : v = u
    OBVIOUS
  <2>4. PermissionsOf(v)' = PermissionsOf(v)
    BY <2>2, <2>3, PermissionsStay
  <2> QED BY <2>1, <2>3, <2>4 DEF u, PermissionsOf, AssignedRoles
<1>6. ActiveUser(Base(x))' = ActiveUser(Base(x))
  BY <1>4 DEF ActiveUser
<1>7. DelegatedAlike(x, Base(x))' = DelegatedAlike(x, Base(x))
  BY <1>4 DEF DelegatedAlike, DelegationsOf
<1>8. GrantsOf(x)' = GrantsOf(x)
  BY <1>5, <1>6, <1>7, GrantsStay
<1> QED BY <1>1, <1>8 DEF LeftAlone


\* an assignment,
LEMMA AssignmentCovered ==
    ASSUME TablesOK, TablesOK', NEW s, NEW x \in Subjects, Unaffected(s, x),
           IdsAreNotReused, AssignmentsKeep,
           s.do = "put", s.table = "assignment", s.id \in Assignments, s.row \in AssignmentRow,
           <<s.row.user, s.row.role>> \in Holders[s.id],
           assignment' = [assignment EXCEPT ![s.id] = s.row],
           UNCHANGED <<user, agent, role, delegation>>
    PROVE  LeftAlone(x)
<1>1. Told(x)
  BY DEF Unaffected, Told, Named, NamedAgents
<1>2. Base(x) \in Users /\ x \in UserAtRoot(Base(x))
  BY <1>1, ToldBase
<1>3. Base(x)' = Base(x)
  BY DEF Base
<1>4. Base(x) # s.row.user
  <2> SUFFICES ASSUME Base(x) = s.row.user
               PROVE  FALSE
    OBVIOUS
  <2>1. Affected(s)' = UserAtRoot(s.row.user)'
    BY DEF Affected
  <2>2. UserAtRoot(s.row.user)' = UserAtRoot(s.row.user)
    BY DEF UserAtRoot, NamedAgents
  <2> QED BY <1>2, <2>1, <2>2 DEF Unaffected
<1>5. assignment[s.id] # None => assignment[s.id].user = s.row.user
  <2> SUFFICES ASSUME assignment[s.id] # None
               PROVE  assignment[s.id].user = s.row.user
    OBVIOUS
  <2>1. <<assignment[s.id].user, assignment[s.id].role>> \in Holders[s.id]
    BY DEF AssignmentsKeep
  <2>2. \A g, h \in Holders[s.id] : g[1] = h[1]
    BY DEF IdsAreNotReused
  <2>3. <<assignment[s.id].user, assignment[s.id].role>>[1] = <<s.row.user, s.row.role>>[1]
    BY <2>1, <2>2
  <2> QED BY <2>3
<1>6. PICK v : v = Base(x)
  OBVIOUS
<1>7. \A i \in Assignments :
        /\ assignment[i] # None /\ assignment[i].user = v => assignment'[i] = assignment[i]
        /\ assignment'[i] # None /\ assignment'[i].user = v => assignment'[i] = assignment[i]
  BY <1>4, <1>5, <1>6 DEF TablesOK
<1>8. PermissionsOf(v)' = PermissionsOf(v)
  BY <1>7, PermissionsStay
<1>9. PermissionsOf(Base(x))' = PermissionsOf(Base(x))
  BY <1>3, <1>6, <1>8 DEF PermissionsOf, AssignedRoles
<1>10. ActiveUser(Base(x))' = ActiveUser(Base(x))
  BY <1>3 DEF ActiveUser
<1>11. DelegatedAlike(x, Base(x))' = DelegatedAlike(x, Base(x))
  BY <1>3 DEF DelegatedAlike, DelegationsOf
<1>12. GrantsOf(x)' = GrantsOf(x)
  BY <1>9, <1>10, <1>11, GrantsStay
<1> QED BY <1>1, <1>12 DEF LeftAlone

\* a delegation.
LEMMA DelegationCovered ==
    ASSUME TablesOK, TablesOK', NEW s, NEW x \in Subjects, Unaffected(s, x),
           IdsAreNotReused, DelegationsKeep,
           s.do = "put", s.table = "delegation", s.id \in Delegations, s.row \in DelegationRow,
           <<s.row.agent, s.row.owner>> \in Delegates[s.id],
           delegation' = [delegation EXCEPT ![s.id] = s.row],
           UNCHANGED <<user, agent, role, assignment>>
    PROVE  LeftAlone(x)
<1>1. /\ delegation' \in [Delegations -> Optional(DelegationRow)]
      /\ delegation'[s.id] = s.row
      /\ \A d \in Delegations : d # s.id => delegation'[d] = delegation[d]
  BY DEF TablesOK
<1>2. delegation[s.id] # None =>
        /\ delegation[s.id].agent = s.row.agent
        /\ s.row.agent = AnyAgent => delegation[s.id].owner = s.row.owner
  <2> SUFFICES ASSUME delegation[s.id] # None
               PROVE  /\ delegation[s.id].agent = s.row.agent
                      /\ s.row.agent = AnyAgent => delegation[s.id].owner = s.row.owner
    OBVIOUS
  <2> DEFINE g == <<s.row.agent, s.row.owner>>
             h == <<delegation[s.id].agent, delegation[s.id].owner>>
  <2>1. g \in Delegates[s.id] /\ h \in Delegates[s.id]
    BY DEF DelegationsKeep
  <2>2. g[1] = h[1] /\ (g[1] = AnyAgent => g[2] = h[2])
    BY <2>1 DEF IdsAreNotReused
  <2> QED BY <2>2
<1>3. CASE x \in Users
  <2>1. GrantsOf(x)' = GrantsOf(x)
    BY <1>3 DEF GrantsOf, ActiveUser, PermissionsOf, PermissionsIn, AssignedRoles
  <2> QED BY <1>3, <2>1 DEF LeftAlone, Told
<1>4. CASE x \notin Users
  <2>1. PICK e \in Delegations : /\ delegation'[e] # None
                                 /\ delegation'[e].owner = agent[x].owner
                                 /\ delegation'[e].agent = x
    BY <1>4 DEF Unaffected, Told, Named, NamedAgents
  <2>2. agent[x] # None /\ x \in Agents /\ x # AnyAgent
    BY <1>4, RbacAssumption DEF Unaffected, Told, Named, Subjects
  <2> DEFINE o == agent[x].owner
  <2>3. IF s.row.agent = AnyAgent THEN s.row.owner # o ELSE s.row.agent # x
    <3>1. CASE s.row.agent = AnyAgent
      <4>1. Affected(s)' = UserAtRoot(s.row.owner)'
        BY <3>1 DEF Affected
      <4>2. x \in UserAtRoot(o)'
        BY <2>1, <2>2 DEF UserAtRoot, NamedAgents
      <4>3. s.row.owner = o => UserAtRoot(s.row.owner)' = UserAtRoot(o)'
        BY DEF UserAtRoot, NamedAgents
      <4> QED BY <3>1, <4>1, <4>2, <4>3 DEF Unaffected
    <3>2. CASE s.row.agent # AnyAgent
      <4>1. Affected(s)' = {s.row.agent}
        BY <3>2 DEF Affected
      <4> QED BY <3>2, <4>1 DEF Unaffected
    <3> QED BY <3>1, <3>2
  <2>4. \A d \in Delegations :
            /\ delegation[d] # None /\ delegation[d].agent \in {x, AnyAgent}
               /\ delegation[d].owner = o => delegation'[d] = delegation[d]
            /\ delegation'[d] # None /\ delegation'[d].agent \in {x, AnyAgent}
               /\ delegation'[d].owner = o => delegation'[d] = delegation[d]
    BY <1>1, <1>2, <2>3
  <2>5. Told(x)
    <3>1. delegation'[e] = delegation[e]
      BY <2>1, <2>4
    <3>2. x \in NamedAgents(o)
      BY <2>1, <2>2, <3>1 DEF NamedAgents
    <3> QED BY <2>2, <3>2 DEF Told, Named
  <2>6. Base(x) = o /\ Base(x)' = o
    BY <1>4 DEF Base
  <2> HIDE DEF o
  <2>7. DelegatedAlike(x, Base(x))' = DelegatedAlike(x, Base(x))
    <3>1. UNION {delegation'[d].permissions :
                 d \in {f \in DelegationsOf(x)' : /\ delegation'[f].status = "active"
                                                  /\ delegation'[f].owner = o}}
          = DelegatedAlike(x, o)
      BY <2>4, DelegatedStays
    <3>2. DelegatedAlike(x, Base(x))'
          = UNION {delegation'[d].permissions :
                   d \in {f \in DelegationsOf(x)' : /\ delegation'[f].status = "active"
                                                    /\ delegation'[f].owner = Base(x)'}}
      BY DEF DelegatedAlike
    <3> QED BY <2>6, <3>1, <3>2
  <2>8. /\ ActiveUser(Base(x))' = ActiveUser(Base(x))
        /\ PermissionsOf(Base(x))' = PermissionsOf(Base(x))
    BY <2>6 DEF ActiveUser, PermissionsOf, PermissionsIn, AssignedRoles
  <2>9. GrantsOf(x)' = GrantsOf(x)
    BY <1>4, <2>7, <2>8, GrantsStay
  <2> QED BY <2>5, <2>9 DEF LeftAlone
<1> QED BY <1>3, <1>4


\* A statement that Perform carries out leaves those alone whose watermark it
\* does not advance.
LEMMA StatementCovered ==
    ASSUME TablesOK, TablesOK', IdsAreNotReused, AssignmentsKeep, DelegationsKeep,
           NEW s \in PutStatement, NEW by, StatementKeeps(s, by),
           user' = Written(user, "user", s),
           agent' = Written(agent, "agent", s),
           role' = Written(role, "role", s),
           assignment' = Written(assignment, "assignment", s),
           delegation' = Written(delegation, "delegation", s),
           NEW x \in Subjects, Unaffected(s, x)
    PROVE  LeftAlone(x)
<1>1. CASE s.do = "revoke-session" \/ s.table = "session"
  BY <1>1, SessionCovered DEF Written, Unaffected
<1>2. CASE s.do = "put" /\ s.table = "user"
  BY <1>2, StatementFields, UserCovered DEF Written
<1>3. CASE s.do = "put" /\ s.table = "agent"
  BY <1>3, StatementFields, AgentCovered DEF Written
<1>4. CASE s.do = "put" /\ s.table = "role"
  BY <1>4, StatementFields, RoleCovered DEF Written
<1>5. CASE s.do = "put" /\ s.table = "assignment"
  <2>1. <<s.row.user, s.row.role>> \in Holders[s.id]
    BY <1>5 DEF StatementKeeps
  <2> QED BY <1>5, <2>1, StatementFields, AssignmentCovered DEF Written
<1>6. CASE s.do = "put" /\ s.table = "delegation"
  <2>1. <<s.row.agent, s.row.owner>> \in Delegates[s.id]
    BY <1>6 DEF StatementKeeps
  <2> QED BY <1>6, <2>1, StatementFields, DelegationCovered DEF Written
<1> QED BY <1>1, <1>2, <1>3, <1>4, <1>5, <1>6, StatementFields

\* Rows written by a statement that keeps to its ids keep to them.
LEMMA RowsKeep ==
    ASSUME TablesOK, AssignmentsKeep, DelegationsKeep,
           NEW s \in PutStatement, NEW by, StatementKeeps(s, by),
           assignment' = Written(assignment, "assignment", s),
           delegation' = Written(delegation, "delegation", s)
    PROVE  AssignmentsKeep' /\ DelegationsKeep'
<1>1. AssignmentsKeep'
  BY StatementFields DEF AssignmentsKeep, StatementKeeps, Written, TablesOK
<1>2. DelegationsKeep'
  BY StatementFields DEF DelegationsKeep, StatementKeeps, Written, TablesOK
<1> QED BY <1>1, <1>2

\* A step of one call.
LEMMA CallKeeps ==
    ASSUME RbacInv, CallsKeep, UnusedOwesNothing, NEW c \in Callers, NEW k \in Call,
           call' = [call EXCEPT ![c] = k],
           ListKeeps(k.todo, k.actor),
           k.state = "unused" => k.todo = <<>> /\ k.due = {}
    PROVE  CallsKeep' /\ UnusedOwesNothing'
BY DEF RbacInv, RbacTypeOK, CallsKeep, UnusedOwesNothing

\* A step that moves no watermark and leaves every subject alone that is settled
\* after it.
LEMMA StepCovers ==
    ASSUME WatermarkCoversChange, Witness, UNCHANGED watermark,
           \A x \in Subjects : Settled(x)' /\ Told(x)' => Settled(x) /\ LeftAlone(x)
    PROVE  WatermarkCoversChange'
<1> SUFFICES ASSUME NEW x \in Subjects, Settled(x)', Told(x)'
             PROVE  GrantsOf(x)' = versioned'[x]
  BY DEF WatermarkCoversChange, Told
<1>1. Settled(x) /\ Told(x) /\ GrantsOf(x)' = GrantsOf(x)
  BY DEF LeftAlone
<1>2. GrantsOf(x) = versioned[x]
  BY <1>1 DEF WatermarkCoversChange, Told
<1>3. versioned'[x] = versioned[x]
  BY DEF Witness
<1> QED BY <1>1, <1>2, <1>3

\* A statement leaves the watermarks it owes to the steps after it.
LEMMA PerformCovers ==
    ASSUME WatermarkInv, NEW c \in Callers, Perform(c)
    PROVE  WatermarkInv'
<1> USE DEF WatermarkInv
<1>1. /\ call[c].todo # <<>> /\ call[c].due = {}
      /\ UNCHANGED watermark
      /\ Witness
  BY DEF Perform
<1>2. PICK s \in {Head(call[c].todo)} :
        /\ s.do # "vet"
        /\ user' = Written(user, "user", s)
        /\ agent' = Written(agent, "agent", s)
        /\ role' = Written(role, "role", s)
        /\ assignment' = Written(assignment, "assignment", s)
        /\ delegation' = Written(delegation, "delegation", s)
        /\ call' = [call EXCEPT ![c].todo = Tail(@), ![c].due = Affected(s)']
  BY DEF Perform
<1>3. RbacInv'
  BY PerformInv
<1>4. /\ call[c] \in Call /\ call[c].todo \in Seq(Statement)
      /\ ListKeeps(call[c].todo, call[c].actor)
  <2>1. Doable \subseteq Statement
    BY DEF Doable
  <2> QED BY <2>1 DEF RbacInv, RbacTypeOK, CallsKeep
<1>5. /\ s \in PutStatement
      /\ StatementKeeps(s, call[c].actor) /\ ListKeeps(Tail(call[c].todo), call[c].actor)
  BY <1>1, <1>2, <1>4, HeadAndTail, HeadAndTailKeep, StatementFields DEF Statement
<1>6. TablesOK /\ TablesOK'
  BY <1>3 DEF RbacInv, RbacTypeOK, TablesOK
<1>7. AssignmentsKeep' /\ DelegationsKeep'
  BY <1>2, <1>5, <1>6, RowsKeep
<1>8. /\ call'[c].due = Affected(s)' /\ call'[c].todo = Tail(call[c].todo)
      /\ call'[c].actor = call[c].actor /\ call'[c].state = call[c].state
      /\ \A d \in Callers : d # c => call'[d] = call[d]
  BY <1>2, <1>4 DEF RbacInv, RbacTypeOK, Call
<1>9. UnusedOwesNothing' /\ CallsKeep'
  BY <1>1, <1>5, <1>8 DEF UnusedOwesNothing, CallsKeep
<1>10. ASSUME NEW x \in Subjects, Settled(x)', Told(x)'
       PROVE  Settled(x) /\ LeftAlone(x)
  <2>1. Settled(x)
    BY <1>1, <1>8, <1>10 DEF Settled
  <2>2. Unaffected(s, x)
    BY <1>8, <1>10 DEF Settled, Unaffected
  <2>3. LeftAlone(x)
    BY <1>2, <1>5, <1>6, <2>2, StatementCovered
  <2> QED BY <2>1, <2>3
<1>11. WatermarkCoversChange'
  BY <1>1, <1>10, StepCovers
<1> QED BY <1>3, <1>7, <1>9, <1>11

\* A watermark that moves covers the change.
LEMMA AdvanceCovers ==
    ASSUME WatermarkInv, NEW c \in Callers, Advance(c)
    PROVE  WatermarkInv'
<1> USE DEF WatermarkInv
<1>1. PICK s \in call[c].due :
        /\ watermark' = [watermark EXCEPT ![s] = @ + 1]
        /\ call' = [call EXCEPT ![c].due = @ \ {s}]
        /\ UNCHANGED <<tables, request>>
        /\ Witness
  BY DEF Advance
<1>2. RbacInv'
  BY AdvanceInv
<1>3. call[c] \in Call /\ s \in Subjects
  BY <1>1 DEF RbacInv, RbacTypeOK, Call
<1>4. /\ call'[c].due = call[c].due \ {s} /\ call'[c].todo = call[c].todo
      /\ call'[c].actor = call[c].actor /\ call'[c].state = call[c].state
      /\ \A d \in Callers : d # c => call'[d] = call[d]
  BY <1>1, <1>3 DEF RbacInv, RbacTypeOK, Call
<1>5. UnusedOwesNothing' /\ CallsKeep' /\ AssignmentsKeep' /\ DelegationsKeep'
  BY <1>1, <1>4 DEF UnusedOwesNothing, CallsKeep, AssignmentsKeep, DelegationsKeep, tables
<1>6. ASSUME NEW x \in Subjects, Settled(x)', Told(x)'
      PROVE  GrantsOf(x)' = versioned'[x]
  <2>1. CASE x = s
    <3>1. watermark'[s] # watermark[s]
      BY <1>1, <1>3 DEF RbacInv, RbacTypeOK
    <3> QED BY <1>1, <2>1, <3>1 DEF Witness
  <2>2. CASE x # s
    <3>1. Settled(x)
      BY <1>4, <1>6, <2>2 DEF Settled
    <3>2. LeftAlone(x)
      BY <1>1, <1>6, SessionCovered DEF tables
    <3>3. versioned'[x] = versioned[x]
      BY <1>1, <2>2 DEF Witness, RbacInv, RbacTypeOK
    <3> QED BY <3>1, <3>2, <3>3 DEF LeftAlone, Told, WatermarkCoversChange
  <2> QED BY <2>1, <2>2
<1>7. WatermarkCoversChange'
  BY <1>6 DEF WatermarkCoversChange, Told
<1> QED BY <1>2, <1>5, <1>7

\* A step of a call that writes no row and owes no less than before.
LEMMA CallCovers ==
    ASSUME WatermarkInv, RbacInv', NEW c \in Callers, NEW k \in Call,
           call' = [call EXCEPT ![c] = k], ListKeeps(k.todo, k.actor),
           k.due = call[c].due,
           k.state = "unused" => k.todo = <<>> /\ k.due = {},
           UNCHANGED <<tables, watermark>>, Witness
    PROVE  WatermarkInv'
<1> USE DEF WatermarkInv
<1>1. CallsKeep' /\ UnusedOwesNothing'
  BY CallKeeps
<1>2. AssignmentsKeep' /\ DelegationsKeep'
  BY DEF AssignmentsKeep, DelegationsKeep, tables
<1>3. ASSUME NEW x \in Subjects, Settled(x)', Told(x)'
      PROVE  Settled(x) /\ LeftAlone(x)
  <2>1. Settled(x)
    BY <1>3 DEF Settled, RbacInv, RbacTypeOK
  <2>2. LeftAlone(x)
    BY <1>3, SessionCovered DEF tables
  <2> QED BY <2>1, <2>2
<1>4. WatermarkCoversChange'
  BY <1>3, StepCovers
<1> QED BY <1>1, <1>2, <1>4

\* A call that starts has changed nothing.
LEMMA StartCovers ==
    ASSUME WatermarkInv, NEW c \in Callers, Start(c)
    PROVE  WatermarkInv'
<1> USE DEF WatermarkInv
<1>1. /\ UNCHANGED <<tables, watermark>> /\ Witness
      /\ call[c].state = "unused"
  BY DEF Start
<1>2. RbacInv'
  BY StartInv
<1>3. call[c].due = {}
  BY <1>1 DEF UnusedOwesNothing
<1>4. PICK by, todo : call' = [call EXCEPT ![c] = Made(by, todo)] /\ ListKeeps(todo, by)
  <2>1. CASE \E u \in Users : \E todo \in Programs(c, u) :
                call' = [call EXCEPT ![c] = Made(u, todo)]
    BY <2>1, ProgramsKeep DEF RbacInv
  <2>2. CASE \E todo \in Unchecked : call' = [call EXCEPT ![c] = Made(None, todo)]
    BY <2>2, UncheckedKeep
  <2> QED BY <2>1, <2>2 DEF Start
<1> DEFINE k == Made(by, todo)
<1>5. /\ k.due = {} /\ k.todo = todo /\ k.actor = by /\ k.state = "made"
  BY DEF Made
<1>6. k \in Call
  <2>1. call'[c] = k /\ call'[c] \in Call
    BY <1>2, <1>4 DEF RbacInv, RbacTypeOK
  <2> QED BY <2>1
<1>7. call' = [call EXCEPT ![c] = k]
  BY <1>4
<1> HIDE DEF k
<1> QED BY <1>1, <1>2, <1>3, <1>4, <1>5, <1>6, <1>7, CallCovers

\* A check changes nothing.
LEMMA VetCovers ==
    ASSUME WatermarkInv, NEW c \in Callers, Vet(c)
    PROVE  WatermarkInv'
<1> USE DEF WatermarkInv
<1> DEFINE s == Head(call[c].todo)
           by == call[c].actor
           todo == IF Admissible(by, s) THEN <<Vetted(c, by, s)>> \o Tail(call[c].todo) ELSE <<>>
           k == [call[c] EXCEPT !.todo = todo]
<1>1. /\ call[c].todo # <<>> /\ s.do = "vet"
      /\ call' = [call EXCEPT ![c].todo = todo]
      /\ UNCHANGED <<tables, watermark>> /\ Witness
  BY DEF Vet
<1>2. RbacInv'
  BY VetInv
<1>3. /\ call[c] \in Call /\ call[c].todo \in Seq(Statement)
      /\ ListKeeps(call[c].todo, by)
  <2>1. Doable \subseteq Statement
    BY DEF Doable
  <2> QED BY <2>1 DEF RbacInv, RbacTypeOK, CallsKeep
<1>4. /\ s \in VetStatement /\ StatementKeeps(s, by)
      /\ Tail(call[c].todo) \in Seq(Statement) /\ ListKeeps(Tail(call[c].todo), by)
  BY <1>1, <1>3, HeadAndTail, HeadAndTailKeep, StatementFields DEF Statement
<1>5. StatementKeeps(Vetted(c, by, s), by)
  <2> HIDE DEF s, by
  <2>1. CASE s.what = "assignment"
    BY <1>1, <1>4, <2>1 DEF Vetted, Put, StatementKeeps
  <2>2. CASE s.what = "delegation"
    BY <1>1, <1>4, <2>2 DEF Vetted, Put, StatementKeeps, DelegationBy
  <2>3. CASE s.what = "session"
    BY <1>1, <1>4, <2>3 DEF Vetted, Put, StatementKeeps
  <2> QED BY <1>4, <2>1, <2>2, <2>3, StatementFields
<1>6. k \in Call /\ k.todo = todo
  <2>1. call'[c] = k /\ call'[c] \in Call
    BY <1>1, <1>2 DEF RbacInv, RbacTypeOK
  <2> QED BY <1>3, <2>1 DEF Call
<1>7. ListKeeps(todo, by)
  <2>1. CASE Admissible(by, s)
    BY <1>4, <1>5, <2>1, PushKeeps
  <2>2. CASE ~Admissible(by, s)
    BY <2>2, ShortListsKeep
  <2> QED BY <2>1, <2>2
<1>8. /\ call' = [call EXCEPT ![c] = k]
      /\ k.due = call[c].due /\ k.actor = by /\ k.state = call[c].state
  BY <1>1, <1>3 DEF RbacInv, RbacTypeOK, Call
<1>9. k.state # "unused"
  BY <1>1, <1>8 DEF UnusedOwesNothing
<1> HIDE DEF k, todo, by, s
<1> QED BY <1>1, <1>2, <1>6, <1>7, <1>8, <1>9, CallCovers

\* A call that dies owes its watermarks for ever: its subjects are not settled.
LEMMA DieCovers ==
    ASSUME WatermarkInv, NEW c \in Callers, Die(c)
    PROVE  WatermarkInv'
<1> USE DEF WatermarkInv
<1> DEFINE k == [call[c] EXCEPT !.state = "dead", !.todo = <<>>]
<1>1. /\ call' = [call EXCEPT ![c].state = "dead", ![c].todo = <<>>]
      /\ UNCHANGED <<tables, watermark>> /\ Witness
  BY DEF Die
<1>2. RbacInv'
  BY DieInv
<1>3. call' = [call EXCEPT ![c] = k]
  BY <1>1 DEF RbacInv, RbacTypeOK
<1>4. k \in Call
  <2>1. call'[c] = k /\ call'[c] \in Call
    BY <1>2, <1>3 DEF RbacInv, RbacTypeOK
  <2> QED BY <2>1
<1>5. /\ k.due = call[c].due /\ k.todo = <<>> /\ k.state = "dead"
  BY DEF RbacInv, RbacTypeOK, Call
<1>6. ListKeeps(k.todo, k.actor)
  BY <1>5, ShortListsKeep
<1> HIDE DEF k
<1> QED BY <1>1, <1>2, <1>3, <1>4, <1>5, <1>6, CallCovers

\* A delegation that expires takes nothing from what its rows grant.
LEMMA ExpireCovers ==
    ASSUME WatermarkInv, NEW d \in Delegations, Expire(d)
    PROVE  WatermarkInv'
<1> USE DEF WatermarkInv
<1>1. /\ delegation[d] # None
      /\ delegation' = [delegation EXCEPT ![d].expired = TRUE]
      /\ UNCHANGED <<user, agent, role, assignment, session, watermark, call>>
      /\ Witness
  BY DEF Expire
<1>2. RbacInv'
  BY ExpireInv
<1>3. \A e \in Delegations :
        /\ delegation'[e] # None <=> delegation[e] # None
        /\ delegation[e] # None =>
            /\ delegation'[e].agent = delegation[e].agent
            /\ delegation'[e].owner = delegation[e].owner
            /\ delegation'[e].permissions = delegation[e].permissions
            /\ delegation'[e].status = delegation[e].status
  <2>1. delegation[d] \in DelegationRow /\ delegation'[d] # None
    <3>1. delegation[d] \in DelegationRow
      BY <1>1 DEF RbacInv, RbacTypeOK, Optional
    <3>2. [delegation[d] EXCEPT !.expired = TRUE] \in DelegationRow
      BY <3>1 DEF DelegationRow
    <3>3. delegation'[d] = [delegation[d] EXCEPT !.expired = TRUE]
      BY <1>1 DEF RbacInv, RbacTypeOK
    <3> QED BY <3>1, <3>2, <3>3, RbacAssumption
  <2> QED BY <1>1, <2>1 DEF RbacInv, RbacTypeOK, DelegationRow
<1>4. /\ CallsKeep' /\ UnusedOwesNothing' /\ AssignmentsKeep'
      /\ DelegationsKeep'
  BY <1>1, <1>3 DEF CallsKeep, UnusedOwesNothing, AssignmentsKeep, DelegationsKeep
<1>5. ASSUME NEW x \in Subjects, Settled(x)', Told(x)'
      PROVE  Settled(x) /\ LeftAlone(x)
  <2>1. Settled(x)
    BY <1>1, <1>5 DEF Settled
  <2>2. Told(x)
    BY <1>1, <1>3, <1>5 DEF Told, Named, NamedAgents
  <2>3. DelegationsOf(x)' = DelegationsOf(x)
    BY <1>3 DEF DelegationsOf
  <2>4. DelegatedAlike(x, Base(x))' = DelegatedAlike(x, Base(x))
    <3> DEFINE o == Base(x)
               old == {e \in DelegationsOf(x) : /\ delegation[e].status = "active"
                                                /\ delegation[e].owner = o}
               new == {e \in DelegationsOf(x)' : /\ delegation'[e].status = "active"
                                                 /\ delegation'[e].owner = o}
    <3>1. Base(x)' = o
      BY <1>1 DEF Base
    <3>2. /\ DelegatedAlike(x, Base(x)) = UNION {delegation[e].permissions : e \in old}
          /\ DelegatedAlike(x, Base(x))' = UNION {delegation'[e].permissions : e \in new}
      BY <3>1 DEF DelegatedAlike
    <3>3. \A e \in DelegationsOf(x) : e \in Delegations /\ delegation[e] # None
      BY DEF DelegationsOf
    <3> HIDE DEF o
    <3>4. old = new /\ \A e \in old : delegation'[e].permissions = delegation[e].permissions
      BY <1>3, <2>3, <3>3
    <3> HIDE DEF old, new
    <3> QED BY <3>2, <3>4
  <2>5. /\ x \notin Users => agent'[x] = agent[x]
        /\ ActiveUser(Base(x))' = ActiveUser(Base(x))
        /\ PermissionsOf(Base(x))' = PermissionsOf(Base(x))
    BY <1>1 DEF Base, ActiveUser, PermissionsOf, PermissionsIn, AssignedRoles
  <2>6. GrantsOf(x)' = GrantsOf(x)
    BY <2>4, <2>5, GrantsStay
  <2> QED BY <2>1, <2>2, <2>6 DEF LeftAlone
<1>6. WatermarkCoversChange'
  BY <1>1, <1>5, StepCovers
<1> QED BY <1>2, <1>4, <1>6

\* A step of the request, and no step.
LEMMA QuietCovers ==
    ASSUME WatermarkInv, RbacInv', UNCHANGED <<tables, watermark, call>>,
           Witness \/ UNCHANGED versioned
    PROVE  WatermarkInv'
<1> USE DEF WatermarkInv
<1>1. /\ CallsKeep' /\ UnusedOwesNothing' /\ AssignmentsKeep' /\ DelegationsKeep'
  BY DEF CallsKeep, UnusedOwesNothing, AssignmentsKeep, DelegationsKeep, tables
<1>2. ASSUME NEW x \in Subjects, Settled(x)', Told(x)'
      PROVE  Settled(x) /\ LeftAlone(x)
  <2>1. Settled(x)
    BY <1>2 DEF Settled
  <2>2. LeftAlone(x)
    BY <1>2, SessionCovered DEF tables
  <2> QED BY <2>1, <2>2
<1>3. CASE Witness
  BY <1>1, <1>2, <1>3, StepCovers
<1>4. CASE UNCHANGED versioned
  BY <1>1, <1>2, <1>4 DEF WatermarkCoversChange, LeftAlone, Told
<1> QED BY <1>3, <1>4

\* At first there is no change to cover.
LEMMA InitCovers == IdsAreNotReused /\ RbacInit => WatermarkInv
<1> SUFFICES ASSUME IdsAreNotReused, RbacInit
             PROVE  WatermarkInv
  OBVIOUS
<1>1. RbacInv
  BY InitInv
<1>2. AssignmentsKeep /\ DelegationsKeep
  BY RbacAssumption DEF RbacInit, AssignmentsKeep, DelegationsKeep
<1>3. CallsKeep /\ UnusedOwesNothing
  BY ShortListsKeep DEF RbacInit, CallsKeep, UnusedOwesNothing, Unused
<1>4. WatermarkCoversChange
  BY DEF RbacInit, WatermarkCoversChange
<1> QED BY <1>1, <1>2, <1>3, <1>4 DEF WatermarkInv

\* The invariant is inductive: one case for each action.
LEMMA NextCovers == WatermarkInv /\ [RbacNext]_rbacVars => WatermarkInv'
<1> SUFFICES ASSUME WatermarkInv, [RbacNext]_rbacVars
             PROVE  WatermarkInv'
  OBVIOUS
<1>1. RbacInv'
  BY NextInv DEF WatermarkInv
<1>2. CASE \E c \in Callers : Start(c) \/ Perform(c) \/ Advance(c) \/ Vet(c) \/ Die(c)
  BY <1>2, StartCovers, PerformCovers, AdvanceCovers, VetCovers, DieCovers
<1>3. CASE \E d \in Delegations : Expire(d)
  BY <1>3, ExpireCovers
<1>4. CASE \/ \E ask \in Requests, t \in Tokens : Begin(ask, t)
           \/ Authenticate
           \/ Decide
           \/ Answer
  <2>1. Witness /\ UNCHANGED <<tables, watermark, call>>
    BY <1>4 DEF Begin, Authenticate, Decide, Answer, ReadSession, ReadAssignments, ReadRoles,
                Select
  <2> QED BY <1>1, <2>1, QuietCovers
<1>5. CASE UNCHANGED rbacVars
  <2>1. UNCHANGED <<tables, watermark, call>> /\ UNCHANGED versioned
    BY <1>5 DEF rbacVars
  <2> QED BY <1>1, <2>1, QuietCovers
<1> QED BY <1>2, <1>3, <1>4, <1>5 DEF RbacNext

\* As long as no id of an assignment or a delegation is used again for somebody
\* else, the watermark of a user, or of an agent that a delegation of its owner
\* names, moves after every statement that changes what it may do, however
\* calls overlap and wherever they die (advanceUserAtRoot and its callers).
THEOREM WatermarksCoverChanges == IdsAreNotReused /\ RbacSpec => []WatermarkCoversChange
<1>1. WatermarkInv => WatermarkCoversChange
  BY DEF WatermarkInv
<1> QED BY <1>1, InitCovers, NextCovers, PTL DEF RbacSpec

-----------------------------------------------------------------------------
(* Tokens.                                                                 *)

\* A call issues at most one session, by its last statement.
Issues(s) ==
    \/ s.do = "put" /\ s.table = "session"
    \/ s.do = "vet" /\ s.what = "session"

IssuesLast(todo, c) ==
    \A j \in 1..Len(todo) : Issues(todo[j]) =>
        j = Len(todo) /\ (todo[j].do = "put" => todo[j].row.token = c)

WillIssue(k) == k.state = "unused" \/ \E j \in 1..Len(k.todo) : Issues(k.todo[j])

CallsIssue == \A c \in Callers : IssuesLast(call[c].todo, c)

\* A token is no row's before its call has issued it,
TokensAreNew ==
    \A c \in Callers : WillIssue(call[c]) =>
        \A i \in SessionIds : session[i] # None => session[i].token # c

\* and then of one row.
TokensAreUnique ==
    \A i, j \in SessionIds :
        session[i] # None /\ session[j] # None /\ session[i].token = session[j].token => i = j

UnusedIsEmpty == \A c \in Callers : call[c].state = "unused" => call[c].todo = <<>>

TokenInv ==
    /\ RbacInv
    /\ CallsIssue
    /\ UnusedIsEmpty
    /\ TokensAreNew
    /\ TokensAreUnique

\* The lists that calls are made of.
LEMMA ShortListsIssue ==
    ASSUME NEW c
    PROVE  /\ IssuesLast(<<>>, c)
           /\ \A a : (Issues(a) /\ a.do = "put" => a.row.token = c) => IssuesLast(<<a>>, c)
           /\ \A a, b : ~Issues(a) /\ ~Issues(b) => IssuesLast(<<a, b>>, c)
           /\ \A a, b, e : ~Issues(a) /\ ~Issues(b) /\ e.do = "vet" => IssuesLast(<<a, b, e>>, c)
<1>1. IssuesLast(<<>>, c)
  BY DEF IssuesLast
<1>2. ASSUME NEW a, Issues(a) /\ a.do = "put" => a.row.token = c PROVE IssuesLast(<<a>>, c)
  <2>1. Len(<<a>>) = 1 /\ <<a>>[1] = a
    OBVIOUS
  <2> QED BY <1>2, <2>1 DEF IssuesLast
<1>3. ASSUME NEW a, NEW b, ~Issues(a), ~Issues(b)
      PROVE  IssuesLast(<<a, b>>, c)
  <2>1. Len(<<a, b>>) = 2 /\ <<a, b>>[1] = a /\ <<a, b>>[2] = b
    OBVIOUS
  <2>2. \A j \in 1..2 : j = 1 \/ j = 2
    OBVIOUS
  <2> QED BY <1>3, <2>1, <2>2 DEF IssuesLast
<1>4. ASSUME NEW a, NEW b, NEW e, ~Issues(a), ~Issues(b), e.do = "vet"
      PROVE  IssuesLast(<<a, b, e>>, c)
  <2>1. /\ Len(<<a, b, e>>) = 3
        /\ <<a, b, e>>[1] = a /\ <<a, b, e>>[2] = b /\ <<a, b, e>>[3] = e
    OBVIOUS
  <2>2. \A j \in 1..3 : j = 1 \/ j = 2 \/ j = 3
    OBVIOUS
  <2> QED BY <1>4, <2>1, <2>2 DEF IssuesLast
<1> QED BY <1>1, <1>2, <1>3, <1>4

\* What is left of a list, and whether anything is left to issue.
LEMMA HeadAndTailIssue ==
    ASSUME NEW q \in Seq(Statement), q # <<>>, NEW c, IssuesLast(q, c)
    PROVE  /\ IssuesLast(Tail(q), c)
           /\ Issues(Head(q)) => Tail(q) = <<>> /\ (Head(q).do = "put" => Head(q).row.token = c)
           /\ Issues(Head(q)) \/ (\E j \in 1..Len(Tail(q)) : Issues(Tail(q)[j]))
                <=> \E j \in 1..Len(q) : Issues(q[j])
<1>1. /\ Head(q) = q[1] /\ 1 \in 1..Len(q)
      /\ Len(Tail(q)) = Len(q) - 1
      /\ \A j \in 1..(Len(q) - 1) : Tail(q)[j] = q[j + 1] /\ j + 1 \in 1..Len(q)
      /\ \A j \in 1..Len(q) : j = 1 \/ (j - 1 \in 1..(Len(q) - 1) /\ Tail(q)[j - 1] = q[j])
      /\ Tail(q) \in Seq(Statement) /\ (Len(q) = 1 => Tail(q) = <<>>) /\ Len(q) \in Nat
  OBVIOUS
<1>2. IssuesLast(Tail(q), c)
  <2> SUFFICES ASSUME NEW j \in 1..Len(Tail(q)), Issues(Tail(q)[j])
               PROVE  j = Len(Tail(q)) /\ (Tail(q)[j].do = "put" => Tail(q)[j].row.token = c)
    BY DEF IssuesLast
  <2>1. j + 1 \in 1..Len(q) /\ Tail(q)[j] = q[j + 1] /\ j \in Nat
    BY <1>1
  <2>2. j + 1 = Len(q) /\ (q[j + 1].do = "put" => q[j + 1].row.token = c)
    BY <2>1 DEF IssuesLast
  <2>3. j = Len(Tail(q))
    <3> HIDE DEF Issues
    <3>1. \E n \in Nat : n = Len(q) /\ Len(Tail(q)) = n - 1
      BY <1>1
    <3> QED BY <2>1, <2>2, <3>1
  <2> QED BY <2>1, <2>2, <2>3
<1>3. Issues(Head(q)) => Tail(q) = <<>> /\ (Head(q).do = "put" => Head(q).row.token = c)
  BY <1>1 DEF IssuesLast
<1>4. ASSUME Issues(Head(q))
      PROVE  \E j \in 1..Len(q) : Issues(q[j])
  BY <1>1, <1>4
<1>5. ASSUME NEW j \in 1..Len(Tail(q)), Issues(Tail(q)[j])
      PROVE  \E k \in 1..Len(q) : Issues(q[k])
  BY <1>1, <1>5
<1>6. ASSUME NEW j \in 1..Len(q), Issues(q[j])
      PROVE  Issues(Head(q)) \/ \E k \in 1..Len(Tail(q)) : Issues(Tail(q)[k])
  BY <1>1, <1>6
<1> QED BY <1>2, <1>3, <1>4, <1>5, <1>6

\* A checked statement issues what it did before the check.
LEMMA PushIssues ==
    ASSUME NEW q \in Seq(Statement), NEW s, NEW c,
           Issues(s) => q = <<>> /\ (s.do = "put" => s.row.token = c), IssuesLast(q, c)
    PROVE  /\ IssuesLast(<<s>> \o q, c)
           /\ (\E j \in 1..Len(<<s>> \o q) : Issues((<<s>> \o q)[j]))
                => Issues(s) \/ \E j \in 1..Len(q) : Issues(q[j])
<1> DEFINE S == Statement \cup {s}
<1>0. q \in Seq(S) /\ s \in S
  OBVIOUS
<1> HIDE DEF S
<1>1. /\ Len(<<s>> \o q) = Len(q) + 1 /\ Len(q) \in Nat
      /\ (<<s>> \o q)[1] = s
      /\ \A j \in 1..(Len(q) + 1) : j = 1 \/ (j - 1 \in 1..Len(q) /\ (<<s>> \o q)[j] = q[j - 1])
      /\ q = <<>> => Len(q) = 0
  BY <1>0
<1>2. IssuesLast(<<s>> \o q, c)
  BY <1>1 DEF IssuesLast
<1>3. ASSUME NEW j \in 1..Len(<<s>> \o q), Issues((<<s>> \o q)[j])
      PROVE  Issues(s) \/ \E k \in 1..Len(q) : Issues(q[k])
  BY <1>1, <1>3
<1> QED BY <1>2, <1>3

\* Every call that a user makes issues its session last and under its own token.
LEMMA ProgramsIssue ==
    ASSUME NEW c \in Callers, NEW u \in Users, NEW todo \in Programs(c, u)
    PROVE  IssuesLast(todo, c)
<1>1. /\ \A name, id, row : name # "session" => ~Issues(Put(name, id, row))
      /\ \A a : ~Issues(NewAgent(a, u))
      /\ \A d, a, p : ~Issues(VetDelegation(d, a, p))
      /\ \A i, h : ~Issues(VetAssignment(i, h))
      /\ \A i, a, d : VetSession(i, a, d).do = "vet"
      /\ \A i, row : Put("session", i, row).row = row
  BY DEF Issues, Put, NewAgent, VetDelegation, VetAssignment, VetSession
<1>2. ASSUME NEW v \in Users, todo \in CreateUser(u, v) PROVE IssuesLast(todo, c)
  <2>1. \/ todo = <<Put("user", v, "active")>>
        \/ \E i, h : todo = <<Put("user", v, "active"), VetAssignment(i, h)>>
    BY <1>2 DEF CreateUser
  <2> QED BY <1>1, <2>1, ShortListsIssue
<1>3. ASSUME NEW v \in Users, todo \in DisableUser(u, v) PROVE IssuesLast(todo, c)
  <2>1. todo = <<Put("user", v, "disabled")>>
    BY <1>3 DEF DisableUser
  <2> QED BY <1>1, <2>1, ShortListsIssue
<1>4. ASSUME NEW a \in Agents, todo \in DisableAgent(u, a) PROVE IssuesLast(todo, c)
  <2>1. \E row : todo = <<Put("agent", a, row)>>
    BY <1>4 DEF DisableAgent
  <2> QED BY <1>1, <2>1, ShortListsIssue
<1>5. ASSUME NEW i \in Assignments, todo \in AssignRole(u, i) \/ todo \in RevokeRole(u, i)
      PROVE  IssuesLast(todo, c)
  <2>1. \E row : todo = <<Put("assignment", i, row)>>
    BY <1>5 DEF AssignRole, RevokeRole
  <2> QED BY <1>1, <2>1, ShortListsIssue
<1>6. ASSUME NEW d \in Delegations, todo \in CreateDelegation(u, d) \/ todo \in RevokeDelegation(u, d)
      PROVE  IssuesLast(todo, c)
  <2>1. \E row : todo = <<Put("delegation", d, row)>>
    BY <1>6 DEF CreateDelegation, RevokeDelegation
  <2> QED BY <1>1, <2>1, ShortListsIssue
<1>7. ASSUME NEW a \in Agents, todo \in Onboard(u, a) PROVE IssuesLast(todo, c)
  <2>1. PICK d, p, i : todo = <<NewAgent(a, u), VetDelegation(d, a, p), VetSession(i, a, d)>>
    BY <1>7 DEF Onboard
  <2> QED BY <1>1, <2>1, ShortListsIssue
<1>8. ASSUME todo \in LogInMainAgent(u) PROVE IssuesLast(todo, c)
  <2>1. PICK a, d, i : todo = <<NewAgent(a, u), VetDelegation(d, a, None), VetSession(i, a, d)>>
    BY <1>8 DEF LogInMainAgent
  <2> QED BY <1>1, <2>1, ShortListsIssue
<1>9. ASSUME todo \in LogIn(c, u) PROVE IssuesLast(todo, c)
  <2>1. \E i, row : todo = <<Put("session", i, row)>> /\ row.token = c
    BY <1>9 DEF LogIn
  <2> QED BY <1>1, <2>1, ShortListsIssue
<1>10. \/ \E v \in Users : todo \in CreateUser(u, v) \/ todo \in DisableUser(u, v)
       \/ \E a \in Agents : todo \in DisableAgent(u, a) \/ todo \in Onboard(u, a)
       \/ \E i \in Assignments : todo \in AssignRole(u, i) \/ todo \in RevokeRole(u, i)
       \/ \E d \in Delegations : todo \in CreateDelegation(u, d) \/ todo \in RevokeDelegation(u, d)
       \/ todo \in LogInMainAgent(u)
       \/ todo \in LogIn(c, u)
  BY DEF Programs
<1> QED BY <1>2, <1>3, <1>4, <1>5, <1>6, <1>7, <1>8, <1>9, <1>10

\* Calls without a check issue none.
LEMMA UncheckedIssue ==
    ASSUME NEW todo \in Unchecked, NEW c
    PROVE  IssuesLast(todo, c)
<1>1. \/ \E r, p : todo = <<Put("role", r, p)>>
      \/ \E i, x : todo = <<RevokeRow(i, x)>>
  BY DEF Unchecked, SaveRole, RevokeSession
<1>2. /\ \A r, p : ~Issues(Put("role", r, p))
      /\ \A i, x : ~Issues(RevokeRow(i, x))
  BY DEF Issues, Put, RevokeRow
<1> QED BY <1>1, <1>2, ShortListsIssue

\* A step that moves one call on and issues no session.
LEMMA CallIssues ==
    ASSUME TokenInv, RbacInv', NEW c \in Callers, NEW k \in Call,
           call' = [call EXCEPT ![c] = k],
           IssuesLast(k.todo, c), k.state = "unused" => k.todo = <<>>,
           WillIssue(k) => WillIssue(call[c]),
           \A i \in SessionIds : session'[i] # None =>
                session[i] # None /\ session'[i].token = session[i].token
    PROVE  TokenInv'
<1> USE DEF TokenInv
<1>1. /\ call'[c] = k
      /\ \A d \in Callers \ {c} : call'[d] = call[d]
  BY DEF RbacInv, RbacTypeOK
<1>2. CallsIssue' /\ UnusedIsEmpty'
  BY <1>1 DEF CallsIssue, UnusedIsEmpty
<1>3. \A d \in Callers : WillIssue(call'[d]) => WillIssue(call[d])
  BY <1>1
<1>4. TokensAreNew' /\ TokensAreUnique'
  BY <1>3 DEF TokensAreNew, TokensAreUnique
<1> QED BY <1>2, <1>4

\* A call starts.
LEMMA StartIssues ==
    ASSUME TokenInv, NEW c \in Callers, Start(c)
    PROVE  TokenInv'
<1>1. UNCHANGED tables /\ call[c].state = "unused"
  BY DEF Start
<1>2. RbacInv'
  BY StartInv DEF TokenInv
<1>3. PICK by, todo : call' = [call EXCEPT ![c] = Made(by, todo)] /\ IssuesLast(todo, c)
  <2>1. CASE \E u \in Users : \E todo \in Programs(c, u) :
                call' = [call EXCEPT ![c] = Made(u, todo)]
    BY <2>1, ProgramsIssue
  <2>2. CASE \E todo \in Unchecked : call' = [call EXCEPT ![c] = Made(None, todo)]
    BY <2>2, UncheckedIssue
  <2> QED BY <2>1, <2>2 DEF Start
<1> DEFINE k == Made(by, todo)
<1>4. k.todo = todo /\ k.state = "made"
  BY DEF Made
<1>5. k \in Call
  <2>1. call'[c] = k /\ call'[c] \in Call
    BY <1>2, <1>3 DEF TokenInv, RbacInv, RbacTypeOK
  <2> QED BY <2>1
<1>6. call' = [call EXCEPT ![c] = k]
  BY <1>3
<1>7. WillIssue(call[c])
  BY <1>1 DEF WillIssue
<1> HIDE DEF k
<1> QED BY <1>1, <1>2, <1>3, <1>4, <1>5, <1>6, <1>7, CallIssues DEF tables

\* A check.
LEMMA VetIssues ==
    ASSUME TokenInv, NEW c \in Callers, Vet(c)
    PROVE  TokenInv'
<1> USE DEF TokenInv
<1> DEFINE s == Head(call[c].todo)
           by == call[c].actor
           rest == Tail(call[c].todo)
           todo == IF Admissible(by, s) THEN <<Vetted(c, by, s)>> \o rest ELSE <<>>
           k == [call[c] EXCEPT !.todo = todo]
<1>1. /\ call[c].todo # <<>> /\ s.do = "vet"
      /\ call' = [call EXCEPT ![c].todo = todo]
      /\ UNCHANGED tables
  BY DEF Vet
<1>2. RbacInv'
  BY VetInv
<1>3. /\ call[c] \in Call /\ call[c].todo \in Seq(Statement)
      /\ IssuesLast(call[c].todo, c)
  <2>1. Doable \subseteq Statement
    BY DEF Doable
  <2> QED BY <2>1 DEF RbacInv, RbacTypeOK, CallsIssue
<1>4. /\ s \in VetStatement
      /\ rest \in Seq(Statement) /\ IssuesLast(rest, c)
      /\ Issues(s) => rest = <<>>
      /\ Issues(s) \/ (\E j \in 1..Len(rest) : Issues(rest[j]))
            <=> \E j \in 1..Len(call[c].todo) : Issues(call[c].todo[j])
  <2>1. PICK q \in Seq(Statement) : q = call[c].todo
    BY <1>3
  <2>2. s = Head(q) /\ rest = Tail(q) /\ q # <<>> /\ IssuesLast(q, c)
    BY <1>1, <1>3, <2>1
  <2>3. s \in Statement /\ rest \in Seq(Statement)
    BY <2>2, HeadAndTail
  <2>4. s \in VetStatement
    BY <1>1, <2>3, StatementFields DEF Statement
  <2> QED BY <2>1, <2>2, <2>3, <2>4, HeadAndTailIssue
<1>5. /\ Issues(Vetted(c, by, s)) <=> Issues(s)
      /\ Issues(s) => Vetted(c, by, s).row.token = c
  <2> HIDE DEF s, by
  <2>1. CASE s.what = "assignment"
    BY <1>1, <1>4, <2>1 DEF Vetted, Put, Issues
  <2>2. CASE s.what = "delegation"
    BY <1>1, <1>4, <2>2 DEF Vetted, Put, Issues
  <2>3. CASE s.what = "session"
    BY <1>1, <1>4, <2>3 DEF Vetted, Put, Issues
  <2> QED BY <1>4, <2>1, <2>2, <2>3, StatementFields
<1>6. k \in Call /\ k.todo = todo
  <2>1. call'[c] = k /\ call'[c] \in Call
    BY <1>1, <1>2 DEF RbacInv, RbacTypeOK
  <2> QED BY <1>3, <2>1 DEF Call
<1>7. /\ IssuesLast(todo, c)
      /\ (\E j \in 1..Len(todo) : Issues(todo[j]))
            => \E j \in 1..Len(call[c].todo) : Issues(call[c].todo[j])
  <2> HIDE DEF s, by, rest
  <2>1. CASE Admissible(by, s)
    <3>1. todo = <<Vetted(c, by, s)>> \o rest
      BY <2>1
    <3> QED BY <1>4, <1>5, <3>1, PushIssues
  <2>2. CASE ~Admissible(by, s)
    <3>1. todo = <<>> /\ Len(<<>>) = 0
      BY <2>2
    <3> QED BY <3>1, ShortListsIssue
  <2> QED BY <2>1, <2>2
<1>8. call' = [call EXCEPT ![c] = k] /\ k.state = call[c].state
  BY <1>1, <1>3 DEF RbacInv, RbacTypeOK, Call
<1>9. k.state # "unused"
  BY <1>1, <1>8 DEF UnusedIsEmpty
<1>10. WillIssue(k) => WillIssue(call[c])
  <2> HIDE DEF k, todo
  <2> QED BY <1>6, <1>7, <1>9 DEF WillIssue
<1> HIDE DEF k, todo, by, s, rest
<1> QED BY <1>1, <1>2, <1>6, <1>7, <1>8, <1>9, <1>10, CallIssues DEF tables

\* A call that dies issues nothing more.
LEMMA DieIssues ==
    ASSUME TokenInv, NEW c \in Callers, Die(c)
    PROVE  TokenInv'
<1> USE DEF TokenInv
<1> DEFINE k == [call[c] EXCEPT !.state = "dead", !.todo = <<>>]
<1>1. /\ call' = [call EXCEPT ![c].state = "dead", ![c].todo = <<>>]
      /\ UNCHANGED tables
  BY DEF Die
<1>2. RbacInv'
  BY DieInv
<1>3. call' = [call EXCEPT ![c] = k]
  BY <1>1 DEF RbacInv, RbacTypeOK
<1>4. k \in Call
  <2>1. call'[c] = k /\ call'[c] \in Call
    BY <1>2, <1>3 DEF RbacInv, RbacTypeOK
  <2> QED BY <2>1
<1>5. k.todo = <<>> /\ k.state = "dead" /\ Len(<<>>) = 0
  BY DEF RbacInv, RbacTypeOK, Call
<1>6. IssuesLast(k.todo, c) /\ ~WillIssue(k)
  BY <1>5, ShortListsIssue DEF WillIssue
<1> HIDE DEF k
<1> QED BY <1>1, <1>2, <1>3, <1>4, <1>5, <1>6, CallIssues DEF tables

\* A watermark is advanced.
LEMMA AdvanceIssues ==
    ASSUME TokenInv, NEW c \in Callers, Advance(c)
    PROVE  TokenInv'
<1> USE DEF TokenInv
<1>1. PICK x \in call[c].due :
        call' = [call EXCEPT ![c].due = @ \ {x}] /\ UNCHANGED tables
  BY DEF Advance
<1> DEFINE k == [call[c] EXCEPT !.due = @ \ {x}]
<1>2. RbacInv'
  BY AdvanceInv
<1>3. call' = [call EXCEPT ![c] = k]
  BY <1>1 DEF RbacInv, RbacTypeOK
<1>4. k \in Call
  <2>1. call'[c] = k /\ call'[c] \in Call
    BY <1>2, <1>3 DEF RbacInv, RbacTypeOK
  <2> QED BY <2>1
<1>5. k.todo = call[c].todo /\ k.state = call[c].state
  BY DEF RbacInv, RbacTypeOK, Call
<1>6. IssuesLast(k.todo, c) /\ (WillIssue(k) => WillIssue(call[c]))
  BY <1>5 DEF WillIssue, CallsIssue
<1> HIDE DEF k
<1> QED BY <1>1, <1>2, <1>3, <1>4, <1>5, <1>6, CallIssues DEF tables, UnusedIsEmpty

\* A statement writes the session that its call was still to issue, or keeps
\* the tokens of the rows there are.
LEMMA PerformIssues ==
    ASSUME TokenInv, NEW c \in Callers, Perform(c)
    PROVE  TokenInv'
<1> USE DEF TokenInv
<1>1. call[c].todo # <<>>
  BY DEF Perform
<1>2. PICK s \in {Head(call[c].todo)} :
        /\ s.do # "vet"
        /\ session' = IF s.do = "revoke-session" THEN [session EXCEPT ![s.id].revoked = TRUE]
                      ELSE Written(session, "session", s)
        /\ call' = [call EXCEPT ![c].todo = Tail(@), ![c].due = Affected(s)']
  BY DEF Perform
<1>3. PICK q \in Seq(Statement) :
        /\ q = call[c].todo /\ q # <<>> /\ s = Head(q) /\ IssuesLast(q, c)
        /\ s \in Doable
  <2>1. Doable \subseteq Statement
    BY DEF Doable
  <2>2. call[c].todo \in Seq(Doable)
    BY DEF RbacInv
  <2>3. Head(call[c].todo) \in Doable
    BY <1>1, <2>2, HeadAndTail
  <2> QED BY <1>1, <1>2, <2>1, <2>2, <2>3 DEF CallsIssue
<1>4. /\ IssuesLast(Tail(q), c)
      /\ Issues(s) => Tail(q) = <<>> /\ (s.do = "put" => s.row.token = c)
      /\ Issues(s) \/ (\E j \in 1..Len(Tail(q)) : Issues(Tail(q)[j]))
            <=> \E j \in 1..Len(q) : Issues(q[j])
  BY <1>3, HeadAndTailIssue
<1>5. RbacInv'
  BY PerformInv
<1> DEFINE k == [call[c] EXCEPT !.todo = Tail(@), !.due = Affected(s)']
<1>6. call' = [call EXCEPT ![c] = k]
  BY <1>2 DEF RbacInv, RbacTypeOK
<1>7. k \in Call
  <2>1. call'[c] = k /\ call'[c] \in Call
    BY <1>5, <1>6 DEF RbacInv, RbacTypeOK
  <2> QED BY <2>1
<1>8. k.todo = Tail(q) /\ k.state = call[c].state /\ k.state # "unused"
  BY <1>1, <1>3 DEF RbacInv, RbacTypeOK, Call, UnusedIsEmpty
<1> HIDE DEF k
<1>9. /\ session \in [SessionIds -> Optional(SessionRow)]
      /\ \A i \in SessionIds : session[i] # None => session[i] \in SessionRow
  BY DEF RbacInv, RbacTypeOK, Optional
<1>10. CASE ~Issues(s)
  <2>1. \A i \in SessionIds : session'[i] # None =>
                session[i] # None /\ session'[i].token = session[i].token
    <3>1. CASE s.do = "revoke-session"
      <4>1. s.id \in SessionIds /\ session[s.id] # None
        BY <1>3, <3>1, StatementFields DEF Doable, Statement
      <4>2. [session[s.id] EXCEPT !.revoked = TRUE].token = session[s.id].token
        BY <1>9, <4>1 DEF SessionRow
      <4>3. \A i \in SessionIds \ {s.id} : session'[i] = session[i]
        BY <1>2, <1>9, <3>1
      <4>4. session'[s.id] = [session[s.id] EXCEPT !.revoked = TRUE]
        BY <1>2, <1>9, <3>1, <4>1
      <4> QED BY <4>1, <4>2, <4>3, <4>4
    <3>2. CASE s.do # "revoke-session"
      BY <1>2, <1>10, <3>2 DEF Written, Issues
    <3> QED BY <3>1, <3>2
  <2>2. WillIssue(k) => WillIssue(call[c])
    BY <1>3, <1>4, <1>8 DEF WillIssue
  <2> QED BY <1>4, <1>5, <1>6, <1>7, <1>8, <2>1, <2>2, CallIssues
<1>11. CASE Issues(s)
  <2>1. /\ s.do = "put" /\ s.table = "session" /\ s.row.token = c
        /\ s.id \in SessionIds
        /\ session' = [session EXCEPT ![s.id] = s.row]
        /\ Tail(q) = <<>>
    BY <1>2, <1>3, <1>4, <1>11, StatementFields DEF Issues, Written, Doable, Statement
  <2>2. WillIssue(call[c])
    BY <1>3, <1>4, <1>11 DEF WillIssue
  <2>3. /\ session'[s.id] = s.row
        /\ \A i \in SessionIds \ {s.id} : session'[i] = session[i]
    BY <1>9, <2>1
  <2>4. \A i \in SessionIds \ {s.id} : session[i] # None => session[i].token # c
    BY <2>2 DEF TokensAreNew
  <2>5. ~WillIssue(k)
    <3>1. Len(<<>>) = 0 /\ k.todo = <<>>
      BY <1>8, <2>1
    <3> QED BY <1>8, <3>1 DEF WillIssue
  <2>6. /\ call'[c] = k
        /\ \A d \in Callers \ {c} : call'[d] = call[d]
    BY <1>6 DEF RbacInv, RbacTypeOK
  <2>7. CallsIssue' /\ UnusedIsEmpty'
    BY <1>4, <1>8, <2>6 DEF CallsIssue, UnusedIsEmpty
  <2>8. TokensAreNew'
    <3> SUFFICES ASSUME NEW d \in Callers, WillIssue(call'[d]), NEW i \in SessionIds,
                        session'[i] # None
                 PROVE  session'[i].token # d
      BY DEF TokensAreNew
    <3>1. d # c /\ WillIssue(call[d])
      BY <2>5, <2>6
    <3> QED BY <2>1, <2>3, <3>1 DEF TokensAreNew
  <2>9. TokensAreUnique'
    BY <2>1, <2>3, <2>4 DEF TokensAreUnique
  <2> QED BY <1>5, <2>7, <2>8, <2>9
<1> QED BY <1>10, <1>11

\* At first the tokens are those of the seeds.
LEMMA InitIssues == RbacInit => TokenInv
<1> SUFFICES ASSUME RbacInit
             PROVE  TokenInv
  OBVIOUS
<1>1. RbacInv
  BY InitInv
<1>2. \A c \in Callers : call[c].todo = <<>>
  BY DEF RbacInit, Unused
<1>3. CallsIssue /\ UnusedIsEmpty
  BY <1>2, ShortListsIssue DEF CallsIssue, UnusedIsEmpty
<1>4. \A i \in SessionIds : SeedSessions[i] # None => SeedSessions[i].token \notin Callers
  BY RbacAssumption, Zenon
<1>5. \A i, j \in SessionIds :
            SeedSessions[i] # None /\ SeedSessions[j] # None
            /\ SeedSessions[i].token = SeedSessions[j].token => i = j
  BY RbacAssumption, Zenon
<1>6. TokensAreNew /\ TokensAreUnique
  BY <1>4, <1>5 DEF RbacInit, TokensAreNew, TokensAreUnique
<1> QED BY <1>1, <1>3, <1>6 DEF TokenInv

\* The rows of the table have tokens of their own.
LEMMA NextIssues == TokenInv /\ [RbacNext]_rbacVars => TokenInv'
<1> SUFFICES ASSUME TokenInv, [RbacNext]_rbacVars
             PROVE  TokenInv'
  OBVIOUS
<1>1. CASE \E c \in Callers : Start(c) \/ Perform(c) \/ Advance(c) \/ Vet(c) \/ Die(c)
  BY <1>1, StartIssues, PerformIssues, AdvanceIssues, VetIssues, DieIssues
<1>2. CASE ~\E c \in Callers : Start(c) \/ Perform(c) \/ Advance(c) \/ Vet(c) \/ Die(c)
  <2>1. UNCHANGED <<session, call>>
    BY <1>2 DEF RbacNext, rbacVars, Expire, Begin, Authenticate, Decide, Answer, ReadSession,
                ReadAssignments, ReadRoles, Select, tables
  <2>2. RbacInv'
    BY NextInv DEF TokenInv
  <2> QED BY <2>1, <2>2
       DEF TokenInv, CallsIssue, UnusedIsEmpty, TokensAreNew, TokensAreUnique
<1> QED BY <1>1, <1>2

-----------------------------------------------------------------------------
(* One change during a request.                                            *)

\* The tables as one value, so that they can be compared with what they were.
Tables == [user |-> user, agent |-> agent, role |-> role, assignment |-> assignment,
           delegation |-> delegation, session |-> session]

TableNames == {"user", "agent", "role", "assignment", "delegation", "session"}

\* What a request reads, of the tables T.
RolesIn(T, u) ==
    {T.assignment[i].role : i \in {j \in Assignments : /\ T.assignment[j] # None
                                                       /\ T.assignment[j].user = u
                                                       /\ T.assignment[j].status = "active"}}

PermissionsAt(T, roles) ==
    UNION {{[permission |-> p, admin |-> r = AdminRole] : p \in T.role[r]} : r \in roles}

InForceFor(T, d, a) ==
    /\ d \in Delegations /\ T.delegation[d] # None /\ T.delegation[d].agent \in {a, AnyAgent}
    /\ T.delegation[d].status = "active" /\ ~T.delegation[d].expired

DelegatedIn(T, a, owner) ==
    UNION {T.delegation[d].permissions :
           d \in {e \in Delegations : InForceFor(T, e, a) /\ T.delegation[e].owner = owner}}

OwnIn(T, row) ==
    /\ T.agent[row.agent] # None /\ T.agent[row.agent].status = "active"
    /\ T.agent[row.agent].owner = row.user

RowAllowed(T, row, ask) ==
    IF row.agent = None
    THEN DecideUser(T.user[row.user] = "active", PermissionsAt(T, RolesIn(T, row.user)), ask).allowed
    ELSE /\ T.user[row.user] = "active"
         /\ OwnIn(T, row)
         /\ InForceFor(T, row.delegation, row.agent)
         /\ DecideAgent(TRUE, PermissionsAt(T, RolesIn(T, row.user)),
                        DelegatedIn(T, row.agent, row.user), ask).allowed

RowIn(T, row, token) ==
    \E i \in SessionIds : /\ T.session[i] # None /\ T.session[i] = row
                          /\ row.token = token /\ ~row.revoked

AllowedIn(T, token, ask) == \E row : RowIn(T, row, token) /\ RowAllowed(T, row, ask)

\* Of the tables of the moment it is what the model reads.
LEMMA TablesNow ==
    /\ \A u : ActiveUser(u) <=> Tables.user[u] = "active"
    /\ \A roles : PermissionsIn(roles) = PermissionsAt(Tables, roles)
    /\ \A u : AssignedRoles(u) = RolesIn(Tables, u)
    /\ \A d, a : d \in DelegationsOf(a) /\ InForce(d) <=> InForceFor(Tables, d, a)
    /\ \A a, o : DelegatedTo(a, o) = DelegatedIn(Tables, a, o)
    /\ \A row : ActiveAgent(row.agent) /\ agent[row.agent].owner = row.user <=> OwnIn(Tables, row)
<1>1. /\ \A u : ActiveUser(u) <=> Tables.user[u] = "active"
      /\ \A roles : PermissionsIn(roles) = PermissionsAt(Tables, roles)
      /\ \A u : AssignedRoles(u) = RolesIn(Tables, u)
  BY DEF PermissionsIn, AssignedRoles, PermissionsAt, RolesIn, Tables, ActiveUser
<1>2. \A d, a : d \in DelegationsOf(a) /\ InForce(d) <=> InForceFor(Tables, d, a)
  BY DEF DelegationsOf, InForce, InForceFor, Tables
<1>3. \A a, o : DelegatedTo(a, o) = DelegatedIn(Tables, a, o)
  <2> TAKE a, o
  <2>1. \A d \in DelegationsOf(a) : d \in Delegations
    BY DEF DelegationsOf
  <2>2. {d \in DelegationsOf(a) : InForce(d) /\ delegation[d].owner = o}
         = {e \in Delegations : InForceFor(Tables, e, a) /\ Tables.delegation[e].owner = o}
    BY <1>2, <2>1 DEF Tables
  <2> QED BY <2>2 DEF DelegatedTo, DelegatedIn, Tables
<1>4. \A row : ActiveAgent(row.agent) /\ agent[row.agent].owner = row.user <=> OwnIn(Tables, row)
  BY DEF ActiveAgent, OwnIn, Tables
<1> QED BY <1>1, <1>2, <1>3, <1>4

\* So is what they would answer the request.
LEMMA AllowedNow == AllowedWhole <=> AllowedIn(Tables, request.token, request.ask)
<1> DEFINE rows == {session[i] : i \in RowsOf(request.token)}
           allowed(row) ==
            IF row.agent = None
            THEN DecideUser(ActiveUser(row.user), PermissionsOf(row.user), request.ask).allowed
            ELSE /\ ActiveUser(row.user)
                 /\ ActiveAgent(row.agent) /\ agent[row.agent].owner = row.user
                 /\ row.delegation \in DelegationsOf(row.agent) /\ InForce(row.delegation)
                 /\ DecideAgent(TRUE, PermissionsOf(row.user),
                                DelegatedTo(row.agent, row.user), request.ask).allowed
<1>1. AllowedWhole <=> \E row \in rows : ~row.revoked /\ allowed(row)
  BY DEF AllowedWhole
<1>2. \A u : PermissionsOf(u) = PermissionsAt(Tables, RolesIn(Tables, u))
  BY TablesNow DEF PermissionsOf
<1>3. ASSUME NEW row
      PROVE  allowed(row) <=> RowAllowed(Tables, row, request.ask)
  <2>1. /\ PermissionsOf(row.user) = PermissionsAt(Tables, RolesIn(Tables, row.user))
        /\ ActiveUser(row.user) <=> Tables.user[row.user] = "active"
        /\ DelegatedTo(row.agent, row.user) = DelegatedIn(Tables, row.agent, row.user)
        /\ ActiveAgent(row.agent) /\ agent[row.agent].owner = row.user <=> OwnIn(Tables, row)
        /\ row.delegation \in DelegationsOf(row.agent) /\ InForce(row.delegation)
                <=> InForceFor(Tables, row.delegation, row.agent)
    BY <1>2, TablesNow
  <2>2. CASE row.agent # None
    BY <2>1, <2>2 DEF RowAllowed
  <2>3. CASE row.agent = None
    <3>1. DecideUser(ActiveUser(row.user), PermissionsOf(row.user), request.ask)
            = DecideUser(Tables.user[row.user] = "active",
                         PermissionsAt(Tables, RolesIn(Tables, row.user)), request.ask)
      BY <2>1 DEF ActiveUser, Tables
    <3> QED BY <2>3, <3>1 DEF RowAllowed
  <2> QED BY <2>2, <2>3
<1> HIDE DEF allowed
<1>4. \A row : (row \in rows /\ ~row.revoked) <=> RowIn(Tables, row, request.token)
  BY DEF RowsOf, RowIn, Tables
<1> HIDE DEF rows
<1> QED BY <1>1, <1>3, <1>4 DEF AllowedIn

\* The facts that a request goes on with, of the tables they were read from.
SawSession(T, r) == RowIn(T, r.row, r.token)
SawUser(T, r) == T.user[r.row.user] = "active"
SawAgent(T, r) == OwnIn(T, r.row)
SawDelegation(T, r) == InForceFor(T, r.row.delegation, r.row.agent)
SawRoles(T, r) == r.roles = RolesIn(T, r.row.user)
SawPermissions(T, r) == r.permissions = PermissionsAt(T, r.roles)
SawDelegated(T, r) ==
    DecideAgent(TRUE, r.permissions, DelegatedIn(T, r.row.agent, r.row.user), r.ask).allowed

\* The facts read so far hold each of the tables T or of U.
ReadSoFar(T, U, r) ==
    /\ r.step # "session" => SawSession(T, r) \/ SawSession(U, r)
    /\ r.step \notin {"session", "user"} => SawUser(T, r) \/ SawUser(U, r)
    /\ r.row.agent # None /\ r.step \notin {"session", "user", "agent"}
        => SawAgent(T, r) \/ SawAgent(U, r)
    /\ r.row.agent # None /\ r.step \notin {"session", "user", "agent", "delegation"}
        => SawDelegation(T, r) \/ SawDelegation(U, r)
    /\ r.step \in {"roles", "delegations", "allowed"} => SawRoles(T, r) \/ SawRoles(U, r)
    /\ r.step \in {"delegations", "allowed"} => SawPermissions(T, r) \/ SawPermissions(U, r)
    /\ r.step = "delegations" => r.row.agent # None
    /\ r.step = "allowed" /\ r.row.agent # None => SawDelegated(T, r) \/ SawDelegated(U, r)
    /\ r.step = "allowed" /\ r.row.agent = None => DecideUser(TRUE, r.permissions, r.ask).allowed

\* The tables differ in one table at most, and by one delegation at most.
OnePlace(T, U) ==
    \E n \in TableNames :
        /\ \A m \in TableNames \ {n} : T[m] = U[m]
        /\ n = "delegation" =>
            \E d : \A e \in Delegations \ {d} : T.delegation[e] = U.delegation[e]

\* An agent is allowed no less with more delegated to it.
LEMMA MoreIsAllowed ==
    ASSUME NEW permissions, NEW few, NEW many, few \subseteq many, NEW ask,
           DecideAgent(TRUE, permissions, few, ask).allowed
    PROVE  DecideAgent(TRUE, permissions, many, ask).allowed
<1> DEFINE grants(d) == {c \in EffectiveGrants(permissions, d, ask) : RequestWithinConstraints(ask, c)}
<1>1. grants(few) \subseteq grants(many)
  <2>1. DelegatedGrants(few, ask) \subseteq DelegatedGrants(many, ask)
    BY DEF DelegatedGrants
  <2>2. EffectiveGrants(permissions, few, ask) \subseteq EffectiveGrants(permissions, many, ask)
    BY <2>1 DEF EffectiveGrants
  <2> QED BY <2>2
<1>2. /\ \A x : Allowed(x).allowed = TRUE
      /\ Denied.allowed = FALSE
  BY DEF Allowed, Denied
<1> DEFINE ok == /\ ask.action \notin AdminActions
                 /\ ask.scope # None
                 /\ RequestWithinTaskScope(ask, ask.scope)
<1>3. \A d : DecideAgent(TRUE, permissions, d, ask)
                = IF ok /\ grants(d) # {} THEN Allowed(grants(d)) ELSE Denied
  BY DEF DecideAgent
<1> HIDE DEF grants, ok
<1>4. ok /\ grants(few) # {}
  BY <1>2, <1>3
<1> QED BY <1>1, <1>2, <1>3, <1>4

\* If all that was read holds of the same tables, these allow the request.
LEMMA SeenTogether ==
    ASSUME NEW T, NEW r,
           SawSession(T, r), SawUser(T, r), SawRoles(T, r), SawPermissions(T, r),
           r.row.agent # None => SawAgent(T, r) /\ SawDelegation(T, r) /\ SawDelegated(T, r),
           r.row.agent = None => DecideUser(TRUE, r.permissions, r.ask).allowed
    PROVE  AllowedIn(T, r.token, r.ask)
<1>1. /\ r.permissions = PermissionsAt(T, RolesIn(T, r.row.user))
      /\ T.user[r.row.user] = "active"
  BY DEF SawUser, SawRoles, SawPermissions
<1>2. RowAllowed(T, r.row, r.ask)
  <2>1. CASE r.row.agent = None
    <3>1. DecideUser(T.user[r.row.user] = "active", r.permissions, r.ask)
            = DecideUser(TRUE, r.permissions, r.ask)
      BY <1>1 DEF DecideUser
    <3> QED BY <1>1, <2>1, <3>1 DEF RowAllowed
  <2>2. CASE r.row.agent # None
    BY <1>1, <2>2 DEF RowAllowed, SawAgent, SawDelegation, SawDelegated
  <2> QED BY <2>1, <2>2
<1> QED BY <1>2 DEF AllowedIn, SawSession

\* A fact depends on its table.
LEMMA FactsOfTables ==
    ASSUME NEW T, NEW U, NEW r
    PROVE  /\ T.session = U.session => (SawSession(T, r) <=> SawSession(U, r))
           /\ T.user = U.user => (SawUser(T, r) <=> SawUser(U, r))
           /\ T.agent = U.agent => (SawAgent(T, r) <=> SawAgent(U, r))
           /\ T.assignment = U.assignment => (SawRoles(T, r) <=> SawRoles(U, r))
           /\ T.role = U.role => (SawPermissions(T, r) <=> SawPermissions(U, r))
           /\ T.delegation = U.delegation =>
                /\ SawDelegation(T, r) <=> SawDelegation(U, r)
                /\ SawDelegated(T, r) <=> SawDelegated(U, r)
<1>1. T.session = U.session => (SawSession(T, r) <=> SawSession(U, r))
  BY DEF SawSession, RowIn
<1>2. T.user = U.user => (SawUser(T, r) <=> SawUser(U, r))
  BY DEF SawUser
<1>3. T.agent = U.agent => (SawAgent(T, r) <=> SawAgent(U, r))
  BY DEF SawAgent, OwnIn
<1>4. T.assignment = U.assignment => (SawRoles(T, r) <=> SawRoles(U, r))
  BY DEF SawRoles, RolesIn
<1>5. T.role = U.role => (SawPermissions(T, r) <=> SawPermissions(U, r))
  BY DEF SawPermissions, PermissionsAt
<1>6. T.delegation = U.delegation =>
        /\ SawDelegation(T, r) <=> SawDelegation(U, r)
        /\ SawDelegated(T, r) <=> SawDelegated(U, r)
  <2> SUFFICES ASSUME T.delegation = U.delegation
               PROVE  /\ SawDelegation(T, r) <=> SawDelegation(U, r)
                      /\ SawDelegated(T, r) <=> SawDelegated(U, r)
    OBVIOUS
  <2>1. \A d, a : InForceFor(T, d, a) <=> InForceFor(U, d, a)
    BY DEF InForceFor
  <2>2. \A a, o : DelegatedIn(T, a, o) = DelegatedIn(U, a, o)
    BY <2>1 DEF DelegatedIn
  <2> QED BY <2>1, <2>2 DEF SawDelegation, SawDelegated
<1> QED BY <1>1, <1>2, <1>3, <1>4, <1>5, <1>6

\* Delegations differ in one: what two selects saw of them, one of the two
\* tables shows to both.
LEMMA DelegationsSeen ==
    ASSUME NEW T, NEW U, NEW r, NEW d,
           \A e \in Delegations \ {d} : T.delegation[e] = U.delegation[e],
           SawDelegation(T, r), SawDelegated(U, r)
    PROVE  \/ SawDelegation(T, r) /\ SawDelegated(T, r)
           \/ SawDelegation(U, r) /\ SawDelegated(U, r)
<1>1. CASE SawDelegation(U, r)
  BY <1>1
<1>2. CASE ~SawDelegation(U, r)
  <2> DEFINE a == r.row.agent
             o == r.row.user
  <2>1. r.row.delegation = d /\ ~InForceFor(U, d, a)
    BY <1>2 DEF SawDelegation, InForceFor
  <2>2. \A e \in Delegations : InForceFor(U, e, a) => e # d /\ InForceFor(T, e, a)
    BY <2>1 DEF InForceFor
  <2>3. \A e \in Delegations : InForceFor(U, e, a) => T.delegation[e] = U.delegation[e]
    BY <2>2
  <2>4. DelegatedIn(U, a, o) \subseteq DelegatedIn(T, a, o)
    <3> HIDE DEF a, o
    <3> QED BY <2>2, <2>3 DEF DelegatedIn
  <2>5. SawDelegated(T, r)
    <3>1. DecideAgent(TRUE, r.permissions, DelegatedIn(U, a, o), r.ask).allowed
      BY DEF SawDelegated
    <3>2. DecideAgent(TRUE, r.permissions, DelegatedIn(T, a, o), r.ask).allowed
      <4> HIDE DEF a, o
      <4> QED BY <2>4, <3>1, MoreIsAllowed
    <3> QED BY <3>2 DEF SawDelegated
  <2> QED BY <2>5
<1> QED BY <1>1, <1>2

\* Whatever a request that is allowed has read before and after one change, the
\* tables before it or the tables after it allow the request.
LEMMA OneOfTheTwo ==
    ASSUME NEW T, NEW U, OnePlace(T, U), NEW r, ReadSoFar(T, U, r), r.step = "allowed"
    PROVE  AllowedIn(T, r.token, r.ask) \/ AllowedIn(U, r.token, r.ask)
<1>1. /\ SawSession(T, r) \/ SawSession(U, r)
      /\ SawUser(T, r) \/ SawUser(U, r)
      /\ SawRoles(T, r) \/ SawRoles(U, r)
      /\ SawPermissions(T, r) \/ SawPermissions(U, r)
      /\ r.row.agent # None =>
            /\ SawAgent(T, r) \/ SawAgent(U, r)
            /\ SawDelegation(T, r) \/ SawDelegation(U, r)
            /\ SawDelegated(T, r) \/ SawDelegated(U, r)
      /\ r.row.agent = None => DecideUser(TRUE, r.permissions, r.ask).allowed
  BY DEF ReadSoFar
<1>2. PICK n \in TableNames :
        /\ \A m \in TableNames \ {n} : T[m] = U[m]
        /\ n = "delegation" =>
            \E d : \A e \in Delegations \ {d} : T.delegation[e] = U.delegation[e]
  BY DEF OnePlace
<1>3. /\ n # "session" => T.session = U.session
      /\ n # "user" => T.user = U.user
      /\ n # "agent" => T.agent = U.agent
      /\ n # "assignment" => T.assignment = U.assignment
      /\ n # "role" => T.role = U.role
      /\ n # "delegation" => T.delegation = U.delegation
  BY <1>2 DEF TableNames
<1>4. /\ n # "session" => SawSession(T, r) /\ SawSession(U, r)
      /\ n # "user" => SawUser(T, r) /\ SawUser(U, r)
      /\ n # "agent" => (r.row.agent # None => SawAgent(T, r) /\ SawAgent(U, r))
      /\ n # "assignment" => SawRoles(T, r) /\ SawRoles(U, r)
      /\ n # "role" => SawPermissions(T, r) /\ SawPermissions(U, r)
      /\ n # "delegation" =>
            (r.row.agent # None => /\ SawDelegation(T, r) /\ SawDelegation(U, r)
                                   /\ SawDelegated(T, r) /\ SawDelegated(U, r))
  BY <1>1, <1>3, FactsOfTables
<1>5. CASE n # "delegation"
  BY <1>1, <1>4, <1>5, SeenTogether
<1>6. CASE n = "delegation"
  <2>1. PICK d : \A e \in Delegations \ {d} : T.delegation[e] = U.delegation[e]
    BY <1>2, <1>6
  <2>2. r.row.agent # None => \/ SawDelegation(T, r) /\ SawDelegated(T, r)
                              \/ SawDelegation(U, r) /\ SawDelegated(U, r)
    BY <1>1, <2>1, DelegationsSeen
  <2> QED BY <1>1, <1>4, <1>6, <2>2, SeenTogether
<1> QED BY <1>5, <1>6

\* While fewer than two statements changed a table during the request, whatever
\* it goes on with was read from the tables of the moment or from some earlier
\* ones that differ in one place, and either would have been noted as allowing it.
SeenWhole(T) ==
    /\ OnePlace(T, Tables)
    /\ changes = 0 => T = Tables
    /\ AllowedIn(T, request.token, request.ask) => possible
    /\ AllowedIn(Tables, request.token, request.ask) => possible
    /\ ReadSoFar(T, Tables, request)

WholeInv ==
    /\ TokenInv
    /\ changes \in Nat
    /\ request = IdleRequest => changes = 0
    /\ request # IdleRequest /\ request.step # "refused" /\ changes < 2 =>
            \E T : SeenWhole(T)

\* What the witness of a step during a request records.
LEMMA WitnessMeans ==
    ASSUME Witness, request' # IdleRequest
    PROVE  /\ possible => possible'
           /\ AllowedIn(Tables', request'.token, request'.ask) => possible'
           /\ changes' = IF tables' = tables THEN changes ELSE changes + 1
<1>1. possible' = (possible \/ AllowedWhole')
  BY DEF Witness
<1>2. AllowedWhole' <=> AllowedIn(Tables, request.token, request.ask)'
  BY AllowedNow, PTL
<1> QED BY <1>1, <1>2 DEF Witness

\* A read of the request.
LEMMA ReadSees ==
    ASSUME WholeInv, TokenInv', Witness, UNCHANGED tables,
           request \in RequestInFlight, request' \in RequestInFlight,
           request'.token = request.token, request'.ask = request.ask,
           request.step # "refused",
           request'.step # "refused" => \A T :
                ReadSoFar(T, Tables, request) => ReadSoFar(T, Tables, request')
    PROVE  WholeInv'
<1>1. request # IdleRequest /\ request' # IdleRequest
  BY DEF RequestInFlight, IdleRequest
<1>2. changes' = changes /\ Tables' = Tables
  BY <1>1, WitnessMeans DEF tables, Tables
<1>3. ASSUME request'.step # "refused", changes < 2
      PROVE  \E T : SeenWhole(T)'
  <2>1. PICK T : SeenWhole(T)
    BY <1>1, <1>3 DEF WholeInv
  <2>2. SeenWhole(T)'
    BY <1>1, <1>2, <1>3, <2>1, WitnessMeans DEF SeenWhole
  <2> QED BY <2>2
<1> QED BY <1>1, <1>2, <1>3 DEF WholeInv

\* One select of a request.
LEMMA SelectSees ==
    ASSUME WholeInv, TokenInv', NEW step, NEW holds, NEW next, Select(step, holds, next),
           step \notin {"idle", "refused"},
           next \in {"session", "user", "agent", "delegation", "decide-agent", "decide-user",
                     "assignments", "roles", "delegations", "allowed"},
           \A T : holds /\ ReadSoFar(T, Tables, request)
                    => ReadSoFar(T, Tables, [request EXCEPT !.step = next])
    PROVE  WholeInv'
<1>1. /\ request.step = step
      /\ request' = [request EXCEPT !.step = IF holds THEN next ELSE "refused"]
      /\ UNCHANGED tables /\ Witness
  BY DEF Select
<1>2. request \in RequestInFlight
  BY <1>1 DEF WholeInv, TokenInv, RbacInv, RbacTypeOK, IdleRequest
<1>3. request' \in RequestInFlight
  BY <1>1, <1>2 DEF RequestInFlight
<1>4. request'.token = request.token /\ request'.ask = request.ask
  BY <1>1, <1>2 DEF RequestInFlight
<1>5. request'.step # "refused" => holds /\ request' = [request EXCEPT !.step = next]
  BY <1>1, <1>2 DEF RequestInFlight
<1> QED BY <1>1, <1>2, <1>3, <1>4, <1>5, ReadSees

\* The facts do not depend on how far a request has got.
LEMMA FactsStay ==
    ASSUME NEW r \in RequestInFlight, NEW s, NEW q, q = [r EXCEPT !.step = s]
    PROVE  /\ q.row = r.row /\ q.ask = r.ask /\ q.permissions = r.permissions /\ q.step = s
           /\ \A T : /\ SawSession(T, q) <=> SawSession(T, r)
                     /\ SawUser(T, q) <=> SawUser(T, r)
                     /\ SawAgent(T, q) <=> SawAgent(T, r)
                     /\ SawDelegation(T, q) <=> SawDelegation(T, r)
                     /\ SawRoles(T, q) <=> SawRoles(T, r)
                     /\ SawPermissions(T, q) <=> SawPermissions(T, r)
                     /\ SawDelegated(T, q) <=> SawDelegated(T, r)
<1>1. /\ q.row = r.row /\ q.ask = r.ask /\ q.permissions = r.permissions /\ q.step = s
      /\ q.token = r.token /\ q.roles = r.roles
  BY DEF RequestInFlight
<1> QED BY <1>1 DEF SawSession, SawUser, SawAgent, SawDelegation, SawRoles, SawPermissions,
                    SawDelegated

\* The selects see the tables of the moment.
LEMMA SeesTables ==
    /\ ActiveUser(request.row.user) <=> SawUser(Tables, request)
    /\ OwnAgent <=> SawAgent(Tables, request)
    /\ request.row.delegation \in DelegationsOf(request.row.agent) /\ InForce(request.row.delegation)
        <=> SawDelegation(Tables, request)
    /\ DecideAgent(TRUE, request.permissions, DelegatedTo(request.row.agent, request.row.user),
                   request.ask).allowed
        <=> SawDelegated(Tables, request)
BY TablesNow DEF SawUser, OwnAgent, SawAgent, SawDelegation, SawDelegated

\* The session is read: the token is of one row.
LEMMA ReadSessionSees ==
    ASSUME WholeInv, TokenInv', ReadSession
    PROVE  WholeInv'
<1> DEFINE found == {session[i] : i \in RowsOf(request.token)}
           next == IF \E row \in found : Usable(row) THEN "user" ELSE "refused"
           chosen == IF next = "user" THEN CHOOSE row \in found : TRUE ELSE None
<1>1. /\ request.step = "session"
      /\ request' = [request EXCEPT !.step = next, !.row = chosen]
      /\ UNCHANGED tables /\ Witness
  BY DEF ReadSession
<1>2. request \in RequestInFlight /\ request' \in RequestInFlight
  <2>1. request \in RequestInFlight
    BY <1>1 DEF WholeInv, TokenInv, RbacInv, RbacTypeOK, IdleRequest
  <2>2. request'.step = next /\ next # "idle"
    BY <1>1, <2>1 DEF RequestInFlight
  <2> QED BY <2>1, <2>2 DEF TokenInv, RbacInv, RbacTypeOK, IdleRequest
<1>3. /\ request'.token = request.token /\ request'.ask = request.ask
      /\ request'.step = next /\ request'.row = chosen
  BY <1>1, <1>2 DEF RequestInFlight
<1>4. ASSUME next = "user"
      PROVE  RowIn(Tables, chosen, request.token)
  <2>1. PICK row \in found : ~row.revoked
    BY <1>4 DEF Usable
  <2>2. \A x, y \in found : x = y
    BY DEF WholeInv, TokenInv, TokensAreUnique, RowsOf
  <2>3. chosen \in found
    <3> HIDE DEF found
    <3>1. chosen = CHOOSE x \in found : TRUE
      BY <1>4
    <3> QED BY <2>1, <3>1
  <2>4. chosen = row
    <3> HIDE DEF found, chosen
    <3> QED BY <2>1, <2>2, <2>3
  <2>5. PICK i \in RowsOf(request.token) : row = session[i]
    BY <2>1
  <2> HIDE DEF chosen
  <2> QED BY <2>1, <2>4, <2>5 DEF RowsOf, RowIn, Tables
<1> HIDE DEF next, chosen, found
<1>5. next \in {"user", "refused"}
  BY DEF next
<1>6. ASSUME request'.step # "refused", NEW T, ReadSoFar(T, Tables, request)
      PROVE  ReadSoFar(T, Tables, request')
  <2>1. next = "user"
    BY <1>3, <1>5, <1>6
  <2>2. SawSession(Tables, request')
    BY <1>3, <1>4, <2>1 DEF SawSession
  <2> QED BY <1>3, <2>1, <2>2 DEF ReadSoFar
<1>7. request.step # "refused"
  BY <1>1
<1> QED BY <1>1, <1>2, <1>3, <1>6, <1>7, ReadSees

\* The selects of the authentication.
LEMMA AuthenticateSees ==
    ASSUME WholeInv, TokenInv', Authenticate
    PROVE  WholeInv'
<1>1. CASE ReadSession
  BY <1>1, ReadSessionSees
<1>2. CASE Select("user", ActiveUser(request.row.user),
                  IF request.row.agent = None THEN "decide-user" ELSE "agent")
  <2> DEFINE next == IF request.row.agent = None THEN "decide-user" ELSE "agent"
  <2>1. request \in RequestInFlight /\ request.step = "user"
    BY <1>2 DEF Select, WholeInv, TokenInv, RbacInv, RbacTypeOK, IdleRequest
  <2>2. ASSUME NEW T, ActiveUser(request.row.user), ReadSoFar(T, Tables, request)
        PROVE  ReadSoFar(T, Tables, [request EXCEPT !.step = next])
    <3>1. PICK q : q = [request EXCEPT !.step = next]
      OBVIOUS
    <3> QED BY <2>1, <2>2, <3>1, FactsStay, SeesTables DEF ReadSoFar
  <2> QED BY <1>2, <2>2, SelectSees
<1>3. CASE Select("agent", OwnAgent, "delegation")
  <2>1. request \in RequestInFlight /\ request.step = "agent"
    BY <1>3 DEF Select, WholeInv, TokenInv, RbacInv, RbacTypeOK, IdleRequest
  <2>2. ASSUME NEW T, OwnAgent, ReadSoFar(T, Tables, request)
        PROVE  ReadSoFar(T, Tables, [request EXCEPT !.step = "delegation"])
    <3>1. PICK q : q = [request EXCEPT !.step = "delegation"]
      OBVIOUS
    <3> QED BY <2>1, <2>2, <3>1, FactsStay, SeesTables DEF ReadSoFar
  <2> QED BY <1>3, <2>2, SelectSees
<1>4. CASE Select("delegation",
                  /\ request.row.delegation \in DelegationsOf(request.row.agent)
                  /\ InForce(request.row.delegation), "decide-agent")
  <2>1. request \in RequestInFlight /\ request.step = "delegation"
    BY <1>4 DEF Select, WholeInv, TokenInv, RbacInv, RbacTypeOK, IdleRequest
  <2>2. ASSUME NEW T, ReadSoFar(T, Tables, request),
               /\ request.row.delegation \in DelegationsOf(request.row.agent)
               /\ InForce(request.row.delegation)
        PROVE  ReadSoFar(T, Tables, [request EXCEPT !.step = "decide-agent"])
    <3>1. PICK q : q = [request EXCEPT !.step = "decide-agent"]
      OBVIOUS
    <3> QED BY <2>1, <2>2, <3>1, FactsStay, SeesTables DEF ReadSoFar
  <2> QED BY <1>4, <2>2, SelectSees
<1> QED BY <1>1, <1>2, <1>3, <1>4 DEF Authenticate

\* The assignments are read, then the roles.
LEMMA ReadAssignmentsSees ==
    ASSUME WholeInv, TokenInv', ReadAssignments
    PROVE  WholeInv'
<1>1. /\ request.step = "assignments"
      /\ request' = [request EXCEPT !.step = "roles", !.roles = AssignedRoles(request.row.user)]
      /\ UNCHANGED tables /\ Witness
  BY DEF ReadAssignments
<1>2. request \in RequestInFlight /\ request' \in RequestInFlight
  <2>1. request \in RequestInFlight
    BY <1>1 DEF WholeInv, TokenInv, RbacInv, RbacTypeOK, IdleRequest
  <2>2. request'.step = "roles"
    BY <1>1, <2>1 DEF RequestInFlight
  <2> QED BY <2>1, <2>2 DEF TokenInv, RbacInv, RbacTypeOK, IdleRequest
<1>3. /\ request'.token = request.token /\ request'.ask = request.ask
      /\ request'.step = "roles" /\ request'.row = request.row
      /\ request'.roles = RolesIn(Tables, request.row.user)
  BY <1>1, <1>2, TablesNow DEF RequestInFlight
<1>4. SawRoles(Tables, request')
  BY <1>3 DEF SawRoles
<1>5. \A T : /\ SawSession(T, request') <=> SawSession(T, request)
             /\ SawUser(T, request') <=> SawUser(T, request)
             /\ SawAgent(T, request') <=> SawAgent(T, request)
             /\ SawDelegation(T, request') <=> SawDelegation(T, request)
  BY <1>3 DEF SawSession, SawUser, SawAgent, SawDelegation
<1>6. ASSUME NEW T, ReadSoFar(T, Tables, request)
      PROVE  ReadSoFar(T, Tables, request')
  BY <1>1, <1>3, <1>4, <1>5, <1>6 DEF ReadSoFar
<1>7. request.step # "refused"
  BY <1>1
<1> QED BY <1>1, <1>2, <1>3, <1>6, <1>7, ReadSees

\* For a user the roles decide.
LEMMA ReadRolesSees ==
    ASSUME WholeInv, TokenInv', ReadRoles
    PROVE  WholeInv'
<1> DEFINE permissions == PermissionsIn(request.roles)
           next == IF request.row.agent # None THEN "delegations"
                   ELSE IF DecideUser(TRUE, permissions, request.ask).allowed
                   THEN "allowed" ELSE "refused"
<1>1. /\ request.step = "roles"
      /\ request' = [request EXCEPT !.permissions = permissions, !.step = next]
      /\ UNCHANGED tables /\ Witness
  BY DEF ReadRoles
<1>2. request \in RequestInFlight /\ request' \in RequestInFlight
  <2>1. request \in RequestInFlight
    BY <1>1 DEF WholeInv, TokenInv, RbacInv, RbacTypeOK, IdleRequest
  <2>2. request'.step # "idle"
    <3>1. next # "idle"
      OBVIOUS
    <3> HIDE DEF next, permissions
    <3> QED BY <1>1, <2>1, <3>1 DEF RequestInFlight
  <2> QED BY <2>1, <2>2 DEF TokenInv, RbacInv, RbacTypeOK, IdleRequest
<1>3. /\ request'.token = request.token /\ request'.ask = request.ask
      /\ request'.step = next /\ request'.row = request.row
      /\ request'.roles = request.roles /\ request'.permissions = permissions
  BY <1>1, <1>2 DEF RequestInFlight
<1>4. SawPermissions(Tables, request')
  BY <1>3, TablesNow DEF SawPermissions
<1>5. \A T : /\ SawSession(T, request') <=> SawSession(T, request)
             /\ SawUser(T, request') <=> SawUser(T, request)
             /\ SawAgent(T, request') <=> SawAgent(T, request)
             /\ SawDelegation(T, request') <=> SawDelegation(T, request)
             /\ SawRoles(T, request') <=> SawRoles(T, request)
  BY <1>3 DEF SawSession, SawUser, SawAgent, SawDelegation, SawRoles
<1>6. /\ next \in {"delegations", "allowed", "refused"}
      /\ next = "delegations" => request.row.agent # None
      /\ next = "allowed" => /\ request.row.agent = None
                             /\ DecideUser(TRUE, permissions, request.ask).allowed
  OBVIOUS
<1> HIDE DEF next, permissions
<1>7. ASSUME request'.step # "refused", NEW T, ReadSoFar(T, Tables, request)
      PROVE  ReadSoFar(T, Tables, request')
  BY <1>1, <1>3, <1>4, <1>5, <1>6, <1>7 DEF ReadSoFar
<1>8. request.step # "refused"
  BY <1>1
<1> QED BY <1>1, <1>2, <1>3, <1>7, <1>8, ReadSees

\* The selects of the decision.
LEMMA DecideSees ==
    ASSUME WholeInv, TokenInv', Decide
    PROVE  WholeInv'
<1>1. CASE Select("decide-agent", OwnAgent, "decide-user")
  <2>1. request \in RequestInFlight /\ request.step = "decide-agent"
    BY <1>1 DEF Select, WholeInv, TokenInv, RbacInv, RbacTypeOK, IdleRequest
  <2>2. ASSUME NEW T, OwnAgent, ReadSoFar(T, Tables, request)
        PROVE  ReadSoFar(T, Tables, [request EXCEPT !.step = "decide-user"])
    <3>1. PICK q : q = [request EXCEPT !.step = "decide-user"]
      OBVIOUS
    <3> QED BY <2>1, <2>2, <3>1, FactsStay DEF ReadSoFar
  <2> QED BY <1>1, <2>2, SelectSees
<1>2. CASE Select("decide-user", ActiveUser(request.row.user), "assignments")
  <2>1. request \in RequestInFlight /\ request.step = "decide-user"
    BY <1>2 DEF Select, WholeInv, TokenInv, RbacInv, RbacTypeOK, IdleRequest
  <2>2. ASSUME NEW T, ActiveUser(request.row.user), ReadSoFar(T, Tables, request)
        PROVE  ReadSoFar(T, Tables, [request EXCEPT !.step = "assignments"])
    <3>1. PICK q : q = [request EXCEPT !.step = "assignments"]
      OBVIOUS
    <3> QED BY <2>1, <2>2, <3>1, FactsStay DEF ReadSoFar
  <2> QED BY <1>2, <2>2, SelectSees
<1>3. CASE Select("delegations",
                  DecideAgent(TRUE, request.permissions,
                              DelegatedTo(request.row.agent, request.row.user),
                              request.ask).allowed, "allowed")
  <2> DEFINE holds == DecideAgent(TRUE, request.permissions,
                                  DelegatedTo(request.row.agent, request.row.user),
                                  request.ask).allowed
  <2>1. request \in RequestInFlight /\ request.step = "delegations"
    BY <1>3 DEF Select, WholeInv, TokenInv, RbacInv, RbacTypeOK, IdleRequest
  <2>2. holds <=> SawDelegated(Tables, request)
    BY SeesTables
  <2> HIDE DEF holds
  <2>3. ASSUME NEW T, holds, ReadSoFar(T, Tables, request)
        PROVE  ReadSoFar(T, Tables, [request EXCEPT !.step = "allowed"])
    <3>1. PICK q : q = [request EXCEPT !.step = "allowed"]
      OBVIOUS
    <3>2. /\ q.row = request.row /\ q.ask = request.ask /\ q.permissions = request.permissions
          /\ q.step = "allowed"
          /\ \A U : /\ SawSession(U, q) <=> SawSession(U, request)
                    /\ SawUser(U, q) <=> SawUser(U, request)
                    /\ SawAgent(U, q) <=> SawAgent(U, request)
                    /\ SawDelegation(U, q) <=> SawDelegation(U, request)
                    /\ SawRoles(U, q) <=> SawRoles(U, request)
                    /\ SawPermissions(U, q) <=> SawPermissions(U, request)
                    /\ SawDelegated(U, q) <=> SawDelegated(U, request)
      BY <2>1, <3>1, FactsStay
    <3>3. ReadSoFar(T, Tables, q)
      BY <2>1, <2>2, <2>3, <3>2 DEF ReadSoFar
    <3> QED BY <3>1, <3>3
  <2>4. Select("delegations", holds, "allowed")
    BY <1>3 DEF holds
  <2> QED BY <2>3, <2>4, SelectSees
<1> QED BY <1>1, <1>2, <1>3, ReadAssignmentsSees, ReadRolesSees DEF Decide

\* A request begins: nothing is read yet.
LEMMA BeginSees ==
    ASSUME WholeInv, TokenInv', NEW ask \in Requests, NEW t \in Tokens, Begin(ask, t)
    PROVE  WholeInv'
<1>1. /\ request = IdleRequest
      /\ request' = [step |-> "session", ask |-> ask, token |-> t, row |-> None,
                     roles |-> {}, permissions |-> {}]
      /\ UNCHANGED tables /\ Witness
  BY DEF Begin
<1>2. request' # IdleRequest /\ request'.step = "session" /\ request'.row = None
  <2>1. request'.step = "session" /\ request'.row = None
    BY <1>1
  <2> QED BY <2>1 DEF IdleRequest
<1>3. changes' = 0 /\ changes = 0
  BY <1>1, <1>2, WitnessMeans DEF WholeInv, tables
<1>4. SeenWhole(Tables)'
  <2>1. OnePlace(Tables', Tables')
    BY DEF OnePlace, TableNames
  <2>2. AllowedIn(Tables', request'.token, request'.ask) => possible'
    BY <1>1, <1>2, WitnessMeans
  <2>3. ReadSoFar(Tables', Tables', request')
    BY <1>2 DEF ReadSoFar
  <2> QED BY <2>1, <2>2, <2>3 DEF SeenWhole
<1>5. \E T : SeenWhole(T)'
  BY <1>1, <1>4 DEF tables, Tables, SeenWhole
<1> QED BY <1>2, <1>3, <1>5 DEF WholeInv

\* A statement or the clock changes the tables in one place.
LEMMA ChangeSees ==
    ASSUME WholeInv, TokenInv', Witness, UNCHANGED request, OnePlace(Tables, Tables')
    PROVE  WholeInv'
<1>1. CASE request = IdleRequest
  <2>1. changes' = 0 /\ request' = IdleRequest
    BY <1>1 DEF Witness
  <2> QED BY <2>1 DEF WholeInv
<1>2. CASE request # IdleRequest
  <2>1. /\ request' = request /\ request' # IdleRequest
        /\ changes \in Nat
        /\ changes' = IF tables' = tables THEN changes ELSE changes + 1
        /\ possible => possible'
        /\ AllowedIn(Tables', request'.token, request'.ask) => possible'
    BY <1>2, WitnessMeans DEF WholeInv
  <2>2. ASSUME request.step # "refused", changes' < 2
        PROVE  \E T : SeenWhole(T)'
    <3>1. changes < 2 /\ (tables' # tables => changes = 0 /\ changes' # 0)
      BY <2>1, <2>2
    <3>2. PICK T : SeenWhole(T)
      BY <1>2, <2>2, <3>1 DEF WholeInv
    <3>3. CASE tables' = tables
      <4>1. Tables' = Tables /\ changes' = changes
        BY <2>1, <3>3 DEF tables, Tables
      <4>2. SeenWhole(T)'
        BY <2>1, <3>2, <4>1 DEF SeenWhole
      <4> QED BY <4>2
    <3>4. CASE tables' # tables
      <4>1. T = Tables /\ changes' # 0
        BY <3>1, <3>2, <3>4 DEF SeenWhole
      <4>2. PICK U : U = Tables
        OBVIOUS
      <4>3. OnePlace(U, Tables') /\ (AllowedIn(U, request'.token, request'.ask) => possible')
        BY <2>1, <3>2, <4>1, <4>2 DEF SeenWhole
      <4>4. ReadSoFar(U, Tables', request')
        <5>1. ReadSoFar(U, U, request)
          BY <3>2, <4>1, <4>2 DEF SeenWhole
        <5> QED BY <2>1, <5>1 DEF ReadSoFar
      <4>5. SeenWhole(U)'
        BY <2>1, <4>1, <4>3, <4>4 DEF SeenWhole
      <4> QED BY <4>5
    <3> QED BY <3>3, <3>4
  <2>3. changes' \in Nat
    BY <2>1
  <2> QED BY <2>1, <2>2, <2>3 DEF WholeInv
<1> QED BY <1>1, <1>2

\* Steps that change no table.
LEMMA QuietSees ==
    ASSUME WholeInv, TokenInv', Witness, UNCHANGED <<tables, request>>
    PROVE  WholeInv'
<1>1. Tables' = Tables
  BY DEF tables, Tables
<1>2. OnePlace(Tables, Tables')
  BY <1>1 DEF OnePlace, TableNames
<1> QED BY <1>2, ChangeSees

\* A statement writes one row of one table.
LEMMA PerformSees ==
    ASSUME WholeInv, TokenInv', NEW c \in Callers, Perform(c)
    PROVE  WholeInv'
<1>1. call[c].todo # <<>> /\ UNCHANGED request /\ Witness
  BY DEF Perform
<1>2. PICK s \in {Head(call[c].todo)} :
        /\ s.do # "vet"
        /\ user' = Written(user, "user", s)
        /\ agent' = Written(agent, "agent", s)
        /\ role' = Written(role, "role", s)
        /\ assignment' = Written(assignment, "assignment", s)
        /\ delegation' = Written(delegation, "delegation", s)
        /\ session' = IF s.do = "revoke-session" THEN [session EXCEPT ![s.id].revoked = TRUE]
                      ELSE Written(session, "session", s)
  BY DEF Perform
<1>3. /\ s.do \in {"put", "revoke-session"}
      /\ s.do = "put" => s.table \in TableNames
  <2>1. call[c].todo \in Seq(Doable)
    BY DEF WholeInv, TokenInv, RbacInv
  <2>2. s \in Statement
    BY <1>1, <1>2, <2>1, HeadAndTail DEF Doable
  <2> QED BY <1>2, <2>2, StatementFields DEF Statement, TableNames
<1>4. PICK n \in TableNames :
        /\ n # "user" => user' = user
        /\ n # "agent" => agent' = agent
        /\ n # "role" => role' = role
        /\ n # "assignment" => assignment' = assignment
        /\ n # "delegation" => delegation' = delegation
        /\ n # "session" => session' = session
  <2>1. CASE s.do = "revoke-session"
    <3>1. /\ user' = user /\ agent' = agent /\ role' = role
          /\ assignment' = assignment /\ delegation' = delegation
      BY <1>2, <2>1 DEF Written
    <3> QED BY <3>1 DEF TableNames
  <2>2. CASE s.do = "put"
    BY <1>2, <1>3, <2>2 DEF Written
  <2> QED BY <1>3, <2>1, <2>2
<1>5. \A m \in TableNames \ {n} : Tables[m] = Tables'[m]
  BY <1>4 DEF TableNames, Tables
<1>6. \E d : \A e \in Delegations \ {d} : Tables.delegation[e] = Tables'.delegation[e]
  <2>1. \A e \in Delegations \ {s.id} : delegation[e] = delegation'[e]
    <3>1. delegation \in [Delegations -> Optional(DelegationRow)]
      BY DEF WholeInv, TokenInv, RbacInv, RbacTypeOK
    <3> QED BY <1>2, <3>1 DEF Written
  <2> QED BY <2>1 DEF Tables
<1>7. OnePlace(Tables, Tables')
  BY <1>5, <1>6 DEF OnePlace
<1> QED BY <1>1, <1>7, ChangeSees

\* A delegation expires.
LEMMA ExpireSees ==
    ASSUME WholeInv, TokenInv', NEW d \in Delegations, Expire(d)
    PROVE  WholeInv'
<1>1. /\ delegation' = [delegation EXCEPT ![d].expired = TRUE]
      /\ UNCHANGED <<user, agent, role, assignment, session, request>>
      /\ Witness
  BY DEF Expire
<1>2. \A m \in TableNames \ {"delegation"} : Tables[m] = Tables'[m]
  BY <1>1 DEF TableNames, Tables
<1>3. \A e \in Delegations \ {d} : Tables.delegation[e] = Tables'.delegation[e]
  <2>1. delegation \in [Delegations -> Optional(DelegationRow)]
    BY DEF WholeInv, TokenInv, RbacInv, RbacTypeOK
  <2> QED BY <1>1, <2>1 DEF Tables
<1>4. OnePlace(Tables, Tables')
  BY <1>2, <1>3 DEF OnePlace, TableNames
<1> QED BY <1>1, <1>4, ChangeSees

\* The request is answered and forgotten.
LEMMA AnswerSees ==
    ASSUME WholeInv, TokenInv', Answer
    PROVE  WholeInv'
<1>1. request' = IdleRequest /\ changes' = 0
  BY DEF Answer, Witness
<1> QED BY <1>1 DEF WholeInv

\* At first there is no request.
LEMMA InitSees == RbacInit => WholeInv
<1> SUFFICES ASSUME RbacInit
             PROVE  WholeInv
  OBVIOUS
<1>1. request = IdleRequest /\ changes = 0
  BY DEF RbacInit
<1> QED BY <1>1, InitIssues DEF WholeInv

\* The invariant is inductive: one case for each action.
LEMMA NextSees == WholeInv /\ [RbacNext]_rbacVars => WholeInv'
<1> SUFFICES ASSUME WholeInv, [RbacNext]_rbacVars
             PROVE  WholeInv'
  OBVIOUS
<1>1. TokenInv'
  BY NextIssues DEF WholeInv
<1>2. CASE \E c \in Callers : Start(c) \/ Perform(c) \/ Advance(c) \/ Vet(c) \/ Die(c)
  <2>1. PICK c \in Callers : Start(c) \/ Perform(c) \/ Advance(c) \/ Vet(c) \/ Die(c)
    BY <1>2
  <2>2. CASE Perform(c)
    BY <1>1, <2>2, PerformSees
  <2>3. CASE Start(c) \/ Advance(c) \/ Vet(c) \/ Die(c)
    <3>1. Witness /\ UNCHANGED <<tables, request>>
      BY <2>3 DEF Start, Advance, Vet, Die
    <3> QED BY <1>1, <3>1, QuietSees
  <2> QED BY <2>1, <2>2, <2>3
<1>3. CASE \E d \in Delegations : Expire(d)
  BY <1>1, <1>3, ExpireSees
<1>4. CASE \E ask \in Requests, t \in Tokens : Begin(ask, t)
  BY <1>1, <1>4, BeginSees
<1>5. CASE Authenticate \/ Decide \/ Answer
  BY <1>1, <1>5, AuthenticateSees, DecideSees, AnswerSees
<1>6. CASE UNCHANGED rbacVars
  <2>1. UNCHANGED <<tables, request, possible, changes>> /\ Tables' = Tables
    BY <1>6 DEF rbacVars, tables, Tables
  <2>2. \A T : SeenWhole(T)' <=> SeenWhole(T)
    BY <2>1 DEF SeenWhole
  <2> QED BY <1>1, <2>1, <2>2 DEF WholeInv
<1> QED BY <1>2, <1>3, <1>4, <1>5, <1>6 DEF RbacNext

\* A request that is allowed with at most one statement, of whatever kind, among
\* its selects was allowed by the tables before it or by the tables after it
\* (authenticate, decide).  Two statements can mix: the property says nothing
\* of them.
THEOREM OneChangeIsSeenWhole == RbacSpec => []OneChangeSeenWhole
<1>1. WholeInv => OneChangeSeenWhole
  <2> SUFFICES ASSUME WholeInv, request.step = "allowed", changes < 2
               PROVE  possible
    BY DEF OneChangeSeenWhole
  <2>1. request # IdleRequest /\ request.step # "refused"
    BY DEF IdleRequest
  <2>2. PICK T : SeenWhole(T)
    BY <2>1 DEF WholeInv
  <2>3. PICK U : U = Tables
    OBVIOUS
  <2>4. AllowedIn(T, request.token, request.ask) \/ AllowedIn(U, request.token, request.ask)
    BY <2>2, <2>3, OneOfTheTwo DEF SeenWhole
  <2> QED BY <2>2, <2>3, <2>4 DEF SeenWhole
<1> QED BY <1>1, InitSees, NextSees, PTL DEF RbacSpec
=============================================================================
