------------------------------- MODULE MCRbac -------------------------------
(* An administrator, who owns an agent, and a member.  One delegation names  *)
(* the agent and one names none.                                            *)
EXTENDS RbacAuthority, TLC

CONSTANTS boss, ann, a, m, admin, reader, i1, i2, d1, d2, d3, s1, s2,
          any, none, c1, c2, red, blue, rel

Plain(action) == [action |-> action, tagsAny |-> None, tagsAll |-> None,
                  relationTypes |-> None, taskScope |-> None]
Tagged(action, tag) == [Plain(action) EXCEPT !.tagsAny = {tag}]

AdminPermissions == {Plain("assign_user_role"), Plain("revoke_user_role"), Plain("read")}

MCRoleVersions ==
    [r \in {admin, reader} |->
        IF r = admin THEN {} ELSE {{Tagged("read", red), Tagged("read", blue)}}]

MCSeedRoles == [r \in {admin, reader} |->
    IF r = admin THEN AdminPermissions ELSE {Plain("read")}]

MCHolders == [i \in {i1, i2} |-> IF i = i1 THEN {<<boss, admin>>}
                                 ELSE {<<ann, reader>>}]
MCDelegates == [d \in {d1, d2, d3} |->
                    IF d = d1 THEN {<<a, boss>>} ELSE IF d = d2 THEN {<<any, boss>>}
                    ELSE {<<m, ann>>, <<m, boss>>}]

\* The instance meets the condition of the theorem about watermarks.
ASSUME MCIdsAreNotReused == IdsAreNotReused

MCDelegable == {{Plain("read")}}
MCMainAgent == [u \in {boss, ann} |-> IF u = ann THEN m ELSE None]

MCSeedAgents == [x \in {a, m} |->
    IF x = a THEN [owner |-> boss, status |-> "active"] ELSE None]
MCSeedAssignments == [i \in {i1, i2} |->
    IF i = i1 THEN [user |-> boss, role |-> admin, status |-> "active"]
    ELSE [user |-> ann, role |-> reader, status |-> "active"]]
MCSeedDelegations == [d \in {d1, d2, d3} |->
    IF d = d1 THEN [agent |-> a, owner |-> boss, permissions |-> {Tagged("read", red)},
                    status |-> "active", expired |-> FALSE]
    ELSE None]
MCSeedSessions == [s \in {s1, s2} |->
    IF s = s1 THEN [token |-> s1, user |-> boss, agent |-> a, delegation |-> d1,
                    revoked |-> FALSE]
    ELSE None]

OpenScope == [allowedTags |-> None, deniedTags |-> {}, allowedTypes |-> None,
              depth |-> None, allowedIds |-> None, deniedIds |-> {}]
Read(tags) == [action |-> "read", tags |-> tags, type |-> None, depth |-> None,
               id |-> None, scope |-> OpenScope]
MCRequests == {Read({red})}

Symmetry == Permutations({c1, c2})
=============================================================================
