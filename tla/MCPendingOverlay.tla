-------------------------- MODULE MCPendingOverlay --------------------------
(* A root with a seeded entity e.  The operations staged here create f or    *)
(* update e, and link the two; another client creates f too or removes e.  *)
EXTENDS PendingOverlay

CONSTANTS root, e, f, rel, l1, l2, m1, r1, v1, v2, main, s1, s2

MCObjects == {root, e, f, rel}
MCKind == [o \in MCObjects |->
            IF o = rel THEN "memory_relation" ELSE "memory_entity"]

Plain(v) == [value |-> v, source |-> None, target |-> None]
Link == [value |-> v1, source |-> e, target |-> f]

MCStageOps ==
    [m \in {l1, l2} |->
        IF m = l1 THEN {CreateOp(f, Plain(v1)), UpdateOp(e, Plain(v1))}
        ELSE {CreateOp(rel, Link)}]
MCRemoteBatches == {<<CreateOp(f, Plain(v2))>>, <<TombstoneOp(e)>>}
MCManualOperations == {UpdateOp(e, Plain(v2))}
=============================================================================
