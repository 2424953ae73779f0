--------------------------- MODULE MCCloudHistory ---------------------------
(* One branch of a root with a seeded entity e1.  Clients contend for e1,   *)
(* for the creation of e2 and for the branch slot of e1, and link e2.      *)
EXTENDS CloudHistory

CONSTANTS root, e1, e2, rel, eb1, eb2, m1, m2, m3, m4, r1, r2, v1, v2, main

MCObjects == {root, e1, e2, rel, eb1, eb2}
MCKind == [o \in MCObjects |->
            CASE o = rel -> "memory_relation"
              [] o \in {eb1, eb2} -> "memory_entity_branch"
              [] OTHER -> "memory_entity"]
MCSeedObjects == {root, e1}

Plain(v) == [value |-> v, source |-> None, target |-> None]
Link(s, t) == [value |-> v1, source |-> s, target |-> t]

MCWriteBatches ==
    {<<UpdateOp(e1, Plain(v1))>>, <<UpdateOp(e1, Plain(v2))>>,
     <<TombstoneOp(e1)>>,
     <<CreateOp(e2, Plain(v1))>>, <<CreateOp(e2, Plain(v2))>>,
     <<CreateOp(e2, Plain(v2)), CreateOp(rel, Link(e1, e2))>>,
     <<CreateOp(eb1, Link(e1, None))>>, <<CreateOp(eb2, Link(e1, None))>>}

\* The administrator may also delete the root, after which no marker fits.
MCManualOperations == {UpdateOp(e1, Plain(v2)), TombstoneOp(root)}

MutationSymmetry == Permutations({m1, m2, m3, m4}) \cup Permutations({r1, r2})
=============================================================================
