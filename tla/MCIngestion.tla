------------------------------ MODULE MCIngestion ------------------------------
(* One resource: a revision of two chunks, and one that is blank.            *)
EXTENDS ResourceIngestion, TLC

CONSTANTS root, r, k1, k2, k3, k4, v1, v2, t1, t2, c1, c2, p1

MCObjects == {root, r, k1, k2, k3, k4}
MCKind == (root :> "memory_entity") @@ (r :> "resource")
          @@ [k \in {k1, k2, k3, k4} |-> "resource_chunk"]

MCSplits == (v1 :> {<<t1, t2>>}) @@ (v2 :> {<<>>})
MCChunkIds == (1 :> <<k1, k2>>) @@ (2 :> <<k3, k4>>)

MCFirstCommits == <<>>

Symmetry == Permutations({c1, c2})
=============================================================================
