------------------------------- MODULE MCGateway -------------------------------
(* An entity with a fact, a legacy capture with one, and two callers that may *)
(* write an entity, a fact and relations each.  The names are N1, N2 and N3,  *)
(* the titles T1 and T2.                                                      *)
EXTENDS GatewayWrite, TLC

CONSTANTS root, e0, b0, l, h, hb, hl,         \* of the history at the start
          e1, b1, l1, m1, e2, b2, l2, m2,   \* drawn by c1 and by c2
          c1, c2, p1,
          w1, w1new, w1alt, w2, w2new, w3,         \* entities named N1, N2, N3
          f1, f1new, f2, g2,                \* facts titled T1, T1, T2, T2
          has, cites

MCObjects == {root, e0, b0, l, h, hb, hl, e1, b1, l1, m1, e2, b2, l2, m2}
MCKind ==
    [o \in {root, e0, h, e1, e2} |-> "memory_entity"]
    @@ [o \in {b0, hb, b1, b2} |-> "memory_entity_branch"]
    @@ [o \in MCObjects |-> "memory_relation"]

MCNameOf == [v \in {w1, w1new, w1alt} |-> "N1"] @@ [v \in {w2, w2new} |-> "N2"] @@ (w3 :> "N3")
            @@ [v \in {f1, f1new} |-> "T1"] @@ [v \in {f2, g2} |-> "T2"]
MCEntityFor == ("N1" :> w1) @@ ("N2" :> w2) @@ ("N3" :> w3)
MCAlike == {<<v, v>> : v \in {f1, f1new, f2, g2}}
           \cup {<<f1, f1new>>, <<f1new, f1>>}

DrawnBy(entity, branch, relationIds) ==
    ("memory_entity" :> <<entity>>) @@ ("memory_entity_branch" :> <<branch>>)
    @@ ("memory_relation" :> relationIds)
MCDrawn == (c1 :> DrawnBy(e1, b1, <<l1, m1>>)) @@ (c2 :> DrawnBy(e2, b2, <<l2, m2>>))

MCFirstCommits == <<
    [id |-> 1, ops |-> <<CreateOp(e0, Contents(w1, None, None)),
                         CreateOp(b0, Contents(f1, e0, None)),
                         CreateOp(l, Contents(has, e0, b0))>>],
    [id |-> 2, ops |-> <<CreateOp(h, Contents(w3, None, None)),
                         CreateOp(hb, Contents(g2, h, None)),
                         CreateOp(hl, Contents(has, h, hb))>>]>>

MCMigrated == (hb :> <<UpsertEntity("N2", w2new), CreateBranch("N2", g2)>>)

MCRequests == {
    <<CreateBranch("N2", f2), Relate(<<"N1">>, <<"N2">>, cites)>>,
    <<UpdateEntity("N1", w1new), UpdateBranch("N1", "T1", f1new),
      ReplaceRelation(<<"N1">>, <<"N1", "T1">>, has)>>}

\* Two different versions of one entity.
MCLostRequests == {<<UpdateEntity("N1", w1new)>>, <<UpdateEntity("N1", w1alt)>>}
=============================================================================
