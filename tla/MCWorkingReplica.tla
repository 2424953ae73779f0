-------------------------- MODULE MCWorkingReplica --------------------------
(* A root, an entity e with an open branch that took over from a secret     *)
(* one, an entity f that is secret, and a resource with a chunk f cites.   *)
EXTENDS WorkingReplica

CONSTANTS root, e, f, be, old, bf, cites, res, chunk, open, amended, secret, s1

MCObjects == {root, e, f, be, old, bf, cites, res, chunk}
MCKind == [o \in MCObjects |->
            CASE o \in {be, old, bf} -> "memory_entity_branch"
              [] o = cites -> "memory_relation"
              [] o = res -> "resource"
              [] o = chunk -> "resource_chunk"
              [] OTHER -> "memory_entity"]

Plain(v) == [value |-> v, source |-> None, target |-> None]
Of(v, s) == [value |-> v, source |-> s, target |-> None]
Link(s, t) == [value |-> open, source |-> s, target |-> t]

\* Building work that leaves the tags of an entity as they are.
MCBuilding ==
    {<<CreateOp(e, Plain(open)), CreateOp(old, Of(secret, e)),
       CreateOp(be, Of(open, e))>>,
     <<CreateOp(f, Plain(open)), CreateOp(bf, Of(secret, f)),
       CreateOp(res, Plain(open)), CreateOp(chunk, Of(open, res)),
       CreateOp(cites, Link(f, chunk))>>,
     <<UpdateOp(be, Of(amended, e))>>}
MCIncoming == {<<CreateOp(e, Plain(open))>>}

MCRemoving ==
    {<<CreateOp(e, Plain(open)), CreateOp(be, Of(open, e))>>,
     <<TombstoneOp(e)>>}

All == [allowed |-> TRUE, tags |-> {open, amended, secret, None},
        types |-> {open}, objects |-> MCObjects]
NoSecrets == [All EXCEPT !.tags = {open, amended, None}]
Denied == [All EXCEPT !.allowed = FALSE]
Narrowed == [All EXCEPT !.objects = {root, e}]

MCGrants == {All, NoSecrets, Denied}
MCScopes == {All, Narrowed}
=============================================================================
