---------------------------- MODULE AuthorizedView ----------------------------
(***************************************************************************)
(* What a subject may see of a branch, and how the cloud describes a       *)
(* change of it (sync/working-replica.ts): filterAuthorizedView,           *)
(* authorizedHistoryRecords and deltaFromRecords.                          *)
(*                                                                         *)
(* A branch content's value stands for its tag and text, a relation's for  *)
(* its type.  An allow list and a deny list over single tags amount to the *)
(* set of tags they admit; None is the untagged entity.  The lists of a    *)
(* task scope are sets of ids.  What hides an object leaves None in the    *)
(* view.                                                                   *)
(***************************************************************************)
EXTENDS MemoryModel

\* What a policy decision and a task scope let through, each in its own way.
Admission == [allowed: BOOLEAN, tags: SUBSET (Values \cup {None}),
              types: SUBSET (Values \cup {None}), objects: SUBSET Objects]

\* Together they admit what both admit.
Narrow(grant, scope) ==
    [allowed |-> grant.allowed /\ scope.allowed,
     tags |-> grant.tags \cap scope.tags,
     types |-> grant.types \cap scope.types,
     objects |-> grant.objects \cap scope.objects]

Shown == [Objects -> Content \cup {None}]

\* What the record of an object hangs from, by its kind.
WellFormed(o, content) ==
    CASE Kind[o] \in {"memory_entity_branch", "resource_chunk"} ->
            content.source \in Objects /\ content.target = None
      [] Kind[o] = "memory_relation" ->
            content.source \in Objects /\ content.target \in Objects
      [] OTHER -> content.source = None /\ content.target = None

\* The operations a client may send, with records that are complete.
ClientOperation ==
    {op \in MutationOperation :
        /\ op.kind \in {"create", "update"} => WellFormed(op.object, op.content)
        /\ op.kind = "replace" => WellFormed(op.by, op.content)}

\* The operations of the commits no revert names, in order.
OperationsInForce(log) ==
    LET reverted == RevertedCommits(log)
    IN  FoldLeft(LAMBDA done, commit :
                    IF commit.id \in reverted THEN done
                    ELSE done \o Expanded(commit.ops),
                 <<>>, log)

BranchesOf(ops, e) ==
    {i \in DOMAIN ops : /\ ops[i].kind = "create"
                        /\ Kind[ops[i].object] = "memory_entity_branch"
                        /\ ops[i].content.source = e}

\* currentBranchId of an entity is the branch created for it last.
CurrentBranch(ops, e) ==
    LET created == BranchesOf(ops, e)
    IN  IF created = {} THEN None
        ELSE ops[CHOOSE i \in created : \A j \in created : j <= i].object

\* The tag an entity is judged by: its current branch's, while that is active.
TagOf(view, ops, e) ==
    LET b == CurrentBranch(ops, e)
    IN  IF b # None /\ Active(view, b) THEN view.objects[b].content.value ELSE None

\* The entities and resources that are let through, the root always.
AdmittedRoots(view, ops, admission) ==
    {o \in Objects :
        /\ Active(view, o)
        /\ \/ Kind[o] = "memory_entity" /\ o = Root
           \/ /\ Kind[o] = "memory_entity"
              /\ o \in admission.objects
              /\ TagOf(view, ops, o) \in admission.tags
           \/ Kind[o] = "resource" /\ o \in admission.objects}

\* endpointAllowed knows entities, resources and chunks: a relation that ends
\* in an entity branch is never let through.
AdmittedEnds(view, roots) ==
    roots \cup {o \in OfKind({"resource_chunk"}) :
                    Active(view, o) /\ view.objects[o].content.source \in roots}

\* Defect: a branch of an admitted entity is let through whatever its tag.
ViewWithAllBranches(log, admission) ==
    LET view == Replay(SeedView, log)
        content(o) == view.objects[o].content
        roots == AdmittedRoots(view, OperationsInForce(log), admission)
        lets(o) ==
            CASE Kind[o] = "memory_entity_branch" -> content(o).source \in roots
              [] Kind[o] = "memory_relation" ->
                    /\ content(o).value \in admission.types
                    /\ Ends(content(o)) \subseteq AdmittedEnds(view, roots)
              [] OTHER -> o \in AdmittedEnds(view, roots)
    IN  [o \in Objects |-> IF Active(view, o) /\ lets(o) THEN content(o) ELSE None]

\* filterAuthorizedView of the active view a log leads to.
ViewOf(log, admission) ==
    LET view == Replay(SeedView, log)
        content(o) == view.objects[o].content
        roots == AdmittedRoots(view, OperationsInForce(log), admission)
        lets(o) ==
            CASE Kind[o] = "memory_entity_branch" ->
                    content(o).source \in roots /\ content(o).value \in admission.tags
              [] Kind[o] = "memory_relation" ->
                    /\ content(o).value \in admission.types
                    /\ Ends(content(o)) \subseteq AdmittedEnds(view, roots)
              [] OTHER -> o \in AdmittedEnds(view, roots)
    IN  [o \in Objects |-> IF Active(view, o) /\ lets(o) THEN content(o) ELSE None]

Hidden == [o \in Objects |-> None]

-----------------------------------------------------------------------------
(* Batches.  A record keeps the operations whose object the view AFTER all *)
(* records shows; reverts and resolutions are always kept.                 *)

VisibleOperations(ops, shown) ==
    {op \in ToSet(Expanded(ops)) :
        \/ op.kind \in {"revert_commit", "resolve_conflict"}
        \/ shown[op.object] # None}

\* Defect: a revert is delivered as no change.
RebuildOnRootOnly(ops) ==
    \E op \in ops : op.kind = "tombstone" /\ op.object = Root

\* A delta cannot express the operation: the replica is rebuilt.
RebuildRequired(ops) ==
    \E op \in ops : \/ op.kind = "revert_commit"
                    \/ op.kind = "tombstone" /\ op.object = Root

\* Objects whose present state the operations make the cloud look up: a new
\* branch also brings its entity.
Touched(ops) ==
    {op.object : op \in {x \in ops : x.kind \in {"create", "update"}}}
    \cup {op.content.source : op \in
            {x \in ops : /\ x.kind = "create"
                         /\ Kind[x.object] = "memory_entity_branch"}}

\* An entity is sent with the branches it shows.
Delivered(ops, shown) ==
    {o \in Objects :
        /\ shown[o] # None
        /\ \/ o \in Touched(ops)
           \/ /\ Kind[o] = "memory_entity_branch"
              /\ shown[o].source \in Touched(ops)}

Removed(ops, shown) ==
    {op.object : op \in {x \in ops : x.kind = "tombstone"}}
    \cup {o \in Touched(ops) : shown[o] = None}

Delta(ops, shown) ==
    [changed |-> [o \in Delivered(ops, shown) |-> shown[o]],
     removed |-> Removed(ops, shown)]

\* What goes with the removed objects: all that hangs from a removed entity or
\* resource.
TakenAlong(snapshot, removed) ==
    removed \cup {o \in Objects :
        /\ snapshot[o] # None
        /\ Ends(snapshot[o]) \cap removed
              \cap OfKind({"memory_entity", "resource"}) # {}}

\* applyDelta: removals first, then what changed.
ApplyDelta(snapshot, delta) ==
    [o \in Objects |->
        IF o \in DOMAIN delta.changed THEN delta.changed[o]
        ELSE IF o \in TakenAlong(snapshot, delta.removed) THEN None
        ELSE snapshot[o]]
=============================================================================
