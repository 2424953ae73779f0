---------------------------- MODULE MemoryModel ----------------------------
(***************************************************************************)
(* The memory state and the operations on it: what                         *)
(* InMemoryMemoryAuthority (memory/authority.ts) computes when it replays  *)
(* a branch's commits into an active view, which writes it refuses, and    *)
(* which logical positions (Conflict Keys, history/cloud-authority.ts) an  *)
(* operation touches.                                                      *)
(*                                                                         *)
(* The five object kinds share one map.  An object's content is a value    *)
(* and the objects it hangs from: a branch's source is its entity, a       *)
(* chunk's source its resource, a relation has a source and a target.  A   *)
(* relation's value is its type, role and ordinal.  Operation and revision  *)
(* ids, timestamps, branchRefs and an entity's currentBranchId carry no    *)
(* information here and are left out.                                      *)
(***************************************************************************)
EXTENDS Naturals, SequencesExt

CONSTANTS
    Objects,    \* ids of entities, branches, relations, resources and chunks
    Kind,       \* the MemoryObjectKind of each object
    Values,     \* what the content of two versions of an object differs in
    Root,       \* the RootEntity of this memory root
    SeedObjects,\* the objects the authority is seeded with (with no history)
    None

ObjectKinds == {"memory_entity", "memory_entity_branch", "memory_relation",
                "resource", "resource_chunk"}

Content == [value: Values \cup {None}, source: Objects \cup {None},
            target: Objects \cup {None}]

ASSUME MemoryModelAssumption ==
    /\ Kind \in [Objects -> ObjectKinds]
    /\ Root \in Objects /\ Kind[Root] = "memory_entity"
    /\ SeedObjects \subseteq {o \in Objects : Kind[o] = "memory_entity"}
    /\ None \notin Objects

\* The elements of a list at some positions, in their order.
Nth(I, n) == CHOOSE i \in I : Cardinality({j \in I : j <= i}) = n
At(list, I) == [n \in 1..Cardinality(I) |-> list[Nth(I, n)]]

-----------------------------------------------------------------------------
(* Operations.  The kind of the object an operation names selects the code *)
(* path: "update" of a resource is revise_resource, and so on.             *)

CreateOp(o, content) == [kind |-> "create", object |-> o, content |-> content]
UpdateOp(o, content) == [kind |-> "update", object |-> o, content |-> content]
TombstoneOp(o) == [kind |-> "tombstone", object |-> o]
ReplaceOp(o, by, content) ==
    [kind |-> "replace", object |-> o, by |-> by, content |-> content]
RevertOp(id) == [kind |-> "revert_commit", commit |-> id]
ResolveOp(ids, kind) ==
    [kind |-> "resolve_conflict", conflicts |-> ids, resolution |-> kind]

ResolutionKinds == {"keep_target", "take_incoming", "manual_merge"}

OfKind(kinds) == {o \in Objects : Kind[o] \in kinds}

\* The operations a client may send; reverts name the commit they undo.
MutationOperation ==
    [kind: {"create"}, object: Objects, content: Content]
    \cup [kind: {"update"}, content: Content,
          object: OfKind({"memory_entity", "memory_entity_branch", "resource"})]
    \cup [kind: {"tombstone"}, object: Objects \ OfKind({"resource_chunk"})]
    \cup [kind: {"replace"}, object: OfKind({"memory_relation"}),
          by: OfKind({"memory_relation"}), content: Content]

\* replace_relation is recorded as the tombstone and the creation it expands to.
Expand(op) ==
    IF op.kind = "replace"
    THEN <<TombstoneOp(op.object), CreateOp(op.by, op.content)>>
    ELSE <<op>>

Expanded(ops) == FoldLeft(LAMBDA done, op : done \o Expand(op), <<>>, ops)

RelationSlot(content) == <<"relation", content.source, content.value>>

\* The logical positions an operation touches: two concurrent writes conflict
\* when they share one.
ConflictKeys(op) ==
    CASE op.kind = "create" /\ Kind[op.object] = "memory_entity_branch" ->
            {<<"entity-branch", op.content.source>>}
      [] op.kind = "create" /\ Kind[op.object] = "memory_relation" ->
            {<<"object", op.object>>, RelationSlot(op.content)}
      [] op.kind = "replace" ->
            {<<"object", op.object>>, <<"object", op.by>>,
             RelationSlot(op.content)}
      [] op.kind = "revert_commit" -> {<<"commit-effect", op.commit>>}
      [] op.kind = "resolve_conflict" ->
            {<<"conflict-resolution", i>> : i \in op.conflicts}
      [] OTHER -> {<<"object", op.object>>}

KeysOf(ops) == UNION {ConflictKeys(ops[i]) : i \in DOMAIN ops}

\* Two operations with the same effect are interchangeable: the ids of
\* branches and relations are not part of it.
Effect(op) ==
    IF /\ op.kind = "create"
       /\ Kind[op.object] \in {"memory_entity_branch", "memory_relation"}
    THEN [op EXCEPT !.object = None]
    ELSE IF op.kind = "replace" THEN [op EXCEPT !.by = None] ELSE op

EffectsOf(ops) == [i \in DOMAIN ops |-> Effect(ops[i])]

-----------------------------------------------------------------------------
(* Views: a status and a content for each object, and whether the replay   *)
(* that led there went through.                                            *)

NoContent == [value |-> None, source |-> None, target |-> None]

AbsentObject == [status |-> "absent", content |-> NoContent]

SeedView ==
    [ok |-> TRUE,
     objects |-> [o \in Objects |->
        IF o \in SeedObjects THEN [AbsentObject EXCEPT !.status = "active"]
                             ELSE AbsentObject]]

Present(view, o) == view.objects[o].status # "absent"
Active(view, o) == view.objects[o].status = "active"
Ends(content) == {content.source, content.target} \ {None}

\* What a tombstone of o takes with it: everything under the root, the
\* relations of an entity, the chunks of a resource.
Cascade(view, o) ==
    IF o = Root
    THEN {x \in Objects : Present(view, x)}
    ELSE {x \in Objects :
            /\ Present(view, x)
            /\ \/ x = o
               \/ /\ o \in Ends(view.objects[x].content)
                  /\ \/ Kind[o] = "memory_entity" /\ Kind[x] = "memory_relation"
                     \/ Kind[o] = "resource" /\ Kind[x] = "resource_chunk"}

Store(view, o, status, content) ==
    [view EXCEPT !.objects[o] = [status |-> status, content |-> content]]

ApplyCreate(view, o, content) ==
    IF /\ ~Present(view, o)
       /\ \A e \in Ends(content) : Present(view, e)
    THEN Store(view, o, "active", content)
    ELSE [view EXCEPT !.ok = FALSE]

ApplyUpdate(view, o, content) ==
    IF Present(view, o)
    THEN Store(view, o,
               IF Kind[o] = "resource" THEN view.objects[o].status ELSE "active",
               content)
    ELSE [view EXCEPT !.ok = FALSE]

ApplyTombstone(view, o) ==
    [view EXCEPT !.objects =
        [x \in Objects |-> IF x \in Cascade(view, o)
                           THEN [view.objects[x] EXCEPT !.status = "tombstoned"]
                           ELSE view.objects[x]]]

ApplyOperation(view, op) ==
    IF ~view.ok THEN view
    ELSE CASE op.kind = "create" -> ApplyCreate(view, op.object, op.content)
           [] op.kind = "update" -> ApplyUpdate(view, op.object, op.content)
           [] op.kind = "tombstone" -> ApplyTombstone(view, op.object)
           [] OTHER -> view

-----------------------------------------------------------------------------
(* A branch log is a sequence of commits [id, ops].                        *)

IsRevert(op) == op.kind = "revert_commit"

RevertedCommits(log) ==
    UNION {{log[i].ops[j].commit :
                j \in {k \in DOMAIN log[i].ops : IsRevert(log[i].ops[k])}} :
           i \in DOMAIN log}

\* readActiveView over a seed: every commit that no revert names, in order.
\* A view whose replay throws is not ok.
Replay(seed, log) ==
    LET reverted == RevertedCommits(log)
        ApplyCommit(view, commit) ==
            IF commit.id \in reverted
            THEN view
            ELSE FoldLeft(ApplyOperation, view, Expanded(commit.ops))
    IN  FoldLeft(ApplyCommit, seed, log)

CreatesRoot(op) == op.kind = "create" /\ op.object = Root

\* The batches the permission of one command admits: "commit" for building
\* operations, or one destructive, resource or history action.
PermittedBatch(ops) ==
    /\ ops # <<>>
    /\ \/ \A i \in DOMAIN ops :
            /\ ops[i].kind \in {"create", "update", "replace"}
            /\ ops[i].kind = "update" => Kind[ops[i].object] # "resource"
            /\ ~CreatesRoot(ops[i])
       \/ \A i \in DOMAIN ops :
            /\ ops[i].kind \in {"create", "update"}
            /\ Kind[ops[i].object] = "resource"
       \/ \A i \in DOMAIN ops :
            /\ ops[i].kind = "tombstone"
            /\ Kind[ops[i].object] = Kind[ops[1].object]
            /\ ops[i].object = Root <=> ops[1].object = Root
       \/ \A i \in DOMAIN ops : CreatesRoot(ops[i])
       \/ \A i \in DOMAIN ops : IsRevert(ops[i])

\* The target checks of a command, on the view its branch has before it.
TargetAvailable(view, log, ops, op) ==
    CASE op.kind \in {"update", "tombstone", "replace"} ->
            \/ op.kind = "update" /\ Kind[op.object] = "resource"
            \/ Active(view, op.object)
      [] op.kind = "create" /\ Kind[op.object] = "memory_entity_branch" ->
            \/ Active(view, op.content.source)
            \/ \E i \in DOMAIN ops : /\ ops[i].kind = "create"
                                     /\ ops[i].object = op.content.source
      [] op.kind = "revert_commit" ->
            \E i \in DOMAIN log :
                /\ log[i].id = op.commit
                /\ \A j \in DOMAIN log[i].ops : ~IsRevert(log[i].ops[j])
      [] OTHER -> TRUE

\* Defect: the view is not read back before the commit is acknowledged.
ExecutableUnvalidated(seed, log, commit) ==
    LET view == Replay(seed, log)
        ops == commit.ops
    IN  /\ \A i \in DOMAIN log : log[i].id # commit.id
        /\ \/ \A i \in DOMAIN ops : IsRevert(ops[i]) \/ CreatesRoot(ops[i])
           \/ Active(view, Root)
        /\ \A i \in DOMAIN ops : TargetAvailable(view, log, ops, ops[i])

\* InMemoryMemoryAuthority.execute goes through: otherwise it throws and
\* leaves the log, the operations and the branch as they were.
Executable(seed, log, commit) ==
    LET view == Replay(seed, log)
        ops == commit.ops
    IN  /\ \A i \in DOMAIN log : log[i].id # commit.id
        /\ \/ \A i \in DOMAIN ops : IsRevert(ops[i]) \/ CreatesRoot(ops[i])
           \/ Active(view, Root)
        /\ \A i \in DOMAIN ops : TargetAvailable(view, log, ops, ops[i])
        /\ Replay(seed, Append(log, commit)).ok

-----------------------------------------------------------------------------
(* Conflict branches start from the target's active view, without the      *)
(* objects the incoming operations are about to create.                    *)

RemovedForIncoming(view, op) ==
    IF op.kind # "create" THEN {}
    ELSE LET o == op.object
             Hangs(x) == Active(view, x) /\ o \in Ends(view.objects[x].content)
         IN CASE Kind[o] = "memory_entity" ->
                    {o} \cup {x \in Objects :
                        /\ Kind[x] \in {"memory_entity_branch", "memory_relation"}
                        /\ Hangs(x)}
              [] Kind[o] = "resource" ->
                    {o} \cup {x \in Objects :
                        Kind[x] = "resource_chunk" /\ Hangs(x)}
              [] Kind[o] = "memory_relation" ->
                    {x \in Objects :
                        /\ Kind[x] = "memory_relation" /\ Active(view, x)
                        /\ ConflictKeys(CreateOp(x, view.objects[x].content))
                              \cap ConflictKeys(op) # {}}
              [] OTHER -> {o}

ConflictSeed(view, ops) ==
    LET removed == UNION {RemovedForIncoming(view, ops[i]) : i \in DOMAIN ops}
    IN  [ok |-> TRUE,
         objects |-> [o \in Objects |->
            IF Active(view, o) /\ o \notin removed
            THEN view.objects[o]
            ELSE AbsentObject]]

\* What a single operation is meant to leave behind is what the view shows.
InForce(view, op) ==
    CASE op.kind \in {"create", "update"} ->
            /\ Active(view, op.object)
            /\ view.objects[op.object].content = op.content
      [] op.kind = "replace" ->
            /\ ~Active(view, op.object) /\ Active(view, op.by)
            /\ view.objects[op.by].content = op.content
      [] op.kind = "tombstone" -> ~Active(view, op.object)
      [] OTHER -> TRUE
=============================================================================
