---------------------------- MODULE ProjectionWorker ----------------------------
(***************************************************************************)
(* The projection of the history into the retrieval stores                 *)
(* (memory/projection-worker.ts and memory/projector.ts over the vector,   *)
(* relation and BM25 stores): after a write the gateway has the worker      *)
(* replay the events of a branch after its watermark, one store write      *)
(* after the other.  The watermark lives in memory, the stores are durable. *)
(*                                                                         *)
(* The history is the main branch of one root as module CloudHistory checks *)
(* it: a sequence of accepted commits.                                     *)
(***************************************************************************)
EXTENDS MemoryModel

CONSTANTS
    FirstCommits,   \* the log at the start
    Projectors      \* the calls of the worker that may overlap

VARIABLES
    log,        \* the accepted commits, the position is the sequence
    points,     \* the vector store: content by entity, branch or chunk
    relations,  \* the relation store
    documents,  \* the BM25 documents: content by chunk
    watermark,  \* of the worker
    project     \* its calls

stores == <<points, relations, documents>>
worker == <<watermark, project>>
workerVars == <<log, stores, worker>>

Vectors == OfKind({"memory_entity", "memory_entity_branch", "resource_chunk"})
Chunks == OfKind({"resource_chunk"})
Links == OfKind({"memory_relation"})

View == Replay(SeedView, log)

IdleProject == [step |-> "idle", todo |-> <<>>, last |-> 0]

WorkerInit ==
    /\ log = FirstCommits
    /\ points = [o \in Vectors |-> None]
    /\ relations = [o \in Links |-> None]
    /\ documents = [o \in Chunks |-> None]
    /\ watermark = 0
    /\ project = [c \in Projectors |-> IdleProject]

-----------------------------------------------------------------------------
(* Writes to the history.                                                  *)

Commit(ops) == [id |-> Len(log) + 1, ops |-> ops]

\* conflictingKeysSince: base is a position in the log.
ConflictsSince(base, ops) ==
    \E i \in (base + 1)..Len(log) : KeysOf(log[i].ops) \cap KeysOf(ops) # {}

\* An unseen commit with the same effect answers the write instead.
Equivalent(base, ops) ==
    \E i \in (base + 1)..Len(log) : EffectsOf(log[i].ops) = EffectsOf(ops)

Accepts(base, ops) ==
    ~ConflictsSince(base, ops) /\ Executable(SeedView, log, Commit(ops))

Accept(ops) == log' = Append(log, Commit(ops))

-----------------------------------------------------------------------------
(* writeForOperation and bm25DocumentsForOperation: the store writes of an   *)
(* operation, in the order StoreMemoryProjector makes them.                *)

StoreWrite(what, o) == [do |-> what, object |-> o, content |-> NoContent]
StorePut(what, o, content) == [do |-> what, object |-> o, content |-> content]

\* Defect: tombstones are not projected.
ForgetsTombstones(op) ==
    IF op.kind \in {"create", "update"} /\ op.object \in Vectors
    THEN <<StorePut("upsert", op.object, op.content)>> ELSE <<>>

WritesFor(op) ==
    CASE op.kind = "create" /\ op.object \in Links ->
            <<StorePut("relate", op.object, op.content)>>
      [] op.kind = "create" /\ op.object \in Chunks ->
            <<StorePut("upsert", op.object, op.content),
              StorePut("document", op.object, op.content)>>
      [] \/ op.kind = "create" /\ op.object \in Vectors \ Chunks
         \/ op.kind = "update" /\ op.object \in Vectors ->
            <<StorePut("upsert", op.object, op.content)>>
      [] op.kind = "replace" ->
            <<StorePut("relate", op.by, op.content), StoreWrite("unrelate", op.object)>>
      [] op.kind = "tombstone" ->
            (CASE Kind[op.object] = "memory_relation" -> <<StoreWrite("unrelate", op.object)>>
               [] Kind[op.object] = "memory_entity" ->
                    <<StoreWrite("remove", op.object), StoreWrite("sweep", op.object)>>
               [] Kind[op.object] = "resource" -> <<StoreWrite("sweep", op.object)>>
               [] OTHER -> <<StoreWrite("remove", op.object)>>)
      [] OTHER -> <<>>

WritesOf(commits) ==
    FoldLeft(LAMBDA done, commit :
                FoldLeft(LAMBDA d, op : d \o WritesFor(op), done, commit.ops),
             <<>>, commits)

\* The points with the removed object in their payload: the branches of an
\* entity, the chunks of a resource.
Listed(o) ==
    {p \in Vectors : /\ points[p] # None /\ points[p].source = o
                     /\ Kind[p] = IF Kind[o] = "resource" THEN "resource_chunk"
                                  ELSE "memory_entity_branch"}

\* upsertMany and remove of the vector store.
PointsAfter(w) ==
    CASE w.do = "upsert" -> [points EXCEPT ![w.object] = w.content]
      [] w.do = "remove" -> [points EXCEPT ![w.object] = None]
      [] OTHER -> points

\* upsert and tombstone of the relation store, without the tombstoned rows.
RelationsAfter(w) ==
    CASE w.do = "relate" -> [relations EXCEPT ![w.object] = w.content]
      [] w.do = "unrelate" -> [relations EXCEPT ![w.object] = None]
      [] OTHER -> relations

\* upsertDocuments.
DocumentsAfter(w) ==
    IF w.do = "document" THEN [documents EXCEPT ![w.object] = w.content] ELSE documents

Written(w) ==
    /\ points' = PointsAfter(w)
    /\ relations' = RelationsAfter(w)
    /\ documents' = DocumentsAfter(w)

-----------------------------------------------------------------------------
(* project.                                                                *)

\* Nothing keeps two calls from overlapping.
StartProject(c) ==
    /\ project[c].step = "idle"
    /\ watermark < Len(log)
    /\ project' = [project EXCEPT ![c] =
            [step |-> "running", last |-> Len(log),
             todo |-> WritesOf(SubSeq(log, watermark + 1, Len(log)))]]
    /\ UNCHANGED <<log, stores, watermark>>

\* The next store write; a removal by filter lists the points first.
ProjectNext(c) ==
    /\ project[c].todo # <<>>
    /\ \E w \in {Head(project[c].todo)} :
        /\ Written(w)
        /\ project' = [project EXCEPT ![c].todo =
            (IF w.do = "sweep"
             THEN SetToSeq({StoreWrite("remove", p) : p \in Listed(w.object)}) ELSE <<>>)
            \o Tail(@)]
    /\ UNCHANGED <<log, watermark>>

\* Defect: the watermark names the next event.
FinishAtNext(c) ==
    /\ project[c].step = "running" /\ project[c].todo = <<>>
    /\ watermark' = project[c].last + 1
    /\ project' = [project EXCEPT ![c] = IdleProject]
    /\ UNCHANGED <<log, stores>>

FinishProject(c) ==
    /\ project[c].step = "running" /\ project[c].todo = <<>>
    /\ watermark' = project[c].last
    /\ project' = [project EXCEPT ![c] = IdleProject]
    /\ UNCHANGED <<log, stores>>

\* An embedding or a store fails: the call throws with part of it written.
FailProject(c) ==
    /\ project[c].step = "running"
    /\ project' = [project EXCEPT ![c] = IdleProject]
    /\ UNCHANGED <<log, stores, watermark>>

RestartWorker ==
    /\ watermark' = 0
    /\ project' = [c \in Projectors |-> IdleProject]
    /\ UNCHANGED <<log, stores>>

-----------------------------------------------------------------------------
\* A module that composes adds the writes to the log and RestartWorker.
WorkerNext ==
    \E c \in Projectors :
        StartProject(c) \/ ProjectNext(c) \/ FinishProject(c) \/ FailProject(c)

-----------------------------------------------------------------------------
(* Correctness.                                                            *)

CaughtUp == watermark = Len(log) /\ \A c \in Projectors : project[c].step = "idle"

Shown(view, o) == IF Active(view, o) THEN view.objects[o].content ELSE None

\* Once the worker has caught up, after whatever failures, restarts and partial
\* runs, the stores hold what the commits left: every entity and every branch
\* of an active entity as it is, no removed one, and every relation.  That is so
\* of a single projector: calls that overlap may leave an old state.  Commits
\* that revert are not projected, and the relations of a removed entity stay.
CaughtUpStoresAgree ==
    CaughtUp /\ RevertedCommits(log) = {} =>
        LET view == View
        IN  /\ \A o \in OfKind({"memory_entity"}) \ SeedObjects : points[o] = Shown(view, o)
            /\ \A o \in OfKind({"memory_entity_branch"}) :
                points[o] = IF Active(view, o) /\ Active(view, view.objects[o].content.source)
                            THEN view.objects[o].content ELSE None
            /\ \A o \in Links :
                \/ relations[o] = Shown(view, o)
                \/ /\ relations[o] = view.objects[o].content
                   /\ \E x \in Ends(relations[o]) : ~Active(view, x)
=============================================================================
