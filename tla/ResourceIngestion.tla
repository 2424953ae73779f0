--------------------------- MODULE ResourceIngestion ---------------------------
(***************************************************************************)
(* Resources and their ingestion (resources/service.ts,                    *)
(* ingestion/service.ts, and the gateway's calls of them): the content of   *)
(* a revision goes to the content store, the revision to the history, its   *)
(* chunks to the history one commit each, and then to the vector and BM25   *)
(* stores, beside the projection worker that replays the same history into  *)
(* the same stores.  Every step below ends at an await of the code.         *)
(*                                                                         *)
(* A content hash is its content.  Revision n is the n-th accepted commit   *)
(* that creates or revises a resource; its chunks have the ids ChunkIds[n], *)
(* as the code's chunk:<revision>:<index>.                                  *)
(***************************************************************************)
EXTENDS ProjectionWorker

CONSTANTS
    Callers,        \* the calls under way at a time
    Imported,       \* what a resource is imported with
    Revised,        \* what it is revised to
    Splits,         \* chunksFor: how a content is cut, by chunk size
    ChunkIds,       \* the chunk ids of a revision
    MaxRevisions    \* bound: a resource is imported or revised so many times

Resources == OfKind({"resource"})

\* The history starts without resources, as the content store starts empty.
ASSUME IngestionAssumption ==
    /\ IsFiniteSet(Objects)
    /\ Imported \cup Revised \subseteq Values
    /\ MaxRevisions \in Nat
    /\ Splits \in [Imported \cup Revised -> SUBSET Seq(Values)]
    /\ ChunkIds \in [1..MaxRevisions -> Seq(Chunks)]
    /\ \A m, n \in 1..MaxRevisions :
        \A i \in DOMAIN ChunkIds[m], j \in DOMAIN ChunkIds[n] :
            ChunkIds[m][i] = ChunkIds[n][j] => m = n /\ i = j
    /\ \A n \in 1..MaxRevisions, v \in Imported \cup Revised : \A texts \in Splits[v] :
            Len(texts) <= Len(ChunkIds[n])
    /\ FirstCommits \in Seq([id: Nat, ops: Seq(MutationOperation)])
    /\ \A i \in DOMAIN FirstCommits :
        /\ FirstCommits[i].id = i
        /\ \A j \in DOMAIN FirstCommits[i].ops :
            FirstCommits[i].ops[j].object \notin Resources \cup Chunks

VARIABLES
    cas,    \* the content store: the contents it holds
    call,   \* the calls of the two services
    raced   \* auxiliary: resources tombstoned while they were ingested

serviceVars == <<cas, call, raced>>
resourceVars == <<workerVars, serviceVars>>

IdleCall == [step |-> "idle", object |-> None, ops |-> <<>>, base |-> 0,
             revision |-> 0, next |-> 1]

ResourceInit ==
    /\ WorkerInit
    /\ cas = {}
    /\ call = [c \in Callers |-> IdleCall]
    /\ raced = {}

Set(c, record) == call' = [call EXCEPT ![c] = record]
Goes(c, step) == call' = [call EXCEPT ![c].step = step]
Return(c) == Set(c, IdleCall)

-----------------------------------------------------------------------------
(* Revisions.                                                              *)

IsRevision(commit) ==
    \E i \in DOMAIN commit.ops : /\ commit.ops[i].kind \in {"create", "update"}
                                 /\ commit.ops[i].object \in Resources

\* The accepted revisions, of every resource, reverted ones included.
Revisions ==
    LET commits == At(log, {i \in DOMAIN log : IsRevision(log[i])})
    IN  [n \in DOMAIN commits |-> [object |-> commits[n].ops[1].object,
                                   content |-> commits[n].ops[1].content.value]]

\* findRevision: the revision asked for, or the last one of the resource.
FoundRevision(o, wanted) ==
    LET ofResource == {n \in DOMAIN Revisions : Revisions[n].object = o}
    IN  IF wanted = 0 THEN {n \in ofResource : \A m \in ofResource : m <= n}
        ELSE ofResource \cap {wanted}

RevisionContent(v) == [NoContent EXCEPT !.value = v]

-----------------------------------------------------------------------------
(* import, revise and tombstone.                                           *)

CallOf(step, o, op) ==
    [IdleCall EXCEPT !.step = step, !.object = o, !.ops = <<op>>]

\* A resource id is new: random, or refused by the history.
Import(c) ==
    /\ call[c].step = "idle"
    /\ \E o \in Resources, v \in Imported :
        /\ ~Present(View, o)
        /\ \A d \in Callers : call[d].object # o
        /\ Len(Revisions) < MaxRevisions
        /\ Set(c, CallOf("put", o, CreateOp(o, RevisionContent(v))))
    /\ UNCHANGED <<workerVars, cas, raced>>

Revise(c) ==
    /\ call[c].step = "idle"
    /\ \E o \in Resources, v \in Revised :
        /\ Active(View, o)
        /\ Len(Revisions) < MaxRevisions
        /\ Set(c, CallOf("put", o, UpdateOp(o, RevisionContent(v))))
    /\ UNCHANGED <<workerVars, cas, raced>>

\* Defect: a put that did not store is not noticed.
PutUnverified(c) ==
    /\ call[c].step = "put"
    /\ cas' \in {cas, cas \cup {call[c].ops[1].content.value}}
    /\ Set(c, [call[c] EXCEPT !.step = "write",
                  !.base = IF call[c].ops[1].kind = "create" THEN 0 ELSE Len(log)])
    /\ UNCHANGED <<workerVars, raced>>

\* put of the content store: an object is immutable and stays.
Kept(content) == cas \cup {content}

\* putAndVerify; the head a revision names is read after it, an import names none.
PutContent(c) ==
    /\ call[c].step = "put"
    /\ cas' = Kept(call[c].ops[1].content.value)
    /\ Set(c, [call[c] EXCEPT !.step = "write",
                  !.base = IF call[c].ops[1].kind = "create" THEN 0 ELSE Len(log)])
    /\ UNCHANGED <<workerVars, raced>>

TombstoneResource(c) ==
    /\ call[c].step = "idle"
    /\ \E o \in Resources :
        /\ Present(View, o)
        /\ Set(c, [CallOf("write", o, TombstoneOp(o)) EXCEPT !.base = Len(log)])
    /\ UNCHANGED <<workerVars, cas, raced>>

IngestSteps == {"find", "plan", "head", "chunk", "points", "documents"}

\* After an import or a revision the gateway has the service ingest it, a
\* revision by its id.
AfterWrite(c, revision) ==
    LET w == call[c]
    IN  IF w.ops[1].kind = "tombstone"
        THEN Return(c)
        ELSE Set(c, [IdleCall EXCEPT !.step = "view", !.object = w.object,
                        !.revision = IF w.ops[1].kind = "create" THEN 0 ELSE revision])

\* An equivalent commit answers with a revision id that no commit has.
WriteResource(c) ==
    LET w == call[c]
        op == w.ops[1]
    IN  /\ w.step = "write"
        /\ \/ /\ Accepts(w.base, w.ops)
              /\ op.kind = "tombstone" \/ Len(Revisions) < MaxRevisions
              /\ Accept(w.ops)
              /\ AfterWrite(c, Len(Revisions) + 1)
           \/ /\ ConflictsSince(w.base, w.ops) /\ Equivalent(w.base, w.ops)
              /\ UNCHANGED log
              /\ AfterWrite(c, MaxRevisions + 1)
        /\ raced' = IF op.kind = "tombstone" /\ \E d \in Callers :
                          call[d].object = w.object /\ call[d].step \in IngestSteps
                    THEN raced \cup {w.object} ELSE raced
        /\ UNCHANGED <<stores, worker, cas>>

-----------------------------------------------------------------------------
(* ingest.                                                                 *)

StartIngest(c) ==
    /\ call[c].step = "idle"
    /\ \E o \in Resources, wanted \in DOMAIN Revisions :
        Set(c, [IdleCall EXCEPT !.step = "view", !.object = o, !.revision = wanted])
    /\ UNCHANGED <<workerVars, cas, raced>>

ViewResource(c) ==
    /\ call[c].step = "view" /\ Active(View, call[c].object)
    /\ Goes(c, "find")
    /\ UNCHANGED <<workerVars, cas, raced>>

FindRevision(c) ==
    /\ call[c].step = "find"
    /\ \E n \in FoundRevision(call[c].object, call[c].revision) :
        Set(c, [call[c] EXCEPT !.step = "plan", !.revision = n])
    /\ UNCHANGED <<workerVars, cas, raced>>

ChunkContent(o, text) == [value |-> text, source |-> o, target |-> None]

\* existingRevisionChunks.
ExistingChunks(n) ==
    At(ChunkIds[n], {i \in DOMAIN ChunkIds[n] : Active(View, ChunkIds[n][i])})

\* Defect: whatever chunks the revision has are taken for all of them.
AnyChunks(existing, texts) == existing # <<>> \/ texts = <<>>

\* rebuiltOnly.
RebuiltOnly(existing, texts) ==
    [i \in DOMAIN existing |-> View.objects[existing[i]].content.value] = texts

\* Defect: new chunks go to the stores and not to the history first.
IndexFirst == "points"

NewChunks == "head"

\* The content is read and cut; chunks the view has already are only indexed.
PlanChunks(c) ==
    LET w == call[c]
        existing == ExistingChunks(w.revision)
    IN  /\ w.step = "plan"
        /\ Revisions[w.revision].content \in cas
        /\ \E texts \in Splits[Revisions[w.revision].content] :
            IF RebuiltOnly(existing, texts)
            THEN Set(c, [w EXCEPT !.step = "points", !.ops =
                    [i \in DOMAIN existing |->
                        CreateOp(existing[i], View.objects[existing[i]].content)]])
            ELSE Set(c, [w EXCEPT !.step = IF texts = <<>> THEN "points" ELSE NewChunks,
                                  !.ops =
                    [i \in DOMAIN texts |->
                        CreateOp(ChunkIds[w.revision][i], ChunkContent(w.object, texts[i]))]])
        /\ UNCHANGED <<workerVars, cas, raced>>

\* writeChunks: the head before the await of the decision, the write after it.
ChunkHead(c) ==
    /\ call[c].step = "head"
    /\ Set(c, [call[c] EXCEPT !.step = "chunk", !.base = Len(log)])
    /\ UNCHANGED <<workerVars, cas, raced>>

\* A conflict and the commit of another caller count as written.
WriteChunk(c) ==
    LET w == call[c]
        ops == <<w.ops[w.next]>>
    IN  /\ w.step = "chunk"
        /\ \/ /\ Accepts(w.base, ops)
              /\ Accept(ops)
           \/ /\ ConflictsSince(w.base, ops)
              /\ UNCHANGED log
        /\ Set(c, IF w.next = Len(w.ops)
                  THEN [w EXCEPT !.step = "points", !.next = 1, !.base = 0]
                  ELSE [w EXCEPT !.step = "head", !.next = w.next + 1, !.base = 0])
        /\ UNCHANGED <<stores, worker, cas, raced>>

\* The history refuses the chunk: the call throws (EndCall).
Refused(c) ==
    LET w == call[c]
    IN  /\ w.step = "chunk"
        /\ ~ConflictsSince(w.base, <<w.ops[w.next]>>)
        /\ ~Accepts(w.base, <<w.ops[w.next]>>)

IndexedBy(store, ops, id) ==
    IF \E i \in DOMAIN ops : ops[i].object = id
    THEN (CHOOSE op \in Range(ops) : op.object = id).content
    ELSE store[id]

IndexPoints(c) ==
    /\ call[c].step = "points"
    /\ points' = [o \in Vectors |-> IndexedBy(points, call[c].ops, o)]
    /\ Goes(c, "documents")
    /\ UNCHANGED <<log, relations, documents, worker, cas, raced>>

\* replaceRevision: the documents of the revision are these and no others.
Replaced(n, ops) ==
    LET others == [o \in Chunks |->
                    IF o \in Range(ChunkIds[n]) THEN None ELSE documents[o]]
    IN  [o \in Chunks |-> IndexedBy(others, ops, o)]

IndexDocuments(c) ==
    /\ call[c].step = "documents"
    /\ documents' = Replaced(call[c].revision, call[c].ops)
    /\ Goes(c, "indexed")
    /\ UNCHANGED <<log, points, relations, worker, cas, raced>>

\* A call is answered, or it throws at an await: permission denied, content or
\* embeddings unavailable, a resource or revision not found, a write refused.
EndCall(c) ==
    /\ call[c].step # "idle"
    /\ Return(c)
    /\ UNCHANGED <<workerVars, cas, raced>>

\* The service stops and starts again; history, contents and stores are durable.
RestartService ==
    /\ RestartWorker
    /\ call' = [c \in Callers |-> IdleCall]
    /\ UNCHANGED <<cas, raced>>

-----------------------------------------------------------------------------
ResourceNext ==
    \/ WorkerNext /\ UNCHANGED serviceVars
    \/ \E c \in Callers :
        \/ Import(c) \/ Revise(c) \/ PutContent(c) \/ TombstoneResource(c)
        \/ WriteResource(c)
        \/ StartIngest(c) \/ ViewResource(c) \/ FindRevision(c) \/ PlanChunks(c)
        \/ ChunkHead(c) \/ WriteChunk(c)
        \/ IndexPoints(c) \/ IndexDocuments(c) \/ EndCall(c)
    \/ RestartService

ResourceSpec == ResourceInit /\ [][ResourceNext]_resourceVars

-----------------------------------------------------------------------------
(* Correctness.                                                            *)

StoredContent == Content \cup {None}

IngestionTypeOK ==
    /\ \A i \in DOMAIN log : log[i].id = i
    /\ points \in [Vectors -> StoredContent]
    /\ relations \in [Links -> StoredContent]
    /\ documents \in [Chunks -> StoredContent]
    /\ watermark \in 0..Len(log)
    /\ \A c \in Projectors : project[c].last \in 0..Len(log)
    /\ cas \subseteq Imported \cup Revised
    /\ \A c \in Callers : /\ call[c].base \in 0..Len(log)
                          /\ call[c].revision \in 0..MaxRevisions + 1
    /\ raced \subseteq Resources

\* CAS-first visibility: a revision the history shows can be read, whatever
\* failed or was restarted between the content store and the history.
CasFirst == \A n \in DOMAIN Revisions : Revisions[n].content \in cas

CreatedInLog(o, content) ==
    \E i \in DOMAIN log : CreateOp(o, content) \in Range(log[i].ops)

\* A search result has a source: what the stores hold of a chunk is what an
\* accepted commit created, however ingestions, projection and failures mix.
IndexedIsHistory ==
    \A k \in Chunks :
        /\ points[k] # None => CreatedInLog(k, points[k])
        /\ documents[k] # None => CreatedInLog(k, documents[k])

\* An ingestion that answers "indexed" has all of its revision: every text of
\* it is a chunk in the history and in both stores, also when the ingestion
\* retried one that failed or met another one.  A resource removed meanwhile
\* has lost its points.
IngestedWhole ==
    \A c \in Callers : call[c].step = "indexed" =>
        LET n == call[c].revision
            o == call[c].object
        IN  \E texts \in Splits[Revisions[n].content] : \A i \in DOMAIN texts :
            LET k == ChunkIds[n][i]
                content == ChunkContent(o, texts[i])
            IN  /\ CreatedInLog(k, content)
                /\ documents[k] = content
                /\ points[k] = content \/ ~Active(View, o)

\* Once the worker has caught up, a removed resource is not found by its
\* chunks, unless an ingestion was under way when it was removed.
RemovedIsUnsearchable ==
    CaughtUp => \A o \in Resources \ raced :
        Present(View, o) /\ ~Active(View, o) =>
            \A k \in Chunks : points[k] # None => points[k].source # o

\* An ingestion that failed can be retried: the history refuses a chunk only
\* while another ingestion is under way.
FailedIngestionRetries ==
    \A c \in Callers : Refused(c) =>
        \E d \in Callers \ {c} : call[d].step \in IngestSteps
=============================================================================
